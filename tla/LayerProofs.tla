------------------------------- MODULE LayerProofs -------------------------------
(***************************************************************************)
(* If the fields inside are written and read as BelowWorks says, as leaves *)
(* are (FieldProofs), then so are the fields that hold them, and payloads  *)
(* (LayerWorks).  A tower of Layers is then taken floor by floor.          *)
(*                                                                         *)
(* Of each kind of field four things are shown: a write gives bytes or     *)
(* raises; a read ends at a number; what is held by the data is read back; *)
(* and what is not there in full raises or has lost the end of a string.   *)
(***************************************************************************)
EXTENDS Layer, LayerFits, LayerCut, FieldProofs

------------------------------------------------------------------------------
(* Reads, one behind the other.  g[k][at] is what the k-th read comes to at  *)
(* offset at; f[left][at] is what the last left ones come to.                *)

\* One read and those behind it.
Joined(first, rest) ==
  IF first.ok /\ rest.ok
  THEN Read(<<first.value>> \o rest.value, rest.offset)
  ELSE Raise

IsEach(f, g, n) ==
  f = [left \in 0..n |-> [at \in Int |->
         IF left = 0 THEN Read(<<>>, at)
         ELSE Joined(g[n - left + 1][at], f[left - 1][g[n - left + 1][at].offset])]]

\* The same, one point at a time.
Reads(f, g, n) ==
  /\ \A at \in Int : f[0][at] = Read(<<>>, at)
  /\ \A left \in 1..n, at \in Int :
       f[left][at] = Joined(g[n - left + 1][at], f[left - 1][g[n - left + 1][at].offset])

EndsAtInts(g, n) == \A k \in 1..n, at \in Int : OffsetIsInt(g[k][at])

LEMMA JoinedReads ==
  ASSUME NEW v, NEW o, NEW vs, NEW end
  PROVE  Joined(Read(v, o), Read(vs, end)) = Read(<<v>> \o vs, end)
  BY DEF Joined, Read

\* The function that ReadEach defines, point by point.
LEMMA EachReads ==
  ASSUME NEW n \in Nat, NEW g, NEW f, IsEach(f, g, n)
  PROVE  Reads(f, g, n)
  <1>1. ASSUME NEW left \in 0..n, NEW at \in Int
        PROVE  f[left][at]
                 = IF left = 0 THEN Read(<<>>, at)
                   ELSE Joined(g[n - left + 1][at],
                               f[left - 1][g[n - left + 1][at].offset])
    <2>1. f[left] = [x \in Int |->
            IF left = 0 THEN Read(<<>>, x)
            ELSE Joined(g[n - left + 1][x], f[left - 1][g[n - left + 1][x].offset])]
      BY DEF IsEach
    <2> QED BY <2>1, Zenon
  <1>2. 0 \in 0..n /\ \A left \in 1..n : left \in 0..n /\ left # 0
    OBVIOUS
  <1> QED BY <1>1, <1>2 DEF Reads

\* H[left] for the first m levels.
Levels(H, g, n, m) ==
  /\ \A at \in Int : H[0][at] = Read(<<>>, at)
  /\ \A left \in 1..m : \A at \in Int :
       H[left][at] = Joined(g[n - left + 1][at], H[left - 1][g[n - left + 1][at].offset])

\* It exists: it is built up from no read at all.
LEMMA OneMoreLevel ==
  ASSUME NEW n \in Nat, NEW g, NEW m \in Nat, NEW H, Levels(H, g, n, m)
  PROVE  \E K : Levels(K, g, n, m + 1)
  <1> DEFINE last == [at \in Int |->
                        Joined(g[n - (m + 1) + 1][at], H[m][g[n - (m + 1) + 1][at].offset])]
             K == [left \in 0..(m + 1) |-> IF left <= m THEN H[left] ELSE last]
  <1>1. \A at \in Int : last[at]
          = Joined(g[n - (m + 1) + 1][at], H[m][g[n - (m + 1) + 1][at].offset])
    OBVIOUS
  <1> HIDE DEF last
  <1>2. K[0] = H[0]
    OBVIOUS
  <1>3. ASSUME NEW left \in 1..(m + 1), NEW at \in Int
        PROVE  K[left][at]
                 = Joined(g[n - left + 1][at], K[left - 1][g[n - left + 1][at].offset])
    <2>1. CASE left <= m
      <3>1. /\ left \in 1..m /\ left \in 0..(m + 1)
            /\ left - 1 \in 0..(m + 1) /\ left - 1 <= m
        BY <2>1
      <3>2. K[left] = H[left] /\ K[left - 1] = H[left - 1]
        BY <2>1, <3>1
      <3> HIDE DEF K
      <3> QED BY <3>1, <3>2 DEF Levels
    <2>2. CASE ~(left <= m)
      <3>1. left = m + 1 /\ left - 1 = m /\ m \in 0..(m + 1)
        BY <2>2
      <3>2. K[left] = last /\ K[left - 1] = H[m]
        BY <2>2, <3>1
      <3> HIDE DEF K
      <3> QED BY <1>1, <3>1, <3>2
    <2> QED BY <2>1, <2>2
  <1> HIDE DEF K
  <1>4. Levels(K, g, n, m + 1)
    BY <1>2, <1>3 DEF Levels
  <1> QED BY <1>4

LEMMA LevelsExist ==
  ASSUME NEW n \in Nat, NEW g
  PROVE  \E H : Levels(H, g, n, n)
  <1> DEFINE Reached == {m \in Nat : \E H : Levels(H, g, n, m)}
  <1>1. 0 \in Reached
    <2> DEFINE H == [left \in 0..0 |-> [at \in Int |-> Read(<<>>, at)]]
    <2>1. Levels(H, g, n, 0)
      BY DEF Levels
    <2> HIDE DEF H
    <2> QED BY <2>1
  <1>2. \A m \in Nat : m \in Reached => m + 1 \in Reached
    BY OneMoreLevel
  <1> HIDE DEF Reached
  <1>3. n \in Reached
    BY <1>1, <1>2, AllNaturals
  <1> QED BY <1>3 DEF Reached

\* So a function as in ReadEach is there to be chosen, if offsets stay numbers.
LEMMA EachExists ==
  ASSUME NEW n \in Nat, NEW g, EndsAtInts(g, n)
  PROVE  \E f : IsEach(f, g, n)
  <1>1. PICK H : Levels(H, g, n, n)
    BY LevelsExist
  <1> DEFINE f == [left \in 0..n |-> [at \in Int |-> H[left][at]]]
  <1>2. ASSUME NEW left \in 0..n, NEW at \in Int
        PROVE  H[left][at]
                 = IF left = 0 THEN Read(<<>>, at)
                   ELSE Joined(g[n - left + 1][at],
                               f[left - 1][g[n - left + 1][at].offset])
    <2>1. CASE left = 0
      BY <1>1, <2>1 DEF Levels
    <2>2. CASE left # 0
      <3>1. left \in 1..n /\ left - 1 \in 0..n /\ n - left + 1 \in 1..n
        BY <2>2
      <3> DEFINE first == g[n - left + 1][at]
      <3>2. OffsetIsInt(first)
        BY <3>1 DEF EndsAtInts
      <3>3. H[left][at] = Joined(first, H[left - 1][first.offset])
        BY <1>1, <3>1 DEF Levels
      <3>4. first.ok => f[left - 1][first.offset] = H[left - 1][first.offset]
        <4> HIDE DEF first
        <4> QED BY <3>1, <3>2 DEF OffsetIsInt
      <3> HIDE DEF first, f
      <3>5. Joined(first, f[left - 1][first.offset])
              = Joined(first, H[left - 1][first.offset])
        BY <3>4 DEF Joined
      <3> QED BY <2>2, <3>3, <3>5 DEF first
    <2> QED BY <2>1, <2>2
  <1>3. IsEach(f, g, n)
    BY <1>2 DEF IsEach
  <1> HIDE DEF f
  <1> QED BY <1>3

\* Reads that end at numbers end at a number when they follow each other.
LEMMA EachEndsAtInt ==
  ASSUME NEW n \in Nat, NEW g, EndsAtInts(g, n), NEW f, Reads(f, g, n),
         NEW o \in Int
  PROVE  OffsetIsInt(f[n][o])
  <1> DEFINE Ends == {left \in Nat : left <= n =>
                        \A at \in Int : OffsetIsInt(f[left][at])}
  <1>1. 0 \in Ends
    <2> SUFFICES ASSUME NEW at \in Int PROVE OffsetIsInt(f[0][at])
      OBVIOUS
    <2>1. f[0][at] = Read(<<>>, at)
      BY DEF Reads
    <2> QED BY <2>1 DEF Read, OffsetIsInt
  <1>2. ASSUME NEW m \in Nat, m \in Ends PROVE m + 1 \in Ends
    <2> SUFFICES ASSUME m + 1 <= n, NEW at \in Int PROVE OffsetIsInt(f[m + 1][at])
      OBVIOUS
    <2>1. /\ m + 1 \in 1..n /\ (m + 1) - 1 = m
          /\ n - (m + 1) + 1 \in 1..n
      OBVIOUS
    <2> DEFINE first == g[n - (m + 1) + 1][at]
    <2>2. OffsetIsInt(first)
      BY <2>1 DEF EndsAtInts
    <2>3. f[m + 1][at] = Joined(first, f[m][first.offset])
      BY <2>1 DEF Reads
    <2>4. \A x \in Int : OffsetIsInt(f[m][x])
      BY <1>2
    <2> HIDE DEF first
    <2>5. first.ok => OffsetIsInt(f[m][first.offset])
      BY <2>2, <2>4 DEF OffsetIsInt
    <2> QED BY <2>3, <2>5 DEF OffsetIsInt, Joined, Read, Raise
  <1> HIDE DEF Ends
  <1>3. \A m \in Nat : m \in Ends
    BY <1>1, <1>2, AllNaturals
  <1> QED BY <1>3 DEF Ends

\* Where each read finds its part, all find theirs.
FindsParts(g, F, v, n, o) ==
  \A k \in 1..n : g[k][o + Len(F[k - 1])] = Read(v[k], o + Len(F[k]))

HaveLengths(F, n) == (\A k \in 0..n : Len(F[k]) \in Nat) /\ Len(F[0]) = 0

LEMMA TupleIsSeq ==
  ASSUME NEW v, IsTuple(v)
  PROVE  \E S : v \in Seq(S)
  <1> DEFINE n == Len(v)
             S == {v[k] : k \in 1..n}
  <1>1. n \in Nat /\ v = [k \in 1..n |-> v[k]]
    BY DEF IsTuple
  <1>2. \A k \in 1..n : v[k] \in S
    OBVIOUS
  <1> HIDE DEF S, n
  <1>3. v \in [1..n -> S]
    BY <1>1, <1>2
  <1>4. v \in Seq(S)
    BY <1>1, <1>3
  <1> QED BY <1>4

LEMMA TailOfTuple ==
  ASSUME NEW n \in Nat, NEW v, IsTuple(v), Len(v) = n, NEW i \in 1..n
  PROVE  SubSeq(v, i, n) = <<v[i]>> \o SubSeq(v, i + 1, n)
  <1>1. PICK S : v \in Seq(S)
    BY TupleIsSeq
  <1>2. i \in 1..Len(v) /\ n \in i..Len(v)
    OBVIOUS
  <1> QED BY <1>1, <1>2, SubSeqRecursiveFirst

LEMMA WholeTuple ==
  ASSUME NEW v, IsTuple(v)
  PROVE  SubSeq(v, 1, Len(v)) = v
  BY TupleIsSeq, SubSeqFull

\* If each read finds its part behind the parts before it, all are read back.
LEMMA EachReadsBack ==
  ASSUME NEW n \in Nat, NEW g, NEW f, Reads(f, g, n),
         NEW F, HaveLengths(F, n), NEW v, IsTuple(v), Len(v) = n,
         NEW o \in Nat, FindsParts(g, F, v, n, o)
  PROVE  f[n][o] = Read(v, o + Len(F[n]))
  <1> DEFINE end == o + Len(F[n])
             Back == {left \in Nat : left <= n =>
                        f[left][o + Len(F[n - left])]
                          = Read(SubSeq(v, n - left + 1, n), end)}
  <1>0. /\ n \in 0..n /\ 0 \in 0..n /\ v = [k \in 1..n |-> v[k]]
        /\ Len(F[0]) = 0 /\ \A k \in 0..n : Len(F[k]) \in Nat
    BY DEF IsTuple, HaveLengths
  <1>1. 0 \in Back
    <2>1. n - 0 = n /\ end \in Int
      BY <1>0
    <2>2. SubSeq(v, n - 0 + 1, n) = <<>>
      BY <1>0, <2>1
    <2>3. f[0][end] = Read(<<>>, end)
      BY <2>1 DEF Reads
    <2> QED BY <2>1, <2>2, <2>3
  <1>2. ASSUME NEW m \in Nat, m \in Back PROVE m + 1 \in Back
    <2> SUFFICES ASSUME m + 1 <= n
                 PROVE  f[m + 1][o + Len(F[n - (m + 1)])]
                          = Read(SubSeq(v, n - (m + 1) + 1, n), end)
      OBVIOUS
    <2>1. PICK k \in 1..n : k = n - m /\ k - 1 = n - (m + 1) /\ n - (m + 1) + 1 = k
      OBVIOUS
    <2>2. k - 1 \in 0..n /\ k \in 0..n /\ m + 1 \in 1..n /\ (m + 1) - 1 = m
      BY <2>1
    <2>3. PICK at \in Nat : at = o + Len(F[k - 1])
      BY <1>0, <2>2
    <2>4. PICK next \in Nat : next = o + Len(F[k])
      BY <1>0, <2>2
    <2>5. g[k][at] = Read(v[k], next)
      BY <2>3, <2>4 DEF FindsParts
    <2>6. f[m][next] = Read(SubSeq(v, k + 1, n), end)
      <3>1. f[m][o + Len(F[n - m])] = Read(SubSeq(v, n - m + 1, n), end)
        BY <1>2
      <3> QED BY <2>1, <2>4, <3>1
    <2> HIDE DEF end, Back
    <2>7. f[m + 1][at] = Joined(g[k][at], f[m][g[k][at].offset])
      <3>1. at \in Int
        OBVIOUS
      <3>2. f[m + 1][at] = Joined(g[n - (m + 1) + 1][at],
                                  f[(m + 1) - 1][g[n - (m + 1) + 1][at].offset])
        BY <2>2, <3>1 DEF Reads
      <3> QED BY <2>1, <2>2, <3>2
    <2>8. f[m + 1][at] = Read(<<v[k]>> \o SubSeq(v, k + 1, n), end)
      <3>1. g[k][at].offset = next
        BY <2>5 DEF Read
      <3>2. f[m + 1][at] = Joined(Read(v[k], next), Read(SubSeq(v, k + 1, n), end))
        BY <2>5, <2>6, <2>7, <3>1
      <3> QED BY <3>2, JoinedReads
    <2>9. SubSeq(v, k, n) = <<v[k]>> \o SubSeq(v, k + 1, n)
      BY TailOfTuple
    <2> QED BY <2>1, <2>3, <2>8, <2>9
  <1> HIDE DEF Back, end
  <1>3. \A m \in Nat : m \in Back
    BY <1>1, <1>2, AllNaturals
  <1>4. f[n][o + Len(F[n - n])] = Read(SubSeq(v, n - n + 1, n), end)
    <2>1. n <= n
      OBVIOUS
    <2> QED BY <1>3, <2>1 DEF Back
  <1>5. n - n = 0 /\ n - n + 1 = 1 /\ o + 0 = o
    OBVIOUS
  <1>6. SubSeq(v, 1, n) = v
    <2>1. SubSeq(v, 1, Len(v)) = v
      BY WholeTuple, Zenon
    <2> QED BY <2>1, Zenon
  <1> QED BY <1>0, <1>4, <1>5, <1>6 DEF end

------------------------------------------------------------------------------
(* The layouts of a field, from the fields below                             *)

BelowIsWritten ==
  \A field, v, sizes :
    FitsBelow(field, v) => IsWritten(WriteBelow(field, v, sizes))

BelowEndsAtInt ==
  \A field, sizes : \A data \in Seq(Octet) : \A o \in Int :
    KnownBelow(field) => OffsetIsInt(ReadBelow(field, data, o, sizes))

BelowReadsBack ==
  \A field, v, sizes : \A data \in Seq(Octet) : \A o \in Nat :
    /\ KnownBelow(field) /\ FitsBelow(field, v) /\ OnWireBelow(field, v)
    /\ Holds(data, o, WriteBelow(field, v, sizes))
    => ReadBelow(field, data, o, sizes)
         = Read(v, o + Len(WriteBelow(field, v, sizes)))

\* The reads of a layout's fields, and of n values of a layout.
FieldReads(layout, data, sizes) ==
  [k \in 1..Len(layout) |-> [at \in Int |-> ReadBelow(layout[k], data, at, sizes)]]
LayoutReads(n, layout, data, sizes) ==
  [k \in 1..n |-> [at \in Int |-> ReadLayout(layout, data, at, sizes)]]

\* What the reads g come to from offset o on.
ComesTo(r, g, n, o) == \E f : Reads(f, g, n) /\ r = f[n][o]

\* A deserialize() is the reads of its fields, one behind the other.
LEMMA LayoutComesTo ==
  ASSUME NEW layout, NEW data, NEW sizes, NEW o \in Int, Len(layout) \in Nat,
         EndsAtInts(FieldReads(layout, data, sizes), Len(layout))
  PROVE  ComesTo(ReadLayout(layout, data, o, sizes),
                 FieldReads(layout, data, sizes), Len(layout), o)
  <1> DEFINE n == Len(layout)
             g == FieldReads(layout, data, sizes)
             IsFrom(F) ==
               F = [left \in 0..n |-> [at \in Int |->
                     IF left = 0 THEN Read(<<>>, at)
                     ELSE IF /\ ReadBelow(layout[n - left + 1], data, at, sizes).ok
                             /\ F[left - 1][ReadBelow(layout[n - left + 1], data, at, sizes).offset].ok
                          THEN Read(<<ReadBelow(layout[n - left + 1], data, at, sizes).value>>
                                      \o F[left - 1][ReadBelow(layout[n - left + 1], data, at, sizes).offset].value,
                                    F[left - 1][ReadBelow(layout[n - left + 1], data, at, sizes).offset].offset)
                          ELSE Raise]]
             From == CHOOSE F : IsFrom(F)
  <1>1. ReadLayout(layout, data, o, sizes)
          = IF n <= 0 THEN Read(<<>>, o) ELSE From[n][o]
    BY DEF ReadLayout, ReadEach
  <1>2. ASSUME NEW f PROVE IsFrom(f) <=> IsEach(f, g, n)
    <2> DEFINE Next(left, at) ==
                 Joined(g[n - left + 1][at], f[left - 1][g[n - left + 1][at].offset])
               NextBelow(left, at) ==
                 Joined(ReadBelow(layout[n - left + 1], data, at, sizes),
                        f[left - 1][ReadBelow(layout[n - left + 1], data, at, sizes).offset])
    <2>1. ASSUME NEW left \in 0..n, NEW at \in Int, left # 0
          PROVE  Next(left, at) = NextBelow(left, at)
      <3>1. n - left + 1 \in 1..n
        BY <2>1
      <3>2. g[n - left + 1][at] = ReadBelow(layout[n - left + 1], data, at, sizes)
        BY <3>1 DEF FieldReads
      <3> HIDE DEF g
      <3> QED BY <3>2
    <2>2. IsEach(f, g, n) <=>
            f = [left \in 0..n |-> [at \in Int |->
                   IF left = 0 THEN Read(<<>>, at) ELSE Next(left, at)]]
      BY DEF IsEach
    <2>3. IsFrom(f) <=>
            f = [left \in 0..n |-> [at \in Int |->
                   IF left = 0 THEN Read(<<>>, at) ELSE NextBelow(left, at)]]
      BY DEF Joined
    <2> HIDE DEF Next, NextBelow, IsFrom, g
    <2> QED BY <2>1, <2>2, <2>3
  <1> HIDE DEF IsFrom, g
  <1>3. \E f : IsFrom(f)
    BY <1>2, EachExists DEF g
  <1>4. IsFrom(From)
    BY <1>3
  <1> HIDE DEF From
  <1>5. Reads(From, g, n)
    BY <1>2, <1>4, EachReads
  <1>6. n <= 0 => From[n][o] = Read(<<>>, o)
    BY <1>5 DEF Reads
  <1> QED BY <1>1, <1>5, <1>6 DEF ComesTo, g

\* A loop over a count is the reads of the entries, or nothing.
LEMMA ListComesTo ==
  ASSUME NEW layout, NEW data, NEW sizes, NEW o \in Int, NEW n \in Int,
         EndsAtInts(LayoutReads(n, layout, data, sizes), n)
  PROVE  IF n <= 0 THEN ReadEntries(n, layout, data, o, sizes) = Read(<<>>, o)
         ELSE ComesTo(ReadEntries(n, layout, data, o, sizes),
                      LayoutReads(n, layout, data, sizes), n, o)
  <1> DEFINE g == LayoutReads(n, layout, data, sizes)
             r == ReadEntries(n, layout, data, o, sizes)
             IsFrom(F) ==
               F = [left \in 0..n |-> [at \in Int |->
                     IF left = 0 THEN Read(<<>>, at)
                     ELSE IF /\ ReadLayout(layout, data, at, sizes).ok
                             /\ F[left - 1][ReadLayout(layout, data, at, sizes).offset].ok
                          THEN Read(<<ReadLayout(layout, data, at, sizes).value>>
                                      \o F[left - 1][ReadLayout(layout, data, at, sizes).offset].value,
                                    F[left - 1][ReadLayout(layout, data, at, sizes).offset].offset)
                          ELSE Raise]]
             From == CHOOSE F : IsFrom(F)
  <1>1. r = IF n <= 0 THEN Read(<<>>, o) ELSE From[n][o]
    BY DEF ReadEntries, ReadEach
  <1>2. ASSUME NEW f PROVE IsFrom(f) <=> IsEach(f, g, n)
    <2> DEFINE Next(left, at) ==
                 Joined(g[n - left + 1][at], f[left - 1][g[n - left + 1][at].offset])
               NextBelow(left, at) ==
                 Joined(ReadLayout(layout, data, at, sizes),
                        f[left - 1][ReadLayout(layout, data, at, sizes).offset])
    <2>1. ASSUME NEW left \in 0..n, NEW at \in Int, left # 0
          PROVE  Next(left, at) = NextBelow(left, at)
      <3>1. n - left + 1 \in 1..n
        BY <2>1
      <3>2. g[n - left + 1][at] = ReadLayout(layout, data, at, sizes)
        BY <3>1 DEF LayoutReads
      <3> HIDE DEF g
      <3> QED BY <3>2
    <2>2. IsEach(f, g, n) <=>
            f = [left \in 0..n |-> [at \in Int |->
                   IF left = 0 THEN Read(<<>>, at) ELSE Next(left, at)]]
      BY DEF IsEach
    <2>3. IsFrom(f) <=>
            f = [left \in 0..n |-> [at \in Int |->
                   IF left = 0 THEN Read(<<>>, at) ELSE NextBelow(left, at)]]
      BY DEF Joined
    <2> HIDE DEF Next, NextBelow, IsFrom, g
    <2> QED BY <2>1, <2>2, <2>3
  <1> HIDE DEF r
  <1>3. CASE n <= 0
    BY <1>1, <1>3 DEF r
  <1>4. CASE ~(n <= 0)
    <2>1. n \in Nat
      BY <1>4
    <2> HIDE DEF IsFrom, g
    <2>2. \E f : IsFrom(f)
      BY <1>2, <2>1, EachExists DEF g
    <2>3. IsFrom(From)
      BY <2>2
    <2> HIDE DEF From
    <2>4. Reads(From, g, n)
      BY <1>2, <2>1, <2>3, EachReads
    <2>5. ComesTo(r, g, n, o)
      BY <1>1, <1>4, <2>4 DEF ComesTo
    <2> QED BY <1>4, <2>5 DEF r, g
  <1> QED BY <1>3, <1>4

------------------------------------------------------------------------------
(* Layouts                                                                   *)

Writable == Octet \cup {Raised}

\* What the fields of a layout write.
FieldWrites(layout, fields, sizes) ==
  [k \in 1..Len(layout) |-> WriteBelow(layout[k], fields[k], sizes)]

\* A serialize() puts the writes of its fields together.
LEMMA LayoutParts ==
  ASSUME BelowIsWritten, NEW layout, NEW fields, NEW sizes,
         FitsLayout(layout, fields)
  PROVE  /\ Len(layout) \in Nat
         /\ \E F : /\ Puts(F, FieldWrites(layout, fields, sizes), Len(layout), Writable)
                  /\ WriteLayout(layout, fields, sizes) = F[Len(layout)]
  <1>1. /\ Len(layout) \in Nat
        /\ \A k \in 1..Len(layout) : FitsBelow(layout[k], fields[k])
    BY DEF FitsLayout, IsTuple
  <1>2. FieldWrites(layout, fields, sizes) \in [1..Len(layout) -> Seq(Writable)]
    BY <1>1 DEF FieldWrites, BelowIsWritten, IsWritten, Writable
  <1>3. WriteLayout(layout, fields, sizes) = FlattenSeq(FieldWrites(layout, fields, sizes))
    BY DEF WriteLayout, FieldWrites
  <1> QED BY <1>1, <1>2, <1>3, FlattenParts

LEMMA PutsWritten ==
  ASSUME NEW n \in Nat, NEW p, NEW F, Puts(F, p, n, Writable)
  PROVE  IsWritten(F[n])
  BY DEF Puts, IsWritten, Writable

\* A part is held where its whole is.
IsHeld(F, p, k, data, o) ==
  /\ Holds(data, o + Len(F[k - 1]), p[k])
  /\ o + Len(F[k - 1]) \in Nat
  /\ o + Len(F[k]) = (o + Len(F[k - 1])) + Len(p[k])

\* Data that holds all parts holds each of them, behind those before it.
LEMMA PartIsHeld ==
  ASSUME NEW n \in Nat, NEW p, NEW F, Puts(F, p, n, Writable),
         NEW data \in Seq(Octet), NEW o \in Nat, Holds(data, o, F[n]), NEW k \in 1..n
  PROVE  IsHeld(F, p, k, data, o)
  <1>1. HasLengths(F, p, n, Writable)
    BY PutsLengths
  <1>2. /\ Len(F[k - 1]) \in Nat /\ Len(p[k]) \in Nat
        /\ Len(F[k]) = Len(F[k - 1]) + Len(p[k])
        /\ Len(F[k]) <= Len(F[n]) /\ Len(F[n]) \in Nat
    <2>1. k - 1 \in 0..n /\ k \in 0..n /\ n \in 0..n
      OBVIOUS
    <2> QED BY <1>1, <2>1 DEF HasLengths
  <1>3. Len(data) \in Nat
    OBVIOUS
  <1>4. Agrees(data, o + Len(F[k - 1]), p[k])
    BY <1>3, PutsAgrees DEF Holds
  <1>5. o + Len(F[n]) <= Len(data)
    BY DEF Holds
  <1>6. /\ (o + Len(F[k - 1])) + Len(p[k]) <= Len(data)
        /\ o + Len(F[k - 1]) \in Nat
        /\ o + Len(F[k]) = (o + Len(F[k - 1])) + Len(p[k])
    <2> DEFINE a == Len(F[k - 1])
               b == Len(F[k])
               c == Len(p[k])
               d == Len(F[n])
               e == Len(data)
    <2>1. /\ a \in Nat /\ c \in Nat /\ d \in Nat /\ e \in Nat /\ b = a + c
          /\ b <= d /\ o + d <= e
      BY <1>2, <1>3, <1>5
    <2> HIDE DEF a, b, c, d, e
    <2>2. (o + a) + c <= e /\ o + a \in Nat /\ o + b = (o + a) + c
      BY <2>1
    <2> QED BY <2>2 DEF a, b, c, e
  <1> QED BY <1>4, <1>6 DEF Holds, IsHeld

\* A layout writes bytes, or raises.
LEMMA LayoutIsWritten ==
  ASSUME BelowIsWritten, NEW layout, NEW fields, NEW sizes,
         FitsLayout(layout, fields)
  PROVE  IsWritten(WriteLayout(layout, fields, sizes))
  BY LayoutParts, PutsWritten

\* The offset stays a number while a payload is read.
LEMMA LayoutEndsAtInt ==
  ASSUME BelowEndsAtInt, NEW layout, NEW sizes, NEW data \in Seq(Octet),
         NEW o \in Int, KnownLayout(layout)
  PROVE  OffsetIsInt(ReadLayout(layout, data, o, sizes))
  <1> DEFINE n == Len(layout)
             g == FieldReads(layout, data, sizes)
  <1>1. n \in Nat
    BY DEF KnownLayout, IsTuple
  <1>2. EndsAtInts(g, n)
    BY DEF EndsAtInts, FieldReads, KnownLayout, BelowEndsAtInt
  <1>3. ComesTo(ReadLayout(layout, data, o, sizes), g, n, o)
    BY <1>1, <1>2, LayoutComesTo
  <1> HIDE DEF n, g
  <1>4. PICK f : Reads(f, g, n) /\ ReadLayout(layout, data, o, sizes) = f[n][o]
    BY <1>3 DEF ComesTo
  <1> QED BY <1>1, <1>2, <1>4, EachEndsAtInt

\* A deserialize() reads back what its serialize() wrote.
LEMMA LayoutReadsBack ==
  ASSUME BelowIsWritten, BelowEndsAtInt, BelowReadsBack,
         NEW layout, NEW fields, NEW sizes, NEW data \in Seq(Octet), NEW o \in Nat,
         KnownLayout(layout), FitsLayout(layout, fields), OnWireLayout(layout, fields),
         Holds(data, o, WriteLayout(layout, fields, sizes))
  PROVE  ReadLayout(layout, data, o, sizes)
           = Read(fields, o + Len(WriteLayout(layout, fields, sizes)))
  <1> DEFINE n == Len(layout)
             g == FieldReads(layout, data, sizes)
             p == FieldWrites(layout, fields, sizes)
  <1>1. n \in Nat /\ Len(fields) = n /\ IsTuple(fields)
    BY DEF FitsLayout, IsTuple
  <1>2. PICK F : Puts(F, p, n, Writable) /\ WriteLayout(layout, fields, sizes) = F[n]
    BY LayoutParts
  <1>3. EndsAtInts(g, n)
    BY DEF EndsAtInts, FieldReads, KnownLayout, BelowEndsAtInt
  <1>4. ComesTo(ReadLayout(layout, data, o, sizes), g, n, o)
    BY <1>1, <1>3, LayoutComesTo
  <1>5. ASSUME NEW k \in 1..n
        PROVE  g[k][o + Len(F[k - 1])] = Read(fields[k], o + Len(F[k]))
    <2>1. KnownBelow(layout[k]) /\ FitsBelow(layout[k], fields[k])
          /\ OnWireBelow(layout[k], fields[k])
      BY DEF KnownLayout, FitsLayout, OnWireLayout
    <2>2. p[k] = WriteBelow(layout[k], fields[k], sizes)
      BY DEF FieldWrites
    <2>3. ASSUME NEW at \in Nat PROVE g[k][at] = ReadBelow(layout[k], data, at, sizes)
      BY DEF FieldReads
    <2> HIDE DEF n, g, p
    <2>4. IsHeld(F, p, k, data, o)
      BY <1>1, <1>2, PartIsHeld
    <2>5. PICK at \in Nat : at = o + Len(F[k - 1])
      BY <2>4 DEF IsHeld
    <2>6. Holds(data, at, WriteBelow(layout[k], fields[k], sizes))
      BY <2>2, <2>4, <2>5 DEF IsHeld
    <2>7. ReadBelow(layout[k], data, at, sizes) = Read(fields[k], at + Len(p[k]))
      BY <2>1, <2>2, <2>6 DEF BelowReadsBack
    <2>8. at + Len(p[k]) = o + Len(F[k])
      BY <2>4, <2>5 DEF IsHeld
    <2> QED BY <2>3, <2>5, <2>7, <2>8
  <1> HIDE DEF n, g, p
  <1>6. PICK f : Reads(f, g, n) /\ ReadLayout(layout, data, o, sizes) = f[n][o]
    BY <1>4 DEF ComesTo
  <1>7. FindsParts(g, F, fields, n, o)
    BY <1>5 DEF FindsParts
  <1>8. HaveLengths(F, n)
    <2>1. HasLengths(F, p, n, Writable)
      BY <1>1, <1>2, PutsLengths
    <2> QED BY <2>1 DEF HasLengths, HaveLengths
  <1>9. f[n][o] = Read(fields, o + Len(F[n]))
    BY <1>1, <1>6, <1>7, <1>8, EachReadsBack
  <1> QED BY <1>2, <1>6, <1>9

------------------------------------------------------------------------------
(* Fields                                                                    *)

\* What the values of a list write.
LayoutWrites(layout, v, sizes) ==
  [k \in 1..Len(v) |-> WriteLayout(layout, v[k], sizes)]

\* The serialize() of one entry after the other puts their bytes together.
LEMMA ListParts ==
  ASSUME BelowIsWritten, NEW layout, NEW v, NEW sizes, IsTuple(v),
         \A k \in 1..Len(v) : FitsLayout(layout, v[k])
  PROVE  /\ Len(v) \in Nat
         /\ \E F : /\ Puts(F, LayoutWrites(layout, v, sizes), Len(v), Writable)
                  /\ WriteEntries(layout, v, sizes) = F[Len(v)]
  <1>1. Len(v) \in Nat
    BY DEF IsTuple
  <1>2. LayoutWrites(layout, v, sizes) \in [1..Len(v) -> Seq(Writable)]
    BY LayoutIsWritten DEF LayoutWrites, IsWritten, Writable
  <1>3. WriteEntries(layout, v, sizes) = FlattenSeq(LayoutWrites(layout, v, sizes))
    BY DEF WriteEntries, LayoutWrites
  <1> QED BY <1>1, <1>2, <1>3, FlattenParts

\* As many entries as were counted are read back.
LEMMA ListReadsBack ==
  ASSUME BelowIsWritten, BelowEndsAtInt, BelowReadsBack,
         NEW layout, NEW v, NEW sizes, NEW data \in Seq(Octet), NEW o \in Nat,
         KnownLayout(layout), IsTuple(v),
         \A k \in 1..Len(v) : FitsLayout(layout, v[k]) /\ OnWireLayout(layout, v[k]),
         Holds(data, o, WriteEntries(layout, v, sizes))
  PROVE  ReadEntries(Len(v), layout, data, o, sizes)
           = Read(v, o + Len(WriteEntries(layout, v, sizes)))
  <1> DEFINE n == Len(v)
             g == LayoutReads(n, layout, data, sizes)
             p == LayoutWrites(layout, v, sizes)
             r == ReadEntries(n, layout, data, o, sizes)
  <1>0. PICK F : /\ Puts(F, p, n, Writable)
                 /\ WriteEntries(layout, v, sizes) = F[n]
    BY ListParts
  <1>1. n \in Nat /\ v = [k \in 1..n |-> v[k]]
    BY DEF IsTuple
  <1>2. EndsAtInts(g, n)
    BY LayoutEndsAtInt DEF EndsAtInts, LayoutReads
  <1>3. IF n <= 0 THEN r = Read(<<>>, o) ELSE ComesTo(r, g, n, o)
    <2> HIDE DEF n
    <2> QED BY <1>1, <1>2, ListComesTo
  <1>4. ASSUME NEW k \in 1..n
        PROVE  g[k][o + Len(F[k - 1])] = Read(v[k], o + Len(F[k]))
    <2>1. FitsLayout(layout, v[k]) /\ OnWireLayout(layout, v[k])
      OBVIOUS
    <2>2. p[k] = WriteLayout(layout, v[k], sizes)
      BY DEF LayoutWrites
    <2>3. ASSUME NEW at \in Nat PROVE g[k][at] = ReadLayout(layout, data, at, sizes)
      BY DEF LayoutReads
    <2>4. Puts(F, p, n, Writable) /\ Holds(data, o, F[n])
      BY <1>0
    <2> HIDE DEF n, g, p
    <2>5. IsHeld(F, p, k, data, o)
      BY <1>1, <2>4, PartIsHeld
    <2>6. PICK at \in Nat : at = o + Len(F[k - 1])
      BY <2>5 DEF IsHeld
    <2>7. Holds(data, at, WriteLayout(layout, v[k], sizes))
      BY <2>2, <2>5, <2>6 DEF IsHeld
    <2>8. ReadLayout(layout, data, at, sizes) = Read(v[k], at + Len(p[k]))
      BY <2>1, <2>2, <2>7, LayoutReadsBack
    <2>9. at + Len(p[k]) = o + Len(F[k])
      BY <2>5, <2>6 DEF IsHeld
    <2> QED BY <2>3, <2>6, <2>8, <2>9
  <1>5. HaveLengths(F, n)
    <2>1. HasLengths(F, p, n, Writable)
      BY <1>0, <1>1, PutsLengths
    <2> QED BY <2>1 DEF HasLengths, HaveLengths
  <1> HIDE DEF n, g, p, r
  <1>6. CASE n <= 0
    <2>1. n = 0 /\ r = Read(<<>>, o)
      BY <1>1, <1>3, <1>6
    <2>2. v = <<>>
      BY <1>1, <2>1
    <2>3. o + Len(F[n]) = o
      BY <1>5, <2>1 DEF HaveLengths
    <2> QED BY <1>0, <2>1, <2>2, <2>3 DEF n, r
  <1>7. CASE ~(n <= 0)
    <2>1. PICK f : Reads(f, g, n) /\ r = f[n][o]
      BY <1>3, <1>7 DEF ComesTo
    <2>2. FindsParts(g, F, v, n, o)
      BY <1>4 DEF FindsParts
    <2>3. f[n][o] = Read(v, o + Len(F[n]))
      BY <1>1, <1>5, <2>1, <2>2, EachReadsBack DEF n
    <2> QED BY <1>0, <2>1, <2>3 DEF n, r
  <1> QED BY <1>6, <1>7

\* A field writes bytes, or raises.
LEMMA FieldIsWritten ==
  ASSUME BelowIsWritten, NEW field, NEW v, NEW sizes, Fits(field, v)
  PROVE  IsWritten(WriteField(field, v, sizes))
  <1>1. CASE field.type = "struct"
    BY <1>1, LayoutIsWritten DEF Fits, WriteField
  <1>2. CASE field.type = "list"
    <2> DEFINE head == Pack(Len(v), 4)
               tail == WriteEntries(field.of, v, sizes)
    <2>1. /\ IsTuple(v) /\ Len(v) <= 2147483647
          /\ \A k \in 1..Len(v) : FitsLayout(field.of, v[k])
      BY <1>2, SMT DEF Fits
    <2>2. WriteField(field, v, sizes) = head \o tail
      BY <1>2 DEF WriteField
    <2>3. head \in Seq(Octet)
      <3>1. IsWord(Len(v))
        BY <2>1, SMT DEF IsWord, Between, IsTuple
      <3> QED BY <3>1, PackFour
    <2>4. tail \in Seq(Writable)
      <3>1. PICK F : /\ Puts(F, LayoutWrites(field.of, v, sizes), Len(v), Writable)
                     /\ tail = F[Len(v)]
        BY <2>1, ListParts
      <3>2. Len(v) \in Nat
        BY <2>1, ListParts
      <3> QED BY <3>1, <3>2, PutsWritten DEF IsWritten, Writable
    <2> HIDE DEF head, tail
    <2>5. head \in Seq(Writable)
      BY <2>3 DEF Writable
    <2> QED BY <2>2, <2>4, <2>5, ConcatProperties DEF IsWritten, Writable
  <1>3. CASE field.type = "switch"
    <2> DEFINE tail == WriteLayout(field.of[v.kind], v.fields, sizes)
    <2>1. v.kind \in Octet /\ FitsLayout(field.of[v.kind], v.fields)
      BY <1>3 DEF Fits
    <2>2. WriteField(field, v, sizes) = <<v.kind>> \o tail
      BY <1>3 DEF WriteField
    <2>3. tail \in Seq(Writable)
      BY <2>1, LayoutIsWritten DEF IsWritten, Writable
    <2>4. <<v.kind>> \in Seq(Writable)
      BY <2>1 DEF Writable
    <2> HIDE DEF tail
    <2> QED BY <2>2, <2>3, <2>4, ConcatProperties DEF IsWritten, Writable
  <1>4. CASE field.type = "implied"
    BY <1>4, LayoutIsWritten DEF Fits, WriteField
  <1>5. CASE field.type \notin {"struct", "list", "switch", "implied"}
    <2>1. FitsBelow(field, v) /\ WriteField(field, v, sizes) = WriteBelow(field, v, sizes)
      BY <1>5 DEF Fits, WriteField
    <2> QED BY <2>1 DEF BelowIsWritten
  <1> QED BY <1>1, <1>2, <1>3, <1>4, <1>5

\* The byte in front of a switch's fields, or what an implied field implies.
KindOf(field, data, o) ==
  IF field.type = "switch" THEN Member(ReadByte(data, o), DOMAIN field.of)
  ELSE Read(field.default, o)

\* read_value() and its like: the kind, and then what the kind says.
LEMMA SwitchReads ==
  ASSUME NEW field, NEW data, NEW o, NEW sizes, field.type \in {"switch", "implied"}
  PROVE  ReadField(field, data, o, sizes)
           = LET kind == KindOf(field, data, o)
                 fields == ReadLayout(field.of[kind.value], data, kind.offset, sizes)
             IN  IF kind.ok /\ fields.ok
                 THEN Read([kind |-> kind.value, fields |-> fields.value], fields.offset)
                 ELSE Raise
  BY DEF ReadField, KindOf

\* An unknown kind raises.
LEMMA SwitchRaises ==
  ASSUME NEW field, NEW data, NEW o, NEW sizes, field.type \in {"switch", "implied"},
         ~KindOf(field, data, o).ok
  PROVE  ReadField(field, data, o, sizes) = Raise
  <1> DEFINE kind == KindOf(field, data, o)
             fields == ReadLayout(field.of[kind.value], data, kind.offset, sizes)
  <1>1. ReadField(field, data, o, sizes)
          = IF kind.ok /\ fields.ok
            THEN Read([kind |-> kind.value, fields |-> fields.value], fields.offset)
            ELSE Raise
    BY DEF ReadField, KindOf
  <1> HIDE DEF kind, fields
  <1>2. ~kind.ok
    BY DEF kind
  <1> QED BY <1>1, <1>2

\* A kind that is known has a layout that is known.
LEMMA KindEndsAtInt ==
  ASSUME NEW field, NEW data, NEW o \in Int, Known(field),
         field.type \in {"switch", "implied"}, KindOf(field, data, o).ok
  PROVE  /\ KindOf(field, data, o).offset \in Int
         /\ KnownLayout(field.of[KindOf(field, data, o).value])
  <1>1. CASE field.type = "switch"
    <2> DEFINE r == ReadByte(data, o)
    <2>1. KindOf(field, data, o) = Member(r, DOMAIN field.of)
      BY <1>1 DEF KindOf
    <2>2. OffsetIsInt(r)
      BY OffsetOfUnpack DEF ReadByte, Unpack
    <2> HIDE DEF r
    <2>3. /\ KindOf(field, data, o) = r /\ r.ok /\ r.value \in DOMAIN field.of
      BY <2>1 DEF Member, Raise
    <2>4. KnownLayout(field.of[r.value])
      BY <1>1, <2>3 DEF Known
    <2> QED BY <2>2, <2>3, <2>4 DEF OffsetIsInt
  <1>2. CASE field.type = "implied"
    <2>1. KindOf(field, data, o) = Read(field.default, o)
      BY <1>2 DEF KindOf
    <2>2. KnownLayout(field.of[field.default])
      BY <1>2 DEF Known
    <2> QED BY <2>1, <2>2 DEF Read
  <1> QED BY <1>1, <1>2

\* Reading a field ends at an integer offset, or raises.
LEMMA FieldEndsAtInt ==
  ASSUME BelowEndsAtInt, NEW field, NEW sizes, NEW data \in Seq(Octet), NEW o \in Int,
         Known(field)
  PROVE  OffsetIsInt(ReadField(field, data, o, sizes))
  <1>1. CASE field.type = "struct"
    BY <1>1, LayoutEndsAtInt DEF Known, ReadField
  <1>2. CASE field.type = "list"
    <2> DEFINE count == ReadInt(data, o)
               n == count.value
               start == count.offset
               entries == ReadEntries(n, field.of, data, start, sizes)
    <2>1. ReadField(field, data, o, sizes) = IF count.ok THEN entries ELSE Raise
      BY <1>2 DEF ReadField
    <2>2. CASE count.ok
      <3>1. n \in Int /\ start \in Int
        BY <2>2, ReadIntIsInt
      <3>2. KnownLayout(field.of)
        BY <1>2 DEF Known
      <3> DEFINE g == LayoutReads(n, field.of, data, sizes)
      <3>3. EndsAtInts(g, n)
        BY <3>2, LayoutEndsAtInt DEF EndsAtInts, LayoutReads
      <3> HIDE DEF n, start
      <3>4. IF n <= 0 THEN entries = Read(<<>>, start) ELSE ComesTo(entries, g, n, start)
        BY <3>1, <3>3, ListComesTo
      <3> HIDE DEF g, entries
      <3>5. CASE n <= 0
        <4>1. OffsetIsInt(Read(<<>>, start))
          BY <3>1 DEF OffsetIsInt, Read
        <4> QED BY <2>1, <2>2, <3>4, <3>5, <4>1
      <3>6. CASE ~(n <= 0)
        <4>1. PICK f : Reads(f, g, n) /\ entries = f[n][start]
          BY <3>4, <3>6 DEF ComesTo
        <4>2. n \in Nat
          BY <3>1, <3>6
        <4>3. OffsetIsInt(f[n][start])
          BY <3>1, <3>3, <4>1, <4>2, EachEndsAtInt
        <4> QED BY <2>1, <2>2, <4>1, <4>3
      <3> QED BY <3>5, <3>6
    <2>3. CASE ~count.ok
      BY <2>1, <2>3 DEF OffsetIsInt, Raise
    <2> QED BY <2>2, <2>3
  <1>3. CASE field.type \in {"switch", "implied"}
    <2> DEFINE kind == KindOf(field, data, o)
               fields == ReadLayout(field.of[kind.value], data, kind.offset, sizes)
    <2>1. ReadField(field, data, o, sizes)
            = IF kind.ok /\ fields.ok
              THEN Read([kind |-> kind.value, fields |-> fields.value], fields.offset)
              ELSE Raise
      BY <1>3, SwitchReads
    <2>2. CASE kind.ok /\ fields.ok
      <3>1. kind.offset \in Int /\ KnownLayout(field.of[kind.value])
        BY <1>3, <2>2, KindEndsAtInt
      <3>2. OffsetIsInt(fields)
        BY <3>1, LayoutEndsAtInt
      <3> HIDE DEF kind, fields
      <3> QED BY <2>1, <2>2, <3>2 DEF OffsetIsInt, Read
    <2>3. CASE ~(kind.ok /\ fields.ok)
      BY <2>1, <2>3 DEF OffsetIsInt, Raise
    <2> QED BY <2>2, <2>3
  <1>4. CASE field.type \notin {"struct", "list", "switch", "implied"}
    BY <1>4 DEF Known, ReadField, BelowEndsAtInt
  <1> QED BY <1>1, <1>2, <1>3, <1>4

\* A field that is found whole in the data is read back, to its last byte.
LEMMA FieldReadsBack ==
  ASSUME BelowIsWritten, BelowEndsAtInt, BelowReadsBack,
         NEW field, NEW v, NEW sizes, NEW data \in Seq(Octet), NEW o \in Nat,
         Known(field), Fits(field, v), OnWire(field, v),
         Holds(data, o, WriteField(field, v, sizes))
  PROVE  ReadField(field, data, o, sizes)
           = Read(v, o + Len(WriteField(field, v, sizes)))
  <1>1. CASE field.type = "struct"
    <2>1. /\ KnownLayout(field.of) /\ FitsLayout(field.of, v) /\ OnWireLayout(field.of, v)
          /\ WriteField(field, v, sizes) = WriteLayout(field.of, v, sizes)
          /\ ReadField(field, data, o, sizes) = ReadLayout(field.of, data, o, sizes)
      BY <1>1 DEF Known, Fits, OnWire, WriteField, ReadField
    <2> QED BY <2>1, LayoutReadsBack
  <1>2. CASE field.type = "list"
    <2> DEFINE n == Len(v)
               head == Pack(n, 4)
               tail == WriteEntries(field.of, v, sizes)
    <2>1. /\ KnownLayout(field.of) /\ IsTuple(v) /\ n <= 2147483647
          /\ \A k \in 1..Len(v) : FitsLayout(field.of, v[k]) /\ OnWireLayout(field.of, v[k])
      BY <1>2, SMT DEF Known, Fits, OnWire
    <2>2. WriteField(field, v, sizes) = head \o tail
      BY <1>2 DEF WriteField
    <2>3. IsWord(n)
      BY <2>1, SMT DEF IsWord, Between, IsTuple
    <2>4. head \in Seq(Octet) /\ Len(head) = 4
      <3> HIDE DEF n
      <3> QED BY <2>3, PackFour
    <2>5. tail \in Seq(Writable)
      <3>1. PICK F : /\ Puts(F, LayoutWrites(field.of, v, sizes), n, Writable)
                     /\ tail = F[n]
        BY <2>1, ListParts
      <3>2. n \in Nat
        BY <2>1, ListParts
      <3> QED BY <3>1, <3>2, PutsWritten DEF IsWritten, Writable
    <2> HIDE DEF head, tail, n
    <2>6. head \in Seq(Writable) /\ data \in Seq(Writable)
      BY <2>4 DEF Writable
    <2>7. Holds(data, o, head) /\ Holds(data, o + 4, tail)
      <3>1. Holds(data, o, head) /\ Holds(data, o + Len(head), tail)
        BY <2>2, <2>5, <2>6, HoldsConcat
      <3> QED BY <2>4, <3>1
    <2>8. ReadInt(data, o) = Read(n, o + 4)
      BY <2>3, <2>7, HeldInt DEF head
    <2>9. ReadEntries(n, field.of, data, o + 4, sizes) = Read(v, (o + 4) + Len(tail))
      BY <2>1, <2>7, ListReadsBack DEF tail, n
    <2>10. ReadField(field, data, o, sizes)
             = ReadEntries(n, field.of, data, o + 4, sizes)
      <3>1. /\ ReadInt(data, o).ok /\ ReadInt(data, o).value = n
            /\ ReadInt(data, o).offset = o + 4
        BY <2>8 DEF Read
      <3> QED BY <1>2, <3>1 DEF ReadField
    <2>11. (o + 4) + Len(tail) = o + Len(head \o tail)
      <3>1. Len(head \o tail) = Len(head) + Len(tail) /\ Len(tail) \in Nat
        BY <2>5, <2>6, ConcatProperties, LenProperties
      <3>2. Len(head \o tail) = 4 + Len(tail)
        BY <2>4, <3>1
      <3> QED BY <3>1, <3>2
    <2> QED BY <2>2, <2>9, <2>10, <2>11
  <1>3. CASE field.type \in {"switch", "implied"}
    <2> DEFINE layout == field.of[v.kind]
               tail == WriteLayout(layout, v.fields, sizes)
    <2>1. /\ v = [kind |-> v.kind, fields |-> v.fields]
          /\ v.kind \in Octet /\ v.kind \in DOMAIN field.of
          /\ FitsLayout(layout, v.fields) /\ OnWireLayout(layout, v.fields)
          /\ KnownLayout(layout)
      BY <1>3 DEF Fits, OnWire, Known
    <2>2. tail \in Seq(Writable)
      BY <2>1, LayoutIsWritten DEF IsWritten, Writable
    <2>3. ASSUME NEW at \in Nat, Holds(data, at, tail), KindOf(field, data, o) = Read(v.kind, at)
          PROVE  ReadField(field, data, o, sizes) = Read(v, at + Len(tail))
      <3> DEFINE kind == KindOf(field, data, o)
                 fields == ReadLayout(field.of[kind.value], data, kind.offset, sizes)
      <3>1. kind.ok /\ kind.value = v.kind /\ kind.offset = at
        BY <2>3 DEF Read
      <3>2. fields = Read(v.fields, at + Len(tail))
        BY <2>1, <2>3, <3>1, LayoutReadsBack
      <3>3. ReadField(field, data, o, sizes)
              = IF kind.ok /\ fields.ok
                THEN Read([kind |-> kind.value, fields |-> fields.value], fields.offset)
                ELSE Raise
        BY <1>3, SwitchReads
      <3> HIDE DEF kind, fields
      <3>4. fields.ok /\ fields.value = v.fields /\ fields.offset = at + Len(tail)
        BY <3>2 DEF Read
      <3> QED BY <2>1, <3>1, <3>3, <3>4
    <2> HIDE DEF layout, tail
    <2>4. CASE field.type = "switch"
      <3> DEFINE head == <<v.kind>>
      <3>1. WriteField(field, v, sizes) = head \o tail
        BY <2>4 DEF WriteField, tail, layout
      <3>2. head \in Seq(Octet) /\ Len(head) = 1 /\ Unsigned(head) = v.kind
        BY <2>1, OneDigit
      <3> HIDE DEF head
      <3>3. head \in Seq(Writable) /\ data \in Seq(Writable)
        BY <3>2 DEF Writable
      <3>4. Holds(data, o, head) /\ Holds(data, o + 1, tail)
        <4>1. Holds(data, o, head) /\ Holds(data, o + Len(head), tail)
          BY <2>2, <3>1, <3>3, HoldsConcat
        <4> QED BY <3>2, <4>1
      <3>5. Found(data, o, 1, head)
        BY <3>2, <3>4, HeldBytes
      <3>6. ReadByte(data, o) = Read(v.kind, o + 1)
        BY <3>2, <3>5 DEF ReadByte, Unpack, Found
      <3>7. KindOf(field, data, o) = Read(v.kind, o + 1)
        <4>1. ReadByte(data, o).ok /\ ReadByte(data, o).value = v.kind
          BY <3>6 DEF Read
        <4> QED BY <2>1, <2>4, <3>6, <4>1 DEF KindOf, Member
      <3>8. ReadField(field, data, o, sizes) = Read(v, (o + 1) + Len(tail))
        BY <2>3, <3>4, <3>7
      <3>9. (o + 1) + Len(tail) = o + Len(head \o tail)
        <4>1. Len(head \o tail) = Len(head) + Len(tail) /\ Len(tail) \in Nat
          BY <2>2, <3>3, ConcatProperties, LenProperties
        <4>2. Len(head \o tail) = 1 + Len(tail)
          BY <3>2, <4>1
        <4> QED BY <4>1, <4>2
      <3> QED BY <3>1, <3>8, <3>9
    <2>5. CASE field.type = "implied"
      <3>1. WriteField(field, v, sizes) = tail
        BY <2>5 DEF WriteField, tail, layout
      <3>2. KindOf(field, data, o) = Read(v.kind, o)
        BY <2>5 DEF KindOf, OnWire
      <3> QED BY <2>3, <3>1, <3>2
    <2> QED BY <1>3, <2>4, <2>5
  <1>4. CASE field.type \notin {"struct", "list", "switch", "implied"}
    <2>1. /\ KnownBelow(field) /\ FitsBelow(field, v) /\ OnWireBelow(field, v)
          /\ WriteField(field, v, sizes) = WriteBelow(field, v, sizes)
          /\ ReadField(field, data, o, sizes) = ReadBelow(field, data, o, sizes)
      BY <1>4 DEF Known, Fits, OnWire, WriteField, ReadField
    <2> QED BY <2>1 DEF BelowReadsBack
  <1> QED BY <1>1, <1>2, <1>3, <1>4

IsReplaced(y, v, j, x) ==
  /\ IsTuple(y) /\ Len(y) = Len(v)
  /\ \A k \in 1..Len(v) : y[k] = IF k = j THEN x ELSE v[k]

LEMMA ExceptTuple ==
  ASSUME NEW v, IsTuple(v), NEW j, NEW x
  PROVE  IsReplaced([v EXCEPT ![j] = x], v, j, x)
  <1> DEFINE n == Len(v)
             y == [v EXCEPT ![j] = x]
             T == {v[k] : k \in 1..n} \cup {x}
  <1>1. n \in Nat /\ v = [k \in 1..n |-> v[k]]
    BY DEF IsTuple
  <1>2. DOMAIN v = 1..n
    BY <1>1
  <1>3. y = [k \in 1..n |-> IF k = j THEN x ELSE v[k]]
    BY <1>2
  <1>4. \A k \in 1..n : (IF k = j THEN x ELSE v[k]) \in T
    OBVIOUS
  <1> HIDE DEF T, y, n
  <1>5. y \in [1..n -> T]
    BY <1>3, <1>4
  <1>6. y \in Seq(T) /\ Len(y) = n
    BY <1>1, <1>5
  <1>7. y = [k \in 1..n |-> y[k]] /\ \A k \in 1..n : y[k] = IF k = j THEN x ELSE v[k]
    BY <1>3
  <1>8. IsTuple(y)
    BY <1>1, <1>6, <1>7 DEF IsTuple
  <1> QED BY <1>6, <1>7, <1>8 DEF y, n, IsReplaced

LEMMA TailOfExcept ==
  ASSUME NEW n \in Nat, NEW v, IsTuple(v), Len(v) = n, NEW j \in 1..n, NEW x
  PROVE  SubSeq([v EXCEPT ![j] = x], j + 1, n) = SubSeq(v, j + 1, n)
  <1> DEFINE y == [v EXCEPT ![j] = x]
  <1>0. IsReplaced(y, v, j, x)
    BY ExceptTuple
  <1> HIDE DEF y
  <1>1. /\ IsTuple(y) /\ Len(y) = n
        /\ \A k \in 1..n : y[k] = IF k = j THEN x ELSE v[k]
    BY <1>0 DEF IsReplaced
  <1>2. PICK S, T : v \in Seq(S) /\ y \in Seq(T)
    BY <1>1, TupleIsSeq
  <1>3. \A k \in (j + 1)..n : y[k] = v[k]
    BY <1>1
  <1>4. v \in Seq(S \cup T) /\ y \in Seq(S \cup T)
    BY <1>2
  <1> DEFINE m == n - j
  <1>5. m \in Nat /\ \A i \in 1..m : (j + 1) + i - 1 \in (j + 1)..n
    OBVIOUS
  <1>6. /\ SubSeq(y, j + 1, n) = [i \in 1..m |-> y[(j + 1) + i - 1]]
        /\ SubSeq(v, j + 1, n) = [i \in 1..m |-> v[(j + 1) + i - 1]]
    OBVIOUS
  <1> QED BY <1>3, <1>5, <1>6 DEF y

------------------------------------------------------------------------------
(* Values whose last bytes, or all, are missing                              *)

\* Behind the end of the data, which has size bytes, only values that are not
\* written are read.
MissesParts(g, p, v, n, size) ==
  \A k \in 1..n : \A at \in Nat :
    at > size /\ g[k][at].ok => g[k][at] = Read(v[k], at) /\ p[k] = <<>>

\* Behind the end of the data only what takes no bytes is read.
LEMMA EachIsMissing ==
  ASSUME NEW n \in Nat, NEW g, NEW f, Reads(f, g, n), NEW p,
         NEW v, IsTuple(v), Len(v) = n, NEW size \in Nat,
         MissesParts(g, p, v, n, size)
  PROVE  \A left \in 0..n : \A at \in Nat :
           at > size /\ f[left][at].ok
           => /\ f[left][at] = Read(SubSeq(v, n - left + 1, n), at)
              /\ \A k \in (n - left + 1)..n : p[k] = <<>>
  <1> DEFINE IsBack(left, at) ==
               f[left][at].ok
               => /\ f[left][at] = Read(SubSeq(v, n - left + 1, n), at)
                  /\ \A k \in (n - left + 1)..n : p[k] = <<>>
             Back == {left \in Nat : left <= n =>
                        \A at \in Nat : at > size => IsBack(left, at)}
  <1>1. 0 \in Back
    <2> SUFFICES ASSUME NEW at \in Nat PROVE IsBack(0, at)
      OBVIOUS
    <2>1. n - 0 + 1 = n + 1
      OBVIOUS
    <2>2. SubSeq(v, n + 1, n) = <<>>
      OBVIOUS
    <2>3. f[0][at] = Read(<<>>, at)
      BY DEF Reads
    <2>4. f[0][at] = Read(SubSeq(v, n - 0 + 1, n), at)
      BY <2>1, <2>2, <2>3
    <2>5. \A k \in (n - 0 + 1)..n : FALSE
      OBVIOUS
    <2> QED BY <2>4, <2>5
  <1>2. ASSUME NEW m \in Nat, m \in Back PROVE m + 1 \in Back
    <2> SUFFICES ASSUME m + 1 <= n, NEW at \in Nat, at > size, f[m + 1][at].ok
                 PROVE  /\ f[m + 1][at] = Read(SubSeq(v, n - (m + 1) + 1, n), at)
                        /\ \A j \in (n - (m + 1) + 1)..n : p[j] = <<>>
      OBVIOUS
    <2>1. PICK k \in 1..n : k = n - (m + 1) + 1 /\ k + 1 = n - m + 1
      OBVIOUS
    <2>2. m + 1 \in 1..n /\ (m + 1) - 1 = m /\ at \in Int /\ m <= n
      OBVIOUS
    <2>3. IsBack(m, at)
      BY <1>2, <2>2
    <2> HIDE DEF Back
    <2>4. f[m + 1][at] = Joined(g[k][at], f[m][g[k][at].offset])
      <3>1. f[m + 1][at] = Joined(g[n - (m + 1) + 1][at],
                                  f[(m + 1) - 1][g[n - (m + 1) + 1][at].offset])
        BY <2>2 DEF Reads
      <3> QED BY <2>1, <2>2, <3>1
    <2>5. g[k][at].ok /\ f[m][g[k][at].offset].ok
      BY <2>4 DEF Joined, Raise
    <2>6. g[k][at] = Read(v[k], at) /\ p[k] = <<>>
      BY <2>5 DEF MissesParts
    <2>7. g[k][at].offset = at
      BY <2>6 DEF Read
    <2>8. /\ f[m][at] = Read(SubSeq(v, k + 1, n), at)
          /\ \A j \in (k + 1)..n : p[j] = <<>>
      BY <2>1, <2>3, <2>5, <2>7
    <2>9. f[m + 1][at] = Joined(Read(v[k], at), Read(SubSeq(v, k + 1, n), at))
      BY <2>4, <2>6, <2>7, <2>8
    <2>10. f[m + 1][at] = Read(<<v[k]>> \o SubSeq(v, k + 1, n), at)
      BY <2>9, JoinedReads
    <2>11. SubSeq(v, k, n) = <<v[k]>> \o SubSeq(v, k + 1, n)
      BY TailOfTuple
    <2>12. \A j \in k..n : j = k \/ j \in (k + 1)..n
      OBVIOUS
    <2> HIDE DEF IsBack
    <2> QED BY <2>1, <2>6, <2>8, <2>10, <2>11, <2>12
  <1> HIDE DEF Back
  <1>3. \A m \in Nat : m \in Back
    BY <1>1, <1>2, AllNaturals
  <1>4. ASSUME NEW left \in 0..n, NEW at \in Nat, at > size PROVE IsBack(left, at)
    <2>1. left \in Nat /\ left <= n
      OBVIOUS
    <2> HIDE DEF IsBack
    <2> QED BY <1>3, <1>4, <2>1 DEF Back
  <1> QED BY <1>4

\* The parts that are all in the data are found; the one that is not is read
\* to behind its end, if it is.
HasParts(g, F, v, n, o, size) ==
  \A k \in 1..n :
    o + Len(F[k]) <= size => g[k][o + Len(F[k - 1])] = Read(v[k], o + Len(F[k]))
CutsParts(g, F, n, o, size) ==
  \A k \in 1..n :
    LET r == g[k][o + Len(F[k - 1])]
    IN  o + Len(F[k - 1]) <= size /\ o + Len(F[k]) > size /\ r.ok
        => r.offset \in Int /\ r.offset > size

\* The j-th part is the one that is not all in the data, those behind it are
\* not written, and what is read of it is in its place.
IsCutAt(r, g, F, p, v, n, o, size, j) ==
  /\ o + Len(F[j - 1]) <= size /\ o + Len(F[j]) > size
  /\ g[j][o + Len(F[j - 1])].ok
  /\ r.value = [v EXCEPT ![j] = g[j][o + Len(F[j - 1])].value]
  /\ r.offset \in Int /\ r.offset > size
  /\ \A k \in (j + 1)..n : p[k] = <<>>

\* If bytes are missing and nothing raises, one part has lost its end, those before
\* it are read back, and those behind it take no bytes.
LEMMA EachIsCut ==
  ASSUME NEW n \in Nat, NEW g, NEW f, Reads(f, g, n),
         NEW F, HaveLengths(F, n), NEW p, NEW v, IsTuple(v), Len(v) = n,
         NEW o \in Nat, NEW size \in Nat, o <= size, o + Len(F[n]) > size,
         HasParts(g, F, v, n, o, size), CutsParts(g, F, n, o, size),
         MissesParts(g, p, v, n, size), f[n][o].ok
  PROVE  \E j \in 1..n : IsCutAt(f[n][o], g, F, p, v, n, o, size, j)
  <1> DEFINE Start(m) == o + Len(F[n - m])
             IsEnd(m, j, at) ==
               /\ o + Len(F[j - 1]) <= size /\ o + Len(F[j]) > size
               /\ g[j][o + Len(F[j - 1])].ok
               /\ f[m][at].value
                    = SubSeq([v EXCEPT ![j] = g[j][o + Len(F[j - 1])].value], n - m + 1, n)
               /\ f[m][at].offset \in Int /\ f[m][at].offset > size
               /\ \A k \in (j + 1)..n : p[k] = <<>>
             Cuts(m) == \E j \in (n - m + 1)..n : IsEnd(m, j, Start(m))
             Cut == {m \in Nat : m <= n /\ Start(m) <= size /\ f[m][Start(m)].ok => Cuts(m)}
  <1>0. /\ n \in 0..n /\ 0 \in 0..n /\ Len(F[0]) = 0
        /\ \A k \in 0..n : Len(F[k]) \in Nat
    BY DEF HaveLengths
  <1>1. 0 \in Cut
    <2>1. n - 0 = n
      OBVIOUS
    <2>2. ~(Start(0) <= size)
      BY <1>0, <2>1
    <2> QED BY <2>2
  <1>2. ASSUME NEW m \in Nat, m \in Cut PROVE m + 1 \in Cut
    <2> SUFFICES ASSUME m + 1 <= n, Start(m + 1) <= size, f[m + 1][Start(m + 1)].ok
                 PROVE  Cuts(m + 1)
      <3>1. m + 1 \in Nat
        OBVIOUS
      <3> HIDE DEF Cuts, Start
      <3> QED BY <3>1
    <2>1. PICK k \in 1..n : /\ k = n - m /\ k - 1 = n - (m + 1)
                            /\ n - (m + 1) + 1 = k /\ n - m + 1 = k + 1
      OBVIOUS
    <2>2. k - 1 \in 0..n /\ k \in 0..n /\ m + 1 \in 1..n /\ (m + 1) - 1 = m /\ m \in 0..n
      BY <2>1
    <2>3. PICK at \in Nat : at = o + Len(F[k - 1])
      BY <1>0, <2>2
    <2>4. PICK next \in Nat : next = o + Len(F[k])
      BY <1>0, <2>2
    <2>5. Start(m + 1) = at /\ Start(m) = next /\ at <= size
      BY <2>1, <2>3, <2>4
    <2>6. m <= n /\ next <= size /\ f[m][next].ok => Cuts(m)
      BY <1>2, <2>5
    <2> HIDE DEF Cut, Cuts, IsEnd, Start
    <2>7. f[m + 1][at] = Joined(g[k][at], f[m][g[k][at].offset])
      <3>1. at \in Int
        OBVIOUS
      <3>2. f[m + 1][at] = Joined(g[n - (m + 1) + 1][at],
                                  f[(m + 1) - 1][g[n - (m + 1) + 1][at].offset])
        BY <2>2, <3>1 DEF Reads
      <3> QED BY <2>1, <2>2, <3>2
    <2>8. g[k][at].ok /\ f[m][g[k][at].offset].ok
      <3>1. f[m + 1][at].ok
        BY <2>5
      <3> QED BY <2>7, <3>1 DEF Joined, Raise
    <2>9. /\ f[m + 1][at].value = <<g[k][at].value>> \o f[m][g[k][at].offset].value
          /\ f[m + 1][at].offset = f[m][g[k][at].offset].offset
      <3> DEFINE first == g[k][at]
                 rest == f[m][first.offset]
      <3>1. f[m + 1][at] = Read(<<first.value>> \o rest.value, rest.offset)
        <4>1. first.ok /\ rest.ok /\ f[m + 1][at] = Joined(first, rest)
          BY <2>7, <2>8
        <4> HIDE DEF first, rest
        <4> QED BY <4>1 DEF Joined
      <3> HIDE DEF first, rest
      <3>2. /\ f[m + 1][at].value = <<first.value>> \o rest.value
            /\ f[m + 1][at].offset = rest.offset
        BY <3>1 DEF Read
      <3> QED BY <3>2 DEF first, rest
    <2>10. CASE next <= size
      <3>1. g[k][at] = Read(v[k], next)
        BY <2>3, <2>4, <2>10 DEF HasParts
      <3>2. g[k][at].value = v[k] /\ g[k][at].offset = next
        BY <3>1 DEF Read
      <3>3. Cuts(m)
        BY <2>2, <2>6, <2>8, <2>10, <3>2
      <3>4. PICK j \in (k + 1)..n : IsEnd(m, j, next)
        BY <2>1, <2>5, <3>3 DEF Cuts
      <3> DEFINE y == [v EXCEPT ![j] = g[j][o + Len(F[j - 1])].value]
      <3>5. f[m][next].value = SubSeq(y, k + 1, n)
        BY <2>1, <3>4 DEF IsEnd
      <3>12. IsReplaced(y, v, j, g[j][o + Len(F[j - 1])].value)
        BY ExceptTuple
      <3> HIDE DEF y
      <3>6. IsTuple(y) /\ Len(y) = n /\ y[k] = v[k]
        BY <3>4, <3>12 DEF IsReplaced
      <3>7. SubSeq(y, k, n) = <<y[k]>> \o SubSeq(y, k + 1, n)
        BY <3>6, TailOfTuple
      <3>8. f[m + 1][at].value = SubSeq(y, k, n)
        BY <2>9, <3>2, <3>5, <3>6, <3>7
      <3>9. f[m + 1][at].offset = f[m][next].offset
        BY <2>9, <3>2
      <3>10. IsEnd(m + 1, j, at)
        BY <2>1, <3>4, <3>8, <3>9 DEF IsEnd, y
      <3>11. j \in k..n
        OBVIOUS
      <3> QED BY <2>1, <2>5, <3>10, <3>11 DEF Cuts
    <2>11. CASE next > size
      <3>1. /\ o + Len(F[k - 1]) <= size /\ o + Len(F[k]) > size
            /\ g[k][o + Len(F[k - 1])].ok
        BY <2>3, <2>4, <2>5, <2>8, <2>11
      <3>2. g[k][at].offset \in Int /\ g[k][at].offset > size
        BY <2>3, <3>1 DEF CutsParts
      <3>3. PICK end \in Nat : end = g[k][at].offset
        BY <3>2
      <3>4. end > size /\ f[m][end].ok
        BY <2>8, <3>2, <3>3
      <3>5. /\ f[m][end] = Read(SubSeq(v, k + 1, n), end)
            /\ \A i \in (k + 1)..n : p[i] = <<>>
        BY <2>1, <2>2, <3>4, EachIsMissing
      <3> DEFINE y == [v EXCEPT ![k] = g[k][o + Len(F[k - 1])].value]
      <3>13. IsReplaced(y, v, k, g[k][o + Len(F[k - 1])].value)
        BY ExceptTuple
      <3>14. SubSeq(y, k + 1, n) = SubSeq(v, k + 1, n)
        <4> DEFINE x == g[k][o + Len(F[k - 1])].value
        <4> HIDE DEF x
        <4>1. SubSeq([v EXCEPT ![k] = x], k + 1, n) = SubSeq(v, k + 1, n)
          BY TailOfExcept
        <4> QED BY <4>1 DEF x
      <3> HIDE DEF y
      <3>6. /\ IsTuple(y) /\ Len(y) = n /\ y[k] = g[k][at].value
            /\ SubSeq(y, k + 1, n) = SubSeq(v, k + 1, n)
        BY <2>3, <3>13, <3>14 DEF IsReplaced
      <3>7. SubSeq(y, k, n) = <<y[k]>> \o SubSeq(y, k + 1, n)
        BY <3>6, TailOfTuple
      <3>8. f[m][end].value = SubSeq(v, k + 1, n) /\ f[m][end].offset = end
        BY <3>5 DEF Read
      <3>9. f[m + 1][at].value = SubSeq(y, k, n)
        BY <2>9, <3>3, <3>6, <3>7, <3>8
      <3>10. f[m + 1][at].offset = end
        BY <2>9, <3>3, <3>8
      <3>11. IsEnd(m + 1, k, at)
        BY <2>1, <3>1, <3>4, <3>5, <3>9, <3>10 DEF IsEnd, y
      <3>12. k \in k..n
        OBVIOUS
      <3> QED BY <2>1, <2>5, <3>11, <3>12 DEF Cuts
    <2> QED BY <2>10, <2>11
  <1> HIDE DEF Cut
  <1>3. n \in Cut
    BY <1>1, <1>2, AllNaturals
  <1>4. Start(n) = o /\ n - n + 1 = 1
    BY <1>0
  <1> HIDE DEF Start, IsEnd
  <1>5. PICK j \in 1..n : IsEnd(n, j, o)
    BY <1>3, <1>4 DEF Cut
  <1> DEFINE y == [v EXCEPT ![j] = g[j][o + Len(F[j - 1])].value]
  <1>6. SubSeq(y, 1, n) = y
    <2>3. IsReplaced(y, v, j, g[j][o + Len(F[j - 1])].value)
      BY ExceptTuple
    <2> HIDE DEF y
    <2>1. IsTuple(y) /\ Len(y) = n
      BY <2>3 DEF IsReplaced
    <2>2. SubSeq(y, 1, Len(y)) = y
      BY <2>1, WholeTuple, Zenon
    <2> QED BY <2>1, <2>2, Zenon
  <1>7. f[n][o].value = y
    BY <1>4, <1>5, <1>6 DEF IsEnd
  <1>8. IsCutAt(f[n][o], g, F, p, v, n, o, size, j)
    BY <1>5, <1>7 DEF IsEnd, IsCutAt
  <1> QED BY <1>8

\* What BelowReadsBack says of whole values, of those whose last bytes are
\* missing, and of those that are behind the end of the data.
BelowIsCut ==
  \A field, v, sizes : \A data \in Seq(Octet) : \A o \in Nat :
    LET r == ReadBelow(field, data, o, sizes)
        b == WriteBelow(field, v, sizes)
    IN  /\ KnownBelow(field) /\ FitsBelow(field, v) /\ OnWireBelow(field, v)
        /\ o <= Len(data) /\ Agrees(data, o, b) /\ o + Len(b) > Len(data) /\ r.ok
        => /\ LosesEndBelow(field, v, r.value, sizes)
           /\ r.offset \in Int /\ r.offset > Len(data)

BelowIsMissing ==
  \A field, v, sizes : \A data \in Seq(Octet) : \A o \in Nat :
    /\ KnownBelow(field) /\ FitsBelow(field, v) /\ OnWireBelow(field, v)
    /\ o > Len(data) /\ ReadBelow(field, data, o, sizes).ok
    => /\ ReadBelow(field, data, o, sizes) = Read(v, o)
       /\ WriteBelow(field, v, sizes) = <<>>

\* A part agrees with the data where its whole does.
IsAgreed(F, p, k, data, o) ==
  /\ Agrees(data, o + Len(F[k - 1]), p[k])
  /\ o + Len(F[k - 1]) \in Nat /\ Len(p[k]) \in Nat
  /\ o + Len(F[k]) = (o + Len(F[k - 1])) + Len(p[k])

\* Data that agrees with all parts agrees with each of them, at its place.
LEMMA PartAgrees ==
  ASSUME NEW n \in Nat, NEW p, NEW F, Puts(F, p, n, Writable),
         NEW data \in Seq(Octet), NEW o \in Nat, Agrees(data, o, F[n]), NEW k \in 1..n
  PROVE  IsAgreed(F, p, k, data, o)
  <1>1. HasLengths(F, p, n, Writable)
    BY PutsLengths
  <1>2. /\ Len(F[k - 1]) \in Nat /\ Len(p[k]) \in Nat
        /\ Len(F[k]) = Len(F[k - 1]) + Len(p[k])
    <2>1. k - 1 \in 0..n /\ k \in 0..n /\ n \in 0..n
      OBVIOUS
    <2> QED BY <1>1, <2>1 DEF HasLengths
  <1>3. Len(data) \in Nat
    OBVIOUS
  <1>4. Agrees(data, o + Len(F[k - 1]), p[k])
    BY <1>3, PutsAgrees
  <1>5. /\ o + Len(F[k - 1]) \in Nat
        /\ o + Len(F[k]) = (o + Len(F[k - 1])) + Len(p[k])
    <2> DEFINE a == Len(F[k - 1])
               b == Len(F[k])
               c == Len(p[k])
    <2>1. a \in Nat /\ c \in Nat /\ b = a + c
      BY <1>2
    <2> HIDE DEF a, b, c
    <2>2. o + a \in Nat /\ o + b = (o + a) + c
      BY <2>1
    <2> QED BY <2>2 DEF a, b, c
  <1> QED BY <1>2, <1>4, <1>5 DEF IsAgreed

\* What the reads of a layout's fields come to, at each of them.
LEMMA FieldReadsAre ==
  ASSUME BelowIsWritten, BelowReadsBack, BelowIsCut, BelowIsMissing,
         NEW layout, NEW fields, NEW sizes, NEW data \in Seq(Octet), NEW o \in Nat,
         KnownLayout(layout), FitsLayout(layout, fields), OnWireLayout(layout, fields),
         NEW n, n = Len(layout), NEW p, p = FieldWrites(layout, fields, sizes),
         NEW g, g = FieldReads(layout, data, sizes), NEW size, size = Len(data)
  PROVE  /\ MissesParts(g, p, fields, n, size)
         /\ \A F : Puts(F, p, n, Writable) /\ Agrees(data, o, F[n])
              => HasParts(g, F, fields, n, o, size) /\ CutsParts(g, F, n, o, size)
  <1>1. n \in Nat
    BY DEF KnownLayout, IsTuple
  <1>2. \A k \in 1..n : /\ KnownBelow(layout[k]) /\ FitsBelow(layout[k], fields[k])
                        /\ OnWireBelow(layout[k], fields[k])
    BY DEF KnownLayout, FitsLayout, OnWireLayout
  <1>3. \A k \in 1..n : p[k] = WriteBelow(layout[k], fields[k], sizes)
    BY DEF FieldWrites
  <1>4. \A k \in 1..n : \A at \in Nat : g[k][at] = ReadBelow(layout[k], data, at, sizes)
    BY DEF FieldReads
  <1>5. MissesParts(g, p, fields, n, size)
    <2> SUFFICES ASSUME NEW k \in 1..n, NEW at \in Nat, at > size, g[k][at].ok
                 PROVE  g[k][at] = Read(fields[k], at) /\ p[k] = <<>>
      BY DEF MissesParts
    <2> QED BY <1>2, <1>3, <1>4 DEF BelowIsMissing
  <1>6. ASSUME NEW F, Puts(F, p, n, Writable), Agrees(data, o, F[n])
        PROVE  HasParts(g, F, fields, n, o, size) /\ CutsParts(g, F, n, o, size)
    <2>1. ASSUME NEW k \in 1..n
          PROVE  IsAgreed(F, p, k, data, o)
      BY <1>1, <1>6, PartAgrees
    <2>2. ASSUME NEW k \in 1..n, o + Len(F[k]) <= size
          PROVE  g[k][o + Len(F[k - 1])] = Read(fields[k], o + Len(F[k]))
      <3>1. PICK at \in Nat : at = o + Len(F[k - 1])
        BY <2>1 DEF IsAgreed
      <3>2. Agrees(data, at, p[k]) /\ o + Len(F[k]) = at + Len(p[k])
        BY <2>1, <3>1 DEF IsAgreed
      <3>3. Holds(data, at, WriteBelow(layout[k], fields[k], sizes))
        BY <1>3, <2>2, <3>2 DEF Holds
      <3>4. ReadBelow(layout[k], data, at, sizes) = Read(fields[k], at + Len(p[k]))
        BY <1>2, <1>3, <3>3 DEF BelowReadsBack
      <3> QED BY <1>4, <3>1, <3>2, <3>4
    <2>3. ASSUME NEW k \in 1..n, o + Len(F[k - 1]) <= size, o + Len(F[k]) > size,
                 g[k][o + Len(F[k - 1])].ok
          PROVE  /\ g[k][o + Len(F[k - 1])].offset \in Int
                 /\ g[k][o + Len(F[k - 1])].offset > size
      <3>1. PICK at \in Nat : at = o + Len(F[k - 1])
        BY <2>1 DEF IsAgreed
      <3>2. Agrees(data, at, p[k]) /\ o + Len(F[k]) = at + Len(p[k])
        BY <2>1, <3>1 DEF IsAgreed
      <3>3. /\ Agrees(data, at, WriteBelow(layout[k], fields[k], sizes))
            /\ at + Len(WriteBelow(layout[k], fields[k], sizes)) > size
            /\ ReadBelow(layout[k], data, at, sizes).ok /\ at <= size
        BY <1>3, <1>4, <2>3, <3>1, <3>2
      <3>4. /\ ReadBelow(layout[k], data, at, sizes).offset \in Int
            /\ ReadBelow(layout[k], data, at, sizes).offset > size
        BY <1>2, <3>3 DEF BelowIsCut
      <3> QED BY <1>4, <3>1, <3>4
    <2> QED BY <2>2, <2>3 DEF HasParts, CutsParts
  <1> QED BY <1>5, <1>6

\* Behind the end of the data a layout is read only if it writes nothing.
LEMMA LayoutIsMissing ==
  ASSUME BelowIsWritten, BelowEndsAtInt, BelowReadsBack, BelowIsCut, BelowIsMissing,
         NEW layout, NEW fields, NEW sizes, NEW data \in Seq(Octet), NEW o \in Nat,
         KnownLayout(layout), FitsLayout(layout, fields), OnWireLayout(layout, fields),
         o > Len(data), ReadLayout(layout, data, o, sizes).ok
  PROVE  /\ ReadLayout(layout, data, o, sizes) = Read(fields, o)
         /\ WriteLayout(layout, fields, sizes) = <<>>
  <1> DEFINE n == Len(layout)
             g == FieldReads(layout, data, sizes)
             p == FieldWrites(layout, fields, sizes)
             size == Len(data)
             r == ReadLayout(layout, data, o, sizes)
  <1>1. n \in Nat /\ Len(fields) = n /\ IsTuple(fields) /\ size \in Nat
    BY DEF FitsLayout, IsTuple
  <1>2. PICK F : Puts(F, p, n, Writable) /\ WriteLayout(layout, fields, sizes) = F[n]
    BY LayoutParts
  <1>3. EndsAtInts(g, n)
    BY DEF EndsAtInts, FieldReads, KnownLayout, BelowEndsAtInt
  <1>4. ComesTo(r, g, n, o)
    BY <1>1, <1>3, LayoutComesTo
  <1>5. MissesParts(g, p, fields, n, size)
    <2> HIDE DEF n, g, p, size
    <2> QED BY FieldReadsAre DEF n, g, p, size
  <1> HIDE DEF n, g, p, size, r
  <1>6. PICK f : Reads(f, g, n) /\ r = f[n][o]
    BY <1>4 DEF ComesTo
  <1>7. n \in 0..n /\ n - n + 1 = 1 /\ o > size /\ f[n][o].ok
    BY <1>1, <1>6 DEF size, r
  <1>8. /\ f[n][o] = Read(SubSeq(fields, 1, n), o)
        /\ \A k \in 1..n : p[k] = <<>>
    BY <1>1, <1>5, <1>6, <1>7, EachIsMissing
  <1>9. SubSeq(fields, 1, n) = fields
    BY <1>1, WholeTuple, Zenon
  <1>10. F[n] = <<>>
    BY <1>1, <1>2, <1>8, PutsNothing
  <1> QED BY <1>2, <1>6, <1>8, <1>9, <1>10 DEF r

\* A layout whose last bytes are missing is read, if it is, up to a field that
\* has lost its end.
LEMMA LayoutIsCut ==
  ASSUME BelowIsWritten, BelowEndsAtInt, BelowReadsBack, BelowIsCut, BelowIsMissing,
         NEW layout, NEW fields, NEW sizes, NEW data \in Seq(Octet), NEW o \in Nat,
         KnownLayout(layout), FitsLayout(layout, fields), OnWireLayout(layout, fields),
         o <= Len(data), Agrees(data, o, WriteLayout(layout, fields, sizes)),
         o + Len(WriteLayout(layout, fields, sizes)) > Len(data),
         ReadLayout(layout, data, o, sizes).ok
  PROVE  /\ LosesEndLayout(layout, fields, ReadLayout(layout, data, o, sizes).value, sizes)
         /\ ReadLayout(layout, data, o, sizes).offset \in Int
         /\ ReadLayout(layout, data, o, sizes).offset > Len(data)
  <1> DEFINE n == Len(layout)
             g == FieldReads(layout, data, sizes)
             p == FieldWrites(layout, fields, sizes)
             size == Len(data)
             r == ReadLayout(layout, data, o, sizes)
             y == r.value
  <1>1. n \in Nat /\ Len(fields) = n /\ IsTuple(fields) /\ size \in Nat
    BY DEF FitsLayout, IsTuple
  <1>2. PICK F : Puts(F, p, n, Writable) /\ WriteLayout(layout, fields, sizes) = F[n]
    BY LayoutParts
  <1>3. EndsAtInts(g, n)
    BY DEF EndsAtInts, FieldReads, KnownLayout, BelowEndsAtInt
  <1>4. ComesTo(r, g, n, o)
    BY <1>1, <1>3, LayoutComesTo
  <1>5. /\ \A k \in 1..n : p[k] = WriteBelow(layout[k], fields[k], sizes)
        /\ \A k \in 1..n : \A at \in Nat : g[k][at] = ReadBelow(layout[k], data, at, sizes)
        /\ \A k \in 1..n : /\ KnownBelow(layout[k]) /\ FitsBelow(layout[k], fields[k])
                           /\ OnWireBelow(layout[k], fields[k])
    BY DEF FieldWrites, FieldReads, KnownLayout, FitsLayout, OnWireLayout
  <1> HIDE DEF n, g, p, size, r
  <1>6. /\ o <= size /\ Agrees(data, o, F[n]) /\ o + Len(F[n]) > size /\ r.ok
    BY <1>2 DEF size, r
  <1>7. /\ MissesParts(g, p, fields, n, size)
        /\ HasParts(g, F, fields, n, o, size) /\ CutsParts(g, F, n, o, size)
    BY <1>2, <1>6, FieldReadsAre DEF n, g, p, size
  <1>8. HaveLengths(F, n)
    <2>1. HasLengths(F, p, n, Writable)
      BY <1>1, <1>2, PutsLengths
    <2> QED BY <2>1 DEF HasLengths, HaveLengths
  <1>9. PICK f : Reads(f, g, n) /\ r = f[n][o]
    BY <1>4 DEF ComesTo
  <1>10. \E j \in 1..n : IsCutAt(f[n][o], g, F, p, fields, n, o, size, j)
    BY <1>1, <1>6, <1>7, <1>8, <1>9, EachIsCut
  <1>11. PICK j \in 1..n : IsCutAt(r, g, F, p, fields, n, o, size, j)
    BY <1>9, <1>10
  <1>12. IsAgreed(F, p, j, data, o)
    BY <1>1, <1>2, <1>6, PartAgrees
  <1>13. PICK at \in Nat : at = o + Len(F[j - 1])
    BY <1>12 DEF IsAgreed
  <1>14. /\ at <= size /\ Agrees(data, at, p[j]) /\ at + Len(p[j]) > size /\ g[j][at].ok
    BY <1>11, <1>12, <1>13 DEF IsAgreed, IsCutAt
  <1>15. LosesEndBelow(layout[j], fields[j], g[j][at].value, sizes)
    BY <1>5, <1>14 DEF BelowIsCut, size
  <1>16. IsReplaced(y, fields, j, g[j][at].value)
    <2>1. y = [fields EXCEPT ![j] = g[j][at].value]
      BY <1>11, <1>13 DEF IsCutAt
    <2> HIDE DEF y
    <2> QED BY <1>1, <2>1, ExceptTuple
  <1> HIDE DEF y
  <1>17. /\ IsTuple(y) /\ Len(y) = n /\ y[j] = g[j][at].value
         /\ \A k \in 1..n \ {j} : y[k] = fields[k]
    BY <1>1, <1>16 DEF IsReplaced
  <1>18. \A k \in (j + 1)..n : WriteBelow(layout[k], fields[k], sizes) = <<>>
    <2>1. \A k \in (j + 1)..n : k \in 1..n /\ p[k] = <<>>
      BY <1>1, <1>11 DEF IsCutAt
    <2> QED BY <1>5, <2>1
  <1>19. LosesEndLayout(layout, fields, y, sizes)
    BY <1>15, <1>17, <1>18 DEF LosesEndLayout, OneLosesEnd, n
  <1>20. r.offset \in Int /\ r.offset > size
    BY <1>11 DEF IsCutAt
  <1> QED BY <1>19, <1>20 DEF y, r, size

\* What holds of each layout holds of each entry of a list.
LEMMA EntryReadsAre ==
  ASSUME BelowIsWritten, BelowEndsAtInt, BelowReadsBack, BelowIsCut, BelowIsMissing,
         NEW layout, NEW v, NEW sizes, NEW data \in Seq(Octet), NEW o \in Nat,
         KnownLayout(layout), IsTuple(v),
         \A k \in 1..Len(v) : FitsLayout(layout, v[k]) /\ OnWireLayout(layout, v[k]),
         NEW n, n = Len(v), NEW p, p = LayoutWrites(layout, v, sizes),
         NEW g, g = LayoutReads(n, layout, data, sizes), NEW size, size = Len(data)
  PROVE  /\ MissesParts(g, p, v, n, size)
         /\ \A F : Puts(F, p, n, Writable) /\ Agrees(data, o, F[n])
              => HasParts(g, F, v, n, o, size) /\ CutsParts(g, F, n, o, size)
  <1>1. n \in Nat
    BY DEF IsTuple
  <1>2. \A k \in 1..n : FitsLayout(layout, v[k]) /\ OnWireLayout(layout, v[k])
    OBVIOUS
  <1>3. \A k \in 1..n : p[k] = WriteLayout(layout, v[k], sizes)
    BY DEF LayoutWrites
  <1>4. \A k \in 1..n : \A at \in Nat : g[k][at] = ReadLayout(layout, data, at, sizes)
    BY DEF LayoutReads
  <1>5. MissesParts(g, p, v, n, size)
    <2> SUFFICES ASSUME NEW k \in 1..n, NEW at \in Nat, at > size, g[k][at].ok
                 PROVE  g[k][at] = Read(v[k], at) /\ p[k] = <<>>
      BY DEF MissesParts
    <2> QED BY <1>2, <1>3, <1>4, LayoutIsMissing
  <1>6. ASSUME NEW F, Puts(F, p, n, Writable), Agrees(data, o, F[n])
        PROVE  HasParts(g, F, v, n, o, size) /\ CutsParts(g, F, n, o, size)
    <2>1. ASSUME NEW k \in 1..n
          PROVE  IsAgreed(F, p, k, data, o)
      BY <1>1, <1>6, PartAgrees
    <2>2. ASSUME NEW k \in 1..n, o + Len(F[k]) <= size
          PROVE  g[k][o + Len(F[k - 1])] = Read(v[k], o + Len(F[k]))
      <3>1. PICK at \in Nat : at = o + Len(F[k - 1])
        BY <2>1 DEF IsAgreed
      <3>2. Agrees(data, at, p[k]) /\ o + Len(F[k]) = at + Len(p[k])
        BY <2>1, <3>1 DEF IsAgreed
      <3>3. Holds(data, at, WriteLayout(layout, v[k], sizes))
        BY <1>3, <2>2, <3>2 DEF Holds
      <3>4. ReadLayout(layout, data, at, sizes) = Read(v[k], at + Len(p[k]))
        BY <1>2, <1>3, <3>3, LayoutReadsBack
      <3> QED BY <1>4, <3>1, <3>2, <3>4
    <2>3. ASSUME NEW k \in 1..n, o + Len(F[k - 1]) <= size, o + Len(F[k]) > size,
                 g[k][o + Len(F[k - 1])].ok
          PROVE  /\ g[k][o + Len(F[k - 1])].offset \in Int
                 /\ g[k][o + Len(F[k - 1])].offset > size
      <3>1. PICK at \in Nat : at = o + Len(F[k - 1])
        BY <2>1 DEF IsAgreed
      <3>2. Agrees(data, at, p[k]) /\ o + Len(F[k]) = at + Len(p[k])
        BY <2>1, <3>1 DEF IsAgreed
      <3>3. /\ Agrees(data, at, WriteLayout(layout, v[k], sizes))
            /\ at + Len(WriteLayout(layout, v[k], sizes)) > size
            /\ ReadLayout(layout, data, at, sizes).ok /\ at <= size
        BY <1>3, <1>4, <2>3, <3>1, <3>2
      <3>4. /\ ReadLayout(layout, data, at, sizes).offset \in Int
            /\ ReadLayout(layout, data, at, sizes).offset > size
        BY <1>2, <3>3, LayoutIsCut
      <3> QED BY <1>4, <3>1, <3>4
    <2> QED BY <2>2, <2>3 DEF HasParts, CutsParts
  <1> QED BY <1>5, <1>6

\* LayerCut speaks of this Layer's writes.
EntryIsLayout == \A layout, fields, sizes :
  WriteEntry(layout, fields, sizes) = WriteLayout(layout, fields, sizes)

\* The entries of a list.
EntriesLoseEnd(layout, v, read, sizes) ==
  OneLosesEnd(Len(v), v, read,
    LAMBDA k : LosesEndLayout(layout, v[k], read[k], sizes),
    LAMBDA k : WriteLayout(layout, v[k], sizes))

\* A list that lacks bytes raises, or one of its entries has lost its end.
LEMMA EntriesAreCut ==
  ASSUME BelowIsWritten, BelowEndsAtInt, BelowReadsBack, BelowIsCut, BelowIsMissing,
         NEW layout, NEW v, NEW sizes, NEW data \in Seq(Octet), NEW o \in Nat,
         KnownLayout(layout), IsTuple(v),
         \A k \in 1..Len(v) : FitsLayout(layout, v[k]) /\ OnWireLayout(layout, v[k]),
         o <= Len(data), Agrees(data, o, WriteEntries(layout, v, sizes)),
         o + Len(WriteEntries(layout, v, sizes)) > Len(data),
         ReadEntries(Len(v), layout, data, o, sizes).ok
  PROVE  LET r == ReadEntries(Len(v), layout, data, o, sizes)
         IN  /\ EntriesLoseEnd(layout, v, r.value, sizes)
             /\ r.offset \in Int /\ r.offset > Len(data)
  <1> DEFINE n == Len(v)
             g == LayoutReads(n, layout, data, sizes)
             p == LayoutWrites(layout, v, sizes)
             size == Len(data)
             r == ReadEntries(n, layout, data, o, sizes)
             y == r.value
  <1>1. n \in Nat /\ size \in Nat
    BY DEF IsTuple
  <1>2. PICK F : Puts(F, p, n, Writable) /\ WriteEntries(layout, v, sizes) = F[n]
    BY ListParts
  <1>3. EndsAtInts(g, n)
    BY LayoutEndsAtInt DEF EndsAtInts, LayoutReads
  <1>4. IF n <= 0 THEN r = Read(<<>>, o) ELSE ComesTo(r, g, n, o)
    <2> HIDE DEF n
    <2> QED BY <1>1, <1>3, ListComesTo
  <1>5. /\ \A k \in 1..n : p[k] = WriteLayout(layout, v[k], sizes)
        /\ \A k \in 1..n : \A at \in Nat : g[k][at] = ReadLayout(layout, data, at, sizes)
        /\ \A k \in 1..n : FitsLayout(layout, v[k]) /\ OnWireLayout(layout, v[k])
    BY DEF LayoutWrites, LayoutReads
  <1> HIDE DEF n, g, p, size, r
  <1>6. /\ o <= size /\ Agrees(data, o, F[n]) /\ o + Len(F[n]) > size /\ r.ok
    BY <1>2 DEF size, r, n
  <1>7. /\ MissesParts(g, p, v, n, size)
        /\ HasParts(g, F, v, n, o, size) /\ CutsParts(g, F, n, o, size)
    BY <1>2, <1>6, EntryReadsAre DEF n, g, p, size
  <1>8. HaveLengths(F, n)
    <2>1. HasLengths(F, p, n, Writable)
      BY <1>1, <1>2, PutsLengths
    <2> QED BY <2>1 DEF HasLengths, HaveLengths
  <1>9. PICK f : Reads(f, g, n) /\ r = f[n][o]
    <2>1. ~(n <= 0)
      <3>1. ASSUME n = 0 PROVE FALSE
        <4>1. Len(F[n]) = 0
          BY <1>8, <3>1 DEF HaveLengths
        <4>2. o + 0 > size
          BY <1>6, <4>1
        <4> QED BY <1>1, <1>6, <4>2
      <3> QED BY <1>1, <3>1
    <2> QED BY <1>4, <2>1 DEF ComesTo
  <1>10. \E j \in 1..n : IsCutAt(f[n][o], g, F, p, v, n, o, size, j)
    BY <1>1, <1>6, <1>7, <1>8, <1>9, EachIsCut DEF n
  <1>11. PICK j \in 1..n : IsCutAt(r, g, F, p, v, n, o, size, j)
    BY <1>9, <1>10
  <1>12. IsAgreed(F, p, j, data, o)
    BY <1>1, <1>2, <1>6, PartAgrees
  <1>13. PICK at \in Nat : at = o + Len(F[j - 1])
    BY <1>12 DEF IsAgreed
  <1>14. /\ at <= size /\ Agrees(data, at, p[j]) /\ at + Len(p[j]) > size /\ g[j][at].ok
    BY <1>11, <1>12, <1>13 DEF IsAgreed, IsCutAt
  <1>15. LosesEndLayout(layout, v[j], g[j][at].value, sizes)
    BY <1>5, <1>14, LayoutIsCut DEF size
  <1>16. IsReplaced(y, v, j, g[j][at].value)
    <2>1. y = [v EXCEPT ![j] = g[j][at].value]
      BY <1>11, <1>13 DEF IsCutAt
    <2> HIDE DEF y
    <2> QED BY <1>1, <2>1, ExceptTuple
  <1> HIDE DEF y
  <1>17. /\ IsTuple(y) /\ Len(y) = n /\ y[j] = g[j][at].value
         /\ \A k \in 1..n \ {j} : y[k] = v[k]
    BY <1>1, <1>16 DEF IsReplaced, n
  <1>18. \A k \in (j + 1)..n : WriteLayout(layout, v[k], sizes) = <<>>
    <2>1. \A k \in (j + 1)..n : k \in 1..n /\ p[k] = <<>>
      BY <1>1, <1>11 DEF IsCutAt
    <2> QED BY <1>5, <2>1
  <1>19. EntriesLoseEnd(layout, v, y, sizes)
    BY <1>15, <1>17, <1>18 DEF EntriesLoseEnd, OneLosesEnd, n
  <1>20. r.offset \in Int /\ r.offset > size
    BY <1>11 DEF IsCutAt
  <1> QED BY <1>19, <1>20 DEF y, r, size, n

\* Behind the end of the data a field is read only if it is not written.
LEMMA FieldIsMissing ==
  ASSUME BelowIsWritten, BelowEndsAtInt, BelowReadsBack, BelowIsCut, BelowIsMissing,
         NEW field, NEW v, NEW sizes, NEW data \in Seq(Octet), NEW o \in Nat,
         Known(field), Fits(field, v), OnWire(field, v), o > Len(data),
         ReadField(field, data, o, sizes).ok
  PROVE  /\ ReadField(field, data, o, sizes) = Read(v, o)
         /\ WriteField(field, v, sizes) = <<>>
  <1>0. Len(data) \in Nat
    OBVIOUS
  <1>1. CASE field.type = "struct"
    <2>1. /\ KnownLayout(field.of) /\ FitsLayout(field.of, v) /\ OnWireLayout(field.of, v)
          /\ WriteField(field, v, sizes) = WriteLayout(field.of, v, sizes)
          /\ ReadField(field, data, o, sizes) = ReadLayout(field.of, data, o, sizes)
      BY <1>1 DEF Known, Fits, OnWire, WriteField, ReadField
    <2> QED BY <2>1, LayoutIsMissing
  <1>2. CASE field.type = "list"
    <2>1. ~Within(data, o, 4)
      BY <1>0, TooShort
    <2>2. ~ReadInt(data, o).ok
      BY <2>1 DEF ReadInt, Unpack, Raise
    <2>3. ReadField(field, data, o, sizes) = Raise
      BY <1>2, <2>2 DEF ReadField
    <2> QED BY <2>3 DEF Raise
  <1>3. CASE field.type = "switch"
    <2>1. ~Within(data, o, 1)
      BY <1>0, TooShort
    <2>2. ~ReadByte(data, o).ok
      BY <2>1 DEF ReadByte, Unpack, Raise
    <2>3. ~KindOf(field, data, o).ok
      BY <1>3, <2>2 DEF KindOf, Member, Raise
    <2>4. ReadField(field, data, o, sizes) = Raise
      BY <1>3, <2>3, SwitchRaises
    <2> QED BY <2>4 DEF Raise
  <1>4. CASE field.type = "implied"
    <2> DEFINE layout == field.of[v.kind]
               kind == KindOf(field, data, o)
               fields == ReadLayout(field.of[kind.value], data, kind.offset, sizes)
    <2>1. /\ v = [kind |-> v.kind, fields |-> v.fields]
          /\ FitsLayout(layout, v.fields) /\ OnWireLayout(layout, v.fields)
          /\ KnownLayout(layout) /\ v.kind = field.default
          /\ WriteField(field, v, sizes) = WriteLayout(layout, v.fields, sizes)
      BY <1>4 DEF Fits, OnWire, Known, WriteField
    <2>2. kind = Read(v.kind, o)
      BY <1>4, <2>1 DEF KindOf
    <2>3. kind.value = v.kind /\ kind.offset = o /\ kind.ok
      BY <2>2 DEF Read
    <2>4. fields = ReadLayout(layout, data, o, sizes)
      BY <2>3
    <2>5. ReadField(field, data, o, sizes)
            = IF kind.ok /\ fields.ok
              THEN Read([kind |-> kind.value, fields |-> fields.value], fields.offset)
              ELSE Raise
      BY <1>4, SwitchReads
    <2> HIDE DEF layout, kind, fields
    <2>6. fields.ok
      BY <2>5 DEF Raise
    <2>7. fields = Read(v.fields, o) /\ WriteLayout(layout, v.fields, sizes) = <<>>
      BY <2>1, <2>4, <2>6, LayoutIsMissing
    <2>8. fields.value = v.fields /\ fields.offset = o
      BY <2>7 DEF Read
    <2> QED BY <2>1, <2>3, <2>5, <2>6, <2>7, <2>8
  <1>5. CASE field.type \notin {"struct", "list", "switch", "implied"}
    <2>1. /\ KnownBelow(field) /\ FitsBelow(field, v) /\ OnWireBelow(field, v)
          /\ WriteField(field, v, sizes) = WriteBelow(field, v, sizes)
          /\ ReadField(field, data, o, sizes) = ReadBelow(field, data, o, sizes)
      BY <1>5 DEF Known, Fits, OnWire, WriteField, ReadField
    <2> QED BY <2>1 DEF BelowIsMissing
  <1> QED BY <1>1, <1>2, <1>3, <1>4, <1>5

\* A field whose last bytes are missing is read, if it is, without its end.
LEMMA FieldIsCut ==
  ASSUME BelowIsWritten, BelowEndsAtInt, BelowReadsBack, BelowIsCut, BelowIsMissing,
         EntryIsLayout,
         NEW field, NEW v, NEW sizes, NEW data \in Seq(Octet), NEW o \in Nat,
         Known(field), Fits(field, v), OnWire(field, v), o <= Len(data),
         Agrees(data, o, WriteField(field, v, sizes)),
         o + Len(WriteField(field, v, sizes)) > Len(data),
         ReadField(field, data, o, sizes).ok
  PROVE  /\ LosesEnd(field, v, ReadField(field, data, o, sizes).value, sizes)
         /\ ReadField(field, data, o, sizes).offset \in Int
         /\ ReadField(field, data, o, sizes).offset > Len(data)
  <1>0. Len(data) \in Nat
    OBVIOUS
  <1>1. CASE field.type = "struct"
    <2>1. /\ KnownLayout(field.of) /\ FitsLayout(field.of, v) /\ OnWireLayout(field.of, v)
          /\ WriteField(field, v, sizes) = WriteLayout(field.of, v, sizes)
          /\ ReadField(field, data, o, sizes) = ReadLayout(field.of, data, o, sizes)
      BY <1>1 DEF Known, Fits, OnWire, WriteField, ReadField
    <2> DEFINE r == ReadLayout(field.of, data, o, sizes)
    <2>2. /\ LosesEndLayout(field.of, v, r.value, sizes)
          /\ r.offset \in Int /\ r.offset > Len(data)
      BY <2>1, LayoutIsCut
    <2> HIDE DEF r
    <2>3. LosesEnd(field, v, r.value, sizes)
      BY <1>1, <2>2 DEF LosesEnd
    <2> QED BY <2>1, <2>2, <2>3 DEF r
  <1>2. CASE field.type = "list"
    <2> DEFINE n == Len(v)
               head == Pack(n, 4)
               tail == WriteEntries(field.of, v, sizes)
               r == ReadEntries(n, field.of, data, o + 4, sizes)
    <2>1. /\ KnownLayout(field.of) /\ IsTuple(v) /\ n <= 2147483647
          /\ \A k \in 1..Len(v) : FitsLayout(field.of, v[k]) /\ OnWireLayout(field.of, v[k])
      BY <1>2, SMT DEF Known, Fits, OnWire
    <2>2. WriteField(field, v, sizes) = head \o tail
      BY <1>2 DEF WriteField
    <2>3. IsWord(n)
      BY <2>1, SMT DEF IsWord, Between, IsTuple
    <2>4. head \in Seq(Octet) /\ Len(head) = 4
      <3> HIDE DEF n
      <3> QED BY <2>3, PackFour
    <2>5. tail \in Seq(Writable)
      <3>1. PICK F : /\ Puts(F, LayoutWrites(field.of, v, sizes), n, Writable)
                     /\ tail = F[n]
        BY <2>1, ListParts
      <3>2. n \in Nat
        BY <2>1, ListParts
      <3> QED BY <3>1, <3>2, PutsWritten DEF IsWritten, Writable
    <2> HIDE DEF head, tail, n
    <2>6. ReadInt(data, o).ok
      <3>1. ASSUME ~ReadInt(data, o).ok PROVE ReadField(field, data, o, sizes) = Raise
        BY <1>2, <3>1 DEF ReadField
      <3> QED BY <3>1 DEF Raise
    <2>7. o + 4 <= Len(data)
      <3>1. Within(data, o, 4)
        BY <2>6 DEF ReadInt, Unpack, Raise
      <3> QED BY <1>0, <3>1, TooShort
    <2>8. Agrees(data, o, head) /\ Agrees(data, o + 4, tail) /\ (o + 4) + Len(tail) > Len(data)
      <3>1. head \in Seq(Writable)
        BY <2>4 DEF Writable
      <3>2. Agrees(data, o, head) /\ Agrees(data, o + Len(head), tail)
        BY <1>0, <2>2, <2>5, <3>1, AgreesConcat
      <3>3. Len(head \o tail) = Len(head) + Len(tail) /\ Len(tail) \in Nat
        BY <2>5, <3>1, ConcatProperties, LenProperties
      <3>4. o + Len(head \o tail) > Len(data)
        BY <2>2
      <3>5. Len(head \o tail) = 4 + Len(tail)
        BY <2>4, <3>3
      <3>6. (o + 4) + Len(tail) > Len(data)
        BY <1>0, <3>3, <3>4, <3>5
      <3> QED BY <2>4, <3>2, <3>6
    <2>9. Holds(data, o, head)
      BY <2>4, <2>7, <2>8 DEF Holds
    <2>10. ReadInt(data, o) = Read(n, o + 4)
      BY <2>3, <2>9, HeldInt DEF head
    <2>11. ReadField(field, data, o, sizes) = r
      <3>1. /\ ReadInt(data, o).ok /\ ReadInt(data, o).value = n
            /\ ReadInt(data, o).offset = o + 4
        BY <2>10 DEF Read
      <3> QED BY <1>2, <3>1 DEF ReadField
    <2>12. /\ EntriesLoseEnd(field.of, v, r.value, sizes)
           /\ r.offset \in Int /\ r.offset > Len(data)
      <3>1. r.ok /\ o + 4 \in Nat
        BY <2>11
      <3> QED BY <2>1, <2>7, <2>8, <3>1, EntriesAreCut DEF tail, n
    <2> HIDE DEF r
    <2>13. LosesEnd(field, v, r.value, sizes)
      BY <1>2, <2>12 DEF LosesEnd, EntriesLoseEnd, OneLosesEnd, EntryIsLayout
    <2> QED BY <2>11, <2>12, <2>13
  <1>3. CASE field.type \in {"switch", "implied"}
    <2> DEFINE layout == field.of[v.kind]
               tail == WriteLayout(layout, v.fields, sizes)
               r == ReadField(field, data, o, sizes)
    <2>1. /\ v = [kind |-> v.kind, fields |-> v.fields]
          /\ v.kind \in Octet /\ v.kind \in DOMAIN field.of
          /\ FitsLayout(layout, v.fields) /\ OnWireLayout(layout, v.fields)
          /\ KnownLayout(layout)
      BY <1>3 DEF Fits, OnWire, Known
    <2>2. tail \in Seq(Writable)
      BY <2>1, LayoutIsWritten DEF IsWritten, Writable
    <2>3. ASSUME NEW at \in Nat, at <= Len(data), Agrees(data, at, tail),
                 at + Len(tail) > Len(data), KindOf(field, data, o) = Read(v.kind, at)
          PROVE  /\ LosesEnd(field, v, r.value, sizes)
                 /\ r.offset \in Int /\ r.offset > Len(data)
      <3> DEFINE kind == KindOf(field, data, o)
                 fields == ReadLayout(field.of[kind.value], data, kind.offset, sizes)
      <3>1. kind.ok /\ kind.value = v.kind /\ kind.offset = at
        BY <2>3 DEF Read
      <3>2. fields = ReadLayout(layout, data, at, sizes)
        BY <3>1
      <3>3. r = IF kind.ok /\ fields.ok
                THEN Read([kind |-> kind.value, fields |-> fields.value], fields.offset)
                ELSE Raise
        BY <1>3, SwitchReads
      <3> HIDE DEF kind, fields
      <3>4. fields.ok
        BY <3>3 DEF Raise
      <3>5. /\ LosesEndLayout(layout, v.fields, fields.value, sizes)
            /\ fields.offset \in Int /\ fields.offset > Len(data)
        BY <2>1, <2>3, <3>2, <3>4, LayoutIsCut
      <3> HIDE DEF layout, r
      <3>6. r = Read([kind |-> v.kind, fields |-> fields.value], fields.offset)
        BY <3>1, <3>3, <3>4
      <3>7. /\ r.value = [kind |-> v.kind, fields |-> fields.value]
            /\ r.offset = fields.offset
        BY <3>6 DEF Read
      <3>8. r.value.fields = fields.value
        BY <3>7
      <3>9. LosesEnd(field, v, r.value, sizes)
        BY <1>3, <3>5, <3>7, <3>8 DEF LosesEnd, layout
      <3> QED BY <3>5, <3>7, <3>9
    <2> HIDE DEF layout, tail
    <2>4. CASE field.type = "switch"
      <3> DEFINE head == <<v.kind>>
      <3>1. WriteField(field, v, sizes) = head \o tail
        BY <2>4 DEF WriteField, tail, layout
      <3>2. head \in Seq(Octet) /\ Len(head) = 1 /\ Unsigned(head) = v.kind
        BY <2>1, OneDigit
      <3> HIDE DEF head
      <3>3. o + 1 <= Len(data)
        <4>1. KindOf(field, data, o).ok
          <5>1. ASSUME ~KindOf(field, data, o).ok PROVE ReadField(field, data, o, sizes) = Raise
            BY <1>3, <5>1, SwitchRaises
          <5> QED BY <5>1 DEF Raise
        <4>2. ReadByte(data, o).ok
          BY <2>4, <4>1 DEF KindOf, Member, Raise
        <4>3. Within(data, o, 1)
          BY <4>2 DEF ReadByte, Unpack, Raise
        <4> QED BY <1>0, <4>3, TooShort
      <3>4. /\ Agrees(data, o, head) /\ Agrees(data, o + 1, tail)
            /\ (o + 1) + Len(tail) > Len(data)
        <4>1. head \in Seq(Writable)
          BY <3>2 DEF Writable
        <4>2. Agrees(data, o, head) /\ Agrees(data, o + Len(head), tail)
          BY <1>0, <2>2, <3>1, <4>1, AgreesConcat
        <4>3. Len(head \o tail) = Len(head) + Len(tail) /\ Len(tail) \in Nat
          BY <2>2, <4>1, ConcatProperties, LenProperties
        <4>4. o + Len(head \o tail) > Len(data)
          BY <3>1
        <4>5. Len(head \o tail) = 1 + Len(tail)
          BY <3>2, <4>3
        <4>6. (o + 1) + Len(tail) > Len(data)
          BY <1>0, <4>3, <4>4, <4>5
        <4> QED BY <3>2, <4>2, <4>6
      <3>5. Found(data, o, 1, head)
        BY <3>2, <3>3, <3>4, HeldBytes DEF Holds
      <3>6. ReadByte(data, o) = Read(v.kind, o + 1)
        BY <3>2, <3>5 DEF ReadByte, Unpack, Found
      <3>7. KindOf(field, data, o) = Read(v.kind, o + 1)
        <4>1. ReadByte(data, o).ok /\ ReadByte(data, o).value = v.kind
          BY <3>6 DEF Read
        <4> QED BY <2>1, <2>4, <3>6, <4>1 DEF KindOf, Member
      <3>8. o + 1 \in Nat
        OBVIOUS
      <3> QED BY <2>3, <3>3, <3>4, <3>7, <3>8
    <2>5. CASE field.type = "implied"
      <3>1. WriteField(field, v, sizes) = tail
        BY <2>5 DEF WriteField, tail, layout
      <3>2. KindOf(field, data, o) = Read(v.kind, o)
        BY <2>5 DEF KindOf, OnWire
      <3> QED BY <2>3, <3>1, <3>2
    <2> QED BY <1>3, <2>4, <2>5
  <1>4. CASE field.type \notin {"struct", "list", "switch", "implied"}
    <2>1. /\ KnownBelow(field) /\ FitsBelow(field, v) /\ OnWireBelow(field, v)
          /\ WriteField(field, v, sizes) = WriteBelow(field, v, sizes)
          /\ ReadField(field, data, o, sizes) = ReadBelow(field, data, o, sizes)
      BY <1>4 DEF Known, Fits, OnWire, WriteField, ReadField
    <2> DEFINE r == ReadBelow(field, data, o, sizes)
    <2>2. /\ LosesEndBelow(field, v, r.value, sizes)
          /\ r.offset \in Int /\ r.offset > Len(data)
      BY <2>1 DEF BelowIsCut
    <2> HIDE DEF r
    <2>3. LosesEnd(field, v, r.value, sizes)
      BY <1>4, <2>2 DEF LosesEnd
    <2> QED BY <2>1, <2>2, <2>3 DEF r
  <1> QED BY <1>1, <1>2, <1>3, <1>4

------------------------------------------------------------------------------
(* From the fields below to the fields                                       *)

\* What holds of the fields below...
BelowWorks ==
  /\ BelowIsWritten /\ BelowEndsAtInt /\ BelowReadsBack
  /\ BelowIsCut /\ BelowIsMissing /\ EntryIsLayout

\* ...of layouts of them...
LayoutsWork ==
  /\ \A layout, fields, sizes :
       FitsLayout(layout, fields) => IsWritten(WriteLayout(layout, fields, sizes))
  /\ \A layout, sizes : \A data \in Seq(Octet) : \A o \in Int :
       KnownLayout(layout) => OffsetIsInt(ReadLayout(layout, data, o, sizes))
  /\ \A layout, fields, sizes : \A data \in Seq(Octet) : \A o \in Nat :
       /\ KnownLayout(layout) /\ FitsLayout(layout, fields) /\ OnWireLayout(layout, fields)
       /\ Holds(data, o, WriteLayout(layout, fields, sizes))
       => ReadLayout(layout, data, o, sizes)
            = Read(fields, o + Len(WriteLayout(layout, fields, sizes)))
  /\ \A layout, fields, sizes : \A data \in Seq(Octet) : \A o \in Nat :
       LET r == ReadLayout(layout, data, o, sizes)
           b == WriteLayout(layout, fields, sizes)
       IN  /\ KnownLayout(layout) /\ FitsLayout(layout, fields)
           /\ OnWireLayout(layout, fields)
           /\ o <= Len(data) /\ Agrees(data, o, b) /\ o + Len(b) > Len(data) /\ r.ok
           => /\ LosesEndLayout(layout, fields, r.value, sizes)
              /\ r.offset \in Int /\ r.offset > Len(data)

\* ...and of the fields that hold them.
FieldsWork ==
  /\ \A field, v, sizes :
       Fits(field, v) => IsWritten(WriteField(field, v, sizes))
  /\ \A field, sizes : \A data \in Seq(Octet) : \A o \in Int :
       Known(field) => OffsetIsInt(ReadField(field, data, o, sizes))
  /\ \A field, v, sizes : \A data \in Seq(Octet) : \A o \in Nat :
       /\ Known(field) /\ Fits(field, v) /\ OnWire(field, v)
       /\ Holds(data, o, WriteField(field, v, sizes))
       => ReadField(field, data, o, sizes)
            = Read(v, o + Len(WriteField(field, v, sizes)))
  /\ \A field, v, sizes : \A data \in Seq(Octet) : \A o \in Nat :
       LET r == ReadField(field, data, o, sizes)
           b == WriteField(field, v, sizes)
       IN  /\ Known(field) /\ Fits(field, v) /\ OnWire(field, v)
           /\ o <= Len(data) /\ Agrees(data, o, b) /\ o + Len(b) > Len(data) /\ r.ok
           => /\ LosesEnd(field, v, r.value, sizes)
              /\ r.offset \in Int /\ r.offset > Len(data)
  /\ \A field, v, sizes : \A data \in Seq(Octet) : \A o \in Nat :
       /\ Known(field) /\ Fits(field, v) /\ OnWire(field, v)
       /\ o > Len(data) /\ ReadField(field, data, o, sizes).ok
       => /\ ReadField(field, data, o, sizes) = Read(v, o)
          /\ WriteField(field, v, sizes) = <<>>

\* A serialize() and a deserialize() are inverse to each other if those of the
\* fields are, and nothing but the end of a last string is lost unnoticed.
THEOREM LayerWorks ==
  ASSUME BelowWorks
  PROVE  LayoutsWork /\ FieldsWork
  <1>1. LayoutsWork
    BY LayoutIsWritten, LayoutEndsAtInt, LayoutReadsBack, LayoutIsCut
       DEF LayoutsWork, BelowWorks
  <1>2. FieldsWork
    BY FieldIsWritten, FieldEndsAtInt, FieldReadsBack, FieldIsCut, FieldIsMissing
       DEF FieldsWork, BelowWorks
  <1> QED BY <1>1, <1>2
================================================================================
