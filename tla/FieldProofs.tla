------------------------------- MODULE FieldProofs -------------------------------
(***************************************************************************)
(* What JdwpReader makes of what JdwpWriter wrote (io.py), for every value *)
(* and every data around it: it is read back, and where bytes are missing  *)
(* a read raises, unless it is a string's.                                 *)
(*                                                                         *)
(* FlattenSeq is a recursion over its argument.  Its value is named by a   *)
(* function F, F[k] being what the first k parts come to (Puts), and what  *)
(* holds of all k is shown by AllNaturals.                                 *)
(***************************************************************************)
EXTENDS Fields, TLAPS, SequenceTheorems, WellFoundedInduction

------------------------------------------------------------------------------
(* Sequences made of parts.                                                  *)

\* A set that has zero, and with a number the next, has all natural numbers.
LEMMA AllNaturals ==
  ASSUME NEW S, 0 \in S, \A n \in Nat : n \in S => n + 1 \in S
  PROVE  \A n \in Nat : n \in S
  <1> DEFINE Less == {ss \in Nat \X Nat : ss[1] < ss[2]}
  <1> DEFINE Missing == {n \in Nat : n \notin S}
  <1>1. IsWellFoundedOn(Less, Nat)
    BY NatLessThanWellFounded DEF OpToRel
  <1>2. CASE Missing # {}
    <2>1. PICK x \in Missing : \A y \in Missing : ~(<<y, x>> \in Less)
      <3> HIDE DEF Less
      <3>1. Missing \subseteq Nat
        OBVIOUS
      <3> HIDE DEF Missing
      <3> QED BY <1>1, <1>2, <3>1, WFMin
    <2>2. x \in Nat /\ x # 0 /\ x \notin S
      OBVIOUS
    <2>3. x - 1 \in Nat /\ (x - 1) + 1 = x
      BY <2>2
    <2>4. x - 1 \in Missing
      BY <2>2, <2>3
    <2> DEFINE z == <<x - 1, x>>
    <2>5. z \in Nat \X Nat /\ z[1] = x - 1 /\ z[2] = x
      BY <2>2, <2>3
    <2>6. z \in Less
      BY <2>2, <2>5
    <2> QED BY <2>1, <2>4, <2>6
  <1> QED BY <1>2

\* F says what the first m of the parts p come to.
Puts(F, p, m, S) ==
  /\ F \in [0..m -> Seq(S)]
  /\ F[0] = <<>>
  /\ \A k \in 1..m : p[k] \in Seq(S) /\ F[k] = F[k - 1] \o p[k]

\* The same, as FlattenSeq does it: from the first part on.
Accumulates(flatten, p, n) ==
  \A i \in 1..n : flatten[i] = IF i = 1 THEN p[i] ELSE flatten[i - 1] \o p[i]

\* What m parts come to can be continued by one more.
LEMMA PutsOneMore ==
  ASSUME NEW S, NEW p, NEW m \in Nat, NEW F, Puts(F, p, m, S), p[m + 1] \in Seq(S)
  PROVE  \E G : Puts(G, p, m + 1, S)
  <1> DEFINE last == F[m] \o p[m + 1]
             G == [k \in 0..(m + 1) |-> IF k <= m THEN F[k] ELSE last]
  <1>1. F[m] \in Seq(S)
    BY DEF Puts
  <1>2. last \in Seq(S)
    BY <1>1, ConcatProperties
  <1> HIDE DEF last
  <1>3. G \in [0..(m + 1) -> Seq(S)]
    BY <1>2 DEF Puts
  <1>4. G[0] = <<>>
    BY DEF Puts
  <1>5. ASSUME NEW k \in 1..(m + 1) PROVE G[k] = G[k - 1] \o p[k]
    <2>1. CASE k <= m
      <3>1. k \in 1..m /\ k \in 0..(m + 1) /\ k - 1 \in 0..(m + 1) /\ k - 1 <= m
        BY <2>1
      <3>2. G[k] = F[k] /\ G[k - 1] = F[k - 1]
        BY <2>1, <3>1
      <3> QED BY <3>1, <3>2 DEF Puts
    <2>2. CASE ~(k <= m)
      <3>1. k = m + 1 /\ k - 1 = m /\ m \in 0..(m + 1)
        BY <2>2
      <3>2. G[k] = last /\ G[k - 1] = F[m]
        BY <2>2, <3>1
      <3> QED BY <3>1, <3>2 DEF last
    <2> QED BY <2>1, <2>2
  <1> HIDE DEF G
  <1>6. ASSUME NEW k \in 1..(m + 1) PROVE p[k] \in Seq(S)
    <2>1. k \in 1..m \/ k = m + 1
      OBVIOUS
    <2> QED BY <2>1 DEF Puts
  <1>7. Puts(G, p, m + 1, S)
    BY <1>3, <1>4, <1>5, <1>6 DEF Puts
  <1> QED BY <1>7

\* By induction over the number of parts.
LEMMA PutsExists ==
  ASSUME NEW S, NEW n \in Nat, NEW p \in [1..n -> Seq(S)]
  PROVE  \E F : Puts(F, p, n, S)
  <1> DEFINE Reached == {m \in Nat : m <= n => \E F : Puts(F, p, m, S)}
  <1>1. 0 \in Reached
    <2> DEFINE F == [k \in 0..0 |-> <<>>]
    <2>1. Puts(F, p, 0, S)
      BY DEF Puts
    <2> HIDE DEF F
    <2> QED BY <2>1
  <1>2. ASSUME NEW m \in Nat, m \in Reached PROVE m + 1 \in Reached
    <2>1. CASE m + 1 <= n
      <3>1. PICK F : Puts(F, p, m, S)
        BY <1>2, <2>1
      <3>2. p[m + 1] \in Seq(S)
        BY <2>1
      <3>3. \E G : Puts(G, p, m + 1, S)
        BY <3>1, <3>2, PutsOneMore
      <3> QED BY <3>3
    <2>2. CASE ~(m + 1 <= n)
      BY <2>2
    <2> QED BY <2>1, <2>2
  <1> HIDE DEF Reached
  <1>3. n \in Reached
    BY <1>1, <1>2, AllNaturals
  <1> QED BY <1>3 DEF Reached

\* One function says what the parts come to, and how it ends is FlattenSeq.
LEMMA PutsIsUnique ==
  ASSUME NEW S, NEW n \in Nat, NEW p \in [1..n -> Seq(S)],
         NEW F, Puts(F, p, n, S), NEW flatten, Accumulates(flatten, p, n)
  PROVE  \A i \in 1..n : flatten[i] = F[i]
  <1> DEFINE Same == {m \in Nat : m \in 1..n => flatten[m] = F[m]}
  <1>1. 0 \in Same
    OBVIOUS
  <1>2. ASSUME NEW m \in Nat, m \in Same PROVE m + 1 \in Same
    <2> SUFFICES ASSUME m + 1 \in 1..n PROVE flatten[m + 1] = F[m + 1]
      OBVIOUS
    <2>1. F[m + 1] = F[m] \o p[m + 1]
      <3>1. (m + 1) - 1 = m
        OBVIOUS
      <3> QED BY <3>1 DEF Puts
    <2>2. p[m + 1] \in Seq(S)
      OBVIOUS
    <2>3. CASE m = 0
      <3>1. F[m] = <<>>
        BY <2>3 DEF Puts
      <3>2. <<>> \o p[m + 1] = p[m + 1]
        BY <2>2, ConcatEmptySeq
      <3>3. flatten[m + 1] = p[m + 1]
        BY <2>3 DEF Accumulates
      <3> QED BY <2>1, <3>1, <3>2, <3>3
    <2>4. CASE m # 0
      <3>1. m \in 1..n /\ m + 1 # 1 /\ (m + 1) - 1 = m
        BY <2>4
      <3>2. flatten[m + 1] = flatten[m] \o p[m + 1]
        BY <3>1 DEF Accumulates
      <3>3. flatten[m] = F[m]
        BY <1>2, <3>1
      <3> QED BY <2>1, <3>2, <3>3
    <2> QED BY <2>3, <2>4
  <1> HIDE DEF Same
  <1>3. \A m \in Nat : m \in Same
    BY <1>1, <1>2, AllNaturals
  <1> QED BY <1>3 DEF Same

\* FlattenSeq(), behind Encoded, Decoded and every layout, puts parts together.
LEMMA FlattenParts ==
  ASSUME NEW S, NEW n \in Nat, NEW p \in [1..n -> Seq(S)]
  PROVE  \E F : Puts(F, p, n, S) /\ FlattenSeq(p) = F[n]
  <1>1. PICK F : Puts(F, p, n, S)
    BY PutsExists
  <1>2. p \in Seq(Seq(S)) /\ Len(p) = n
    OBVIOUS
  <1>3. CASE n = 0
    <2>1. p = <<>>
      BY <1>2, <1>3, EmptySeq
    <2>2. FlattenSeq(p) = <<>>
      BY <2>1, EmptySeq DEF FlattenSeq
    <2> QED BY <1>1, <1>3, <2>2 DEF Puts
  <1>4. CASE n # 0
    <2> DEFINE Eqn(f) ==
          f = [i \in 1..n |-> IF i = 1 THEN p[i] ELSE f[i - 1] \o p[i]]
    <2> DEFINE flatten == CHOOSE f : Eqn(f)
    <2>1. FlattenSeq(p) = flatten[n]
      BY <1>2, <1>4 DEF FlattenSeq
    <2>2. \E f : Eqn(f)
      <3> DEFINE f == [i \in 1..n |-> F[i]]
      <3>1. ASSUME NEW i \in 1..n
            PROVE  F[i] = IF i = 1 THEN p[i] ELSE f[i - 1] \o p[i]
        <4>1. F[i] = F[i - 1] \o p[i]
          BY <1>1 DEF Puts
        <4>2. p[i] \in Seq(S)
          OBVIOUS
        <4>3. CASE i = 1
          <5>1. F[i - 1] = <<>>
            BY <1>1, <4>3 DEF Puts
          <5>2. <<>> \o p[i] = p[i]
            BY <4>2, ConcatEmptySeq
          <5> QED BY <4>1, <4>3, <5>1, <5>2
        <4>4. CASE i # 1
          <5>1. i - 1 \in 1..n
            BY <4>4
          <5>2. f[i - 1] = F[i - 1]
            BY <5>1
          <5> QED BY <4>1, <4>4, <5>2
        <4> QED BY <4>3, <4>4
      <3>2. Eqn(f)
        BY <3>1
      <3> HIDE DEF f, Eqn
      <3> QED BY <3>2
    <2>3. Eqn(flatten)
      <3> HIDE DEF Eqn
      <3> QED BY <2>2
    <2> HIDE DEF flatten
    <2>4. Accumulates(flatten, p, n)
      BY <2>3 DEF Accumulates
    <2> HIDE DEF Eqn
    <2>5. \A i \in 1..n : flatten[i] = F[i]
      <3>1. ASSUME NEW g, Accumulates(g, p, n) PROVE \A i \in 1..n : g[i] = F[i]
        BY <1>1, <3>1, PutsIsUnique
      <3> QED BY <2>4, <3>1
    <2> QED BY <1>1, <1>4, <2>1, <2>5
  <1> QED BY <1>3, <1>4

------------------------------------------------------------------------------
(* Bytes that are found in the data at an offset.                            *)

\* Where data has a byte for one of b, from offset o on, it is the same.
Agrees(data, o, b) ==
  \A k \in 1..Len(b) : o + k <= Len(data) => data[o + k] = b[k]
Holds(data, o, b) == Agrees(data, o, b) /\ o + Len(b) <= Len(data)

\* Data that agrees with two strings of bytes agrees with each of them.
LEMMA AgreesConcat ==
  ASSUME NEW S, NEW x \in Seq(S), NEW y \in Seq(S), NEW data, NEW o \in Nat,
         Len(data) \in Nat, Agrees(data, o, x \o y)
  PROVE  Agrees(data, o, x) /\ Agrees(data, o + Len(x), y)
  <1> DEFINE xy == x \o y
  <1>1. /\ Len(x) \in Nat /\ Len(y) \in Nat /\ Len(xy) = Len(x) + Len(y)
        /\ \A i \in 1..(Len(x) + Len(y)) :
             xy[i] = IF i <= Len(x) THEN x[i] ELSE y[i - Len(x)]
    BY ConcatProperties, LenProperties
  <1>2. Agrees(data, o, xy)
    OBVIOUS
  <1> HIDE DEF xy
  <1>3. ASSUME NEW k \in 1..Len(x), o + k <= Len(data) PROVE data[o + k] = x[k]
    <2>1. k \in 1..Len(xy) /\ xy[k] = x[k]
      BY <1>1
    <2> QED BY <1>2, <1>3, <2>1 DEF Agrees
  <1>4. ASSUME NEW k \in 1..Len(y), (o + Len(x)) + k <= Len(data)
        PROVE  data[(o + Len(x)) + k] = y[k]
    <2>1. /\ Len(x) + k \in 1..Len(xy) /\ o + (Len(x) + k) = (o + Len(x)) + k
          /\ ~(Len(x) + k <= Len(x)) /\ (Len(x) + k) - Len(x) = k
      BY <1>1
    <2>2. xy[Len(x) + k] = y[k]
      BY <1>1, <2>1
    <2> QED BY <1>2, <1>4, <2>1, <2>2 DEF Agrees
  <1> QED BY <1>3, <1>4 DEF Agrees

\* One part more.
IsPart(F, p, k, S) ==
  /\ F[k - 1] \in Seq(S) /\ p[k] \in Seq(S)
  /\ F[k] = F[k - 1] \o p[k]
  /\ Len(F[k - 1]) \in Nat /\ Len(p[k]) \in Nat
  /\ Len(F[k]) = Len(F[k - 1]) + Len(p[k])

\* A part lies behind those before it.
LEMMA PutsPart ==
  ASSUME NEW S, NEW n \in Nat, NEW p, NEW F, Puts(F, p, n, S), NEW k \in 1..n
  PROVE  IsPart(F, p, k, S)
  <1>1. k - 1 \in 0..n
    OBVIOUS
  <1>2. F[k - 1] \in Seq(S) /\ p[k] \in Seq(S)
    BY <1>1 DEF Puts
  <1>3. F[k] = F[k - 1] \o p[k]
    BY DEF Puts
  <1>4. Len(F[k - 1] \o p[k]) = Len(F[k - 1]) + Len(p[k])
    BY <1>2, ConcatProperties
  <1> QED BY <1>2, <1>3, <1>4, LenProperties DEF IsPart

\* How long parts are together.
HasLengths(F, p, n, S) ==
  /\ \A k \in 0..n : F[k] \in Seq(S) /\ Len(F[k]) \in Nat
  /\ Len(F[0]) = 0
  /\ \A k \in 1..n : /\ k - 1 \in 0..n
                     /\ Len(p[k]) \in Nat
                     /\ Len(F[k]) = Len(F[k - 1]) + Len(p[k])
  /\ \A k \in 0..n : Len(F[k]) <= Len(F[n])

\* Lengths add up, and only grow.
LEMMA PutsLengths ==
  ASSUME NEW S, NEW n \in Nat, NEW p, NEW F, Puts(F, p, n, S)
  PROVE  HasLengths(F, p, n, S)
  <1>1. \A k \in 0..n : F[k] \in Seq(S)
    BY DEF Puts
  <1>2. \A k \in 0..n : Len(F[k]) \in Nat
    BY <1>1, LenProperties
  <1>3. Len(F[0]) = 0
    BY EmptySeq DEF Puts
  <1>4. ASSUME NEW k \in 1..n
        PROVE  /\ k - 1 \in 0..n
               /\ Len(p[k]) \in Nat
               /\ Len(F[k]) = Len(F[k - 1]) + Len(p[k])
    <2>1. k - 1 \in 0..n
      OBVIOUS
    <2>2. IsPart(F, p, k, S)
      BY PutsPart
    <2> QED BY <2>1, <2>2 DEF IsPart
  <1> DEFINE Shorter == {m \in Nat : m <= n => Len(F[n - m]) <= Len(F[n])}
  <1>5. 0 \in Shorter
    BY <1>2
  <1>6. ASSUME NEW m \in Nat, m \in Shorter PROVE m + 1 \in Shorter
    <2> SUFFICES ASSUME m + 1 <= n PROVE Len(F[n - (m + 1)]) <= Len(F[n])
      OBVIOUS
    <2> DEFINE i == n - m
               j == n - (m + 1)
    <2>1. i \in 1..n /\ i - 1 = j /\ i \in 0..n /\ j \in 0..n /\ n \in 0..n
      OBVIOUS
    <2>2. Len(F[i]) <= Len(F[n])
      BY <1>6
    <2> HIDE DEF i, j, Shorter
    <2>3. Len(F[i]) = Len(F[j]) + Len(p[i]) /\ Len(p[i]) \in Nat
      BY <1>4, <2>1
    <2>4. Len(F[j]) \in Nat /\ Len(F[i]) \in Nat /\ Len(F[n]) \in Nat
      BY <1>2, <2>1
    <2>5. Len(F[j]) <= Len(F[n])
      <3> DEFINE a == Len(F[i])
                 b == Len(F[j])
                 c == Len(p[i])
                 d == Len(F[n])
      <3>1. a = b + c /\ a <= d /\ a \in Nat /\ b \in Nat /\ c \in Nat /\ d \in Nat
        BY <2>2, <2>3, <2>4
      <3> HIDE DEF a, b, c, d
      <3>2. b <= d
        BY <3>1
      <3> QED BY <3>2 DEF b, d
    <2> QED BY <2>5 DEF j
  <1> HIDE DEF Shorter
  <1>7. \A m \in Nat : m \in Shorter
    BY <1>5, <1>6, AllNaturals
  <1>8. ASSUME NEW k \in 0..n PROVE Len(F[k]) <= Len(F[n])
    <2>1. n - k \in Nat /\ n - k <= n /\ n - (n - k) = k
      OBVIOUS
    <2> QED BY <1>7, <2>1 DEF Shorter
  <1> QED BY <1>1, <1>2, <1>3, <1>4, <1>8 DEF HasLengths

\* The first parts are where the whole is.
LEMMA PutsPrefix ==
  ASSUME NEW S, NEW n \in Nat, NEW p, NEW F, Puts(F, p, n, S),
         NEW data, NEW o \in Nat, Len(data) \in Nat, Agrees(data, o, F[n]),
         NEW k \in 0..n
  PROVE  Agrees(data, o, F[k])
  <1>1. ASSUME NEW i \in 1..n, Agrees(data, o, F[i])
        PROVE  Agrees(data, o, F[i - 1])
    <2>1. IsPart(F, p, i, S)
      BY PutsPart
    <2>2. F[i - 1] \in Seq(S) /\ p[i] \in Seq(S) /\ F[i] = F[i - 1] \o p[i]
      BY <2>1 DEF IsPart
    <2> QED BY <1>1, <2>2, AgreesConcat
  <1> DEFINE Down == {m \in Nat : m <= n => Agrees(data, o, F[n - m])}
  <1>2. 0 \in Down
    OBVIOUS
  <1>3. ASSUME NEW m \in Nat, m \in Down PROVE m + 1 \in Down
    <2> SUFFICES ASSUME m + 1 <= n PROVE Agrees(data, o, F[n - (m + 1)])
      OBVIOUS
    <2>1. n - m \in 1..n /\ (n - m) - 1 = n - (m + 1)
      OBVIOUS
    <2>2. Agrees(data, o, F[n - m])
      BY <1>3
    <2>3. Agrees(data, o, F[(n - m) - 1])
      BY <1>1, <2>1, <2>2
    <2> QED BY <2>1, <2>3
  <1> HIDE DEF Down
  <1>4. \A m \in Nat : m \in Down
    BY <1>2, <1>3, AllNaturals
  <1>5. n - k \in Nat /\ n - k <= n /\ n - (n - k) = k
    OBVIOUS
  <1> QED BY <1>4, <1>5 DEF Down

\* Data that agrees with all parts agrees with each of them, at its place.
LEMMA PutsAgrees ==
  ASSUME NEW S, NEW n \in Nat, NEW p, NEW F, Puts(F, p, n, S),
         NEW data, NEW o \in Nat, Len(data) \in Nat, Agrees(data, o, F[n])
  PROVE  \A k \in 1..n : Agrees(data, o + Len(F[k - 1]), p[k])
  <1>1. ASSUME NEW k \in 1..n PROVE Agrees(data, o + Len(F[k - 1]), p[k])
    <2>1. IsPart(F, p, k, S)
      BY PutsPart
    <2>2. F[k - 1] \in Seq(S) /\ p[k] \in Seq(S) /\ F[k] = F[k - 1] \o p[k]
      BY <2>1 DEF IsPart
    <2>3. k \in 0..n
      OBVIOUS
    <2>4. Agrees(data, o, F[k])
      BY <2>3, PutsPrefix
    <2> QED BY <2>2, <2>4, AgreesConcat
  <1> QED BY <1>1

\* The same first parts come to the same.
LEMMA PutsSame ==
  ASSUME NEW S, NEW n \in Nat, NEW p, NEW F, Puts(F, p, n, S),
         NEW m \in Nat, m <= n, NEW q, NEW G, Puts(G, q, m, S),
         \A k \in 1..m : q[k] = p[k]
  PROVE  G[m] = F[m]
  <1> DEFINE Same == {i \in Nat : i <= m => G[i] = F[i]}
  <1>1. 0 \in Same
    BY DEF Puts
  <1>2. ASSUME NEW i \in Nat, i \in Same PROVE i + 1 \in Same
    <2> SUFFICES ASSUME i + 1 <= m PROVE G[i + 1] = F[i + 1]
      OBVIOUS
    <2>1. PICK k \in 1..m : k = i + 1 /\ k - 1 = i /\ k \in 1..n
      OBVIOUS
    <2>2. G[i] = F[i]
      BY <1>2
    <2> HIDE DEF Same
    <2>3. IsPart(G, q, k, S) /\ IsPart(F, p, k, S)
      BY <2>1, PutsPart
    <2>4. q[k] = p[k]
      OBVIOUS
    <2> QED BY <2>1, <2>2, <2>3, <2>4 DEF IsPart
  <1> HIDE DEF Same
  <1>3. \A i \in Nat : i \in Same
    BY <1>1, <1>2, AllNaturals
  <1> QED BY <1>3 DEF Same

\* Where in the whole a byte of a part is.
IsByteOf(F, p, n, k, j) ==
  /\ Len(F[k - 1]) + j \in 1..Len(F[n])
  /\ F[n][Len(F[k - 1]) + j] = p[k][j]

\* Where a byte of a part is in the whole.
LEMMA PutsByte ==
  ASSUME NEW S, NEW n \in Nat, NEW p, NEW F, Puts(F, p, n, S),
         NEW k \in 1..n, NEW j \in 1..Len(p[k])
  PROVE  IsByteOf(F, p, n, k, j)
  <1>1. HasLengths(F, p, n, S)
    BY PutsLengths
  <1>2. /\ Len(F[k]) <= Len(F[n]) /\ Len(F[n]) \in Nat /\ Len(F[k - 1]) \in Nat
        /\ Len(p[k]) \in Nat /\ Len(F[k]) = Len(F[k - 1]) + Len(p[k])
    <2>1. k \in 0..n /\ k - 1 \in 0..n /\ n \in 0..n
      OBVIOUS
    <2> QED BY <1>1, <2>1 DEF HasLengths
  <1>3. Len(F[k - 1]) + j \in 1..Len(F[n]) /\ Len(F[k - 1]) + j <= Len(F[n])
    <2>1. j \in Int /\ 1 <= j /\ j <= Len(p[k])
      BY <1>2
    <2> DEFINE a == Len(F[k - 1])
               b == Len(F[k])
               c == Len(F[n])
               d == Len(p[k])
    <2>2. b = a + d /\ b <= c /\ a \in Nat /\ c \in Nat /\ d \in Nat /\ j <= d
      BY <1>2, <2>1
    <2> HIDE DEF a, b, c, d
    <2>3. a + j \in 1..c /\ a + j <= c
      BY <2>1, <2>2
    <2> QED BY <2>3 DEF a, c
  <1>4. Agrees(F[n], 0, F[n])
    <2>1. \A i \in 1..Len(F[n]) : 0 + i = i
      BY <1>2
    <2> QED BY <2>1 DEF Agrees
  <1>5. Agrees(F[n], 0 + Len(F[k - 1]), p[k])
    BY <1>2, <1>4, PutsAgrees
  <1>6. 0 + Len(F[k - 1]) = Len(F[k - 1])
    BY <1>2
  <1> QED BY <1>3, <1>5, <1>6 DEF Agrees, IsByteOf

\* Every byte of the whole is one of a part.
LEMMA PutsCovers ==
  ASSUME NEW S, NEW n \in Nat, NEW p, NEW F, Puts(F, p, n, S),
         NEW i \in 1..Len(F[n])
  PROVE  \E k \in 1..n : \E j \in 1..Len(p[k]) : i = Len(F[k - 1]) + j
  <1> DEFINE Least == {m \in Nat : m <= n => i > Len(F[m])}
  <1>0. Len(F[n]) \in Nat /\ Len(F[0]) = 0
    <2>1. n \in 0..n
      OBVIOUS
    <2>2. HasLengths(F, p, n, S)
      BY PutsLengths
    <2> QED BY <2>1, <2>2 DEF HasLengths
  <1>1. CASE 0 \notin Least
    BY <1>0, <1>1
  <1>2. CASE \A m \in Nat : m \in Least => m + 1 \in Least
    <2>1. CASE 0 \in Least
      <3> HIDE DEF Least
      <3>1. \A m \in Nat : m \in Least
        BY <1>2, <2>1, AllNaturals
      <3>2. n \in Least
        BY <3>1
      <3>3. i > Len(F[n])
        BY <3>2 DEF Least
      <3> QED BY <1>0, <3>3
    <2> QED BY <1>1, <2>1
  <1>3. CASE \E m \in Nat : m \in Least /\ m + 1 \notin Least
    <2>1. PICK m \in Nat : m \in Least /\ m + 1 \notin Least
      BY <1>3
    <2>2. PICK k \in 1..n : k = m + 1 /\ k - 1 = m
      BY <2>1
    <2>3. i > Len(F[m]) /\ ~(i > Len(F[k]))
      BY <2>1, <2>2
    <2> HIDE DEF Least
    <2>4. Len(F[k]) = Len(F[m]) + Len(p[k]) /\ Len(F[m]) \in Nat /\ Len(p[k]) \in Nat
      <3>1. /\ Len(F[k]) = Len(F[k - 1]) + Len(p[k])
            /\ Len(F[k - 1]) \in Nat /\ Len(p[k]) \in Nat
        <4>1. IsPart(F, p, k, S)
          BY PutsPart
        <4> QED BY <4>1 DEF IsPart
      <3> QED BY <2>2, <3>1
    <2>5. i - Len(F[m]) \in 1..Len(p[k])
      <3> DEFINE a == Len(F[k])
                 b == Len(F[m])
                 c == Len(p[k])
      <3>0. i \in Int
        BY <1>0
      <3>1. a = b + c /\ b \in Nat /\ c \in Nat /\ i > b /\ ~(i > a)
        BY <2>3, <2>4
      <3> HIDE DEF a, b, c
      <3>2. i - b \in 1..c
        BY <3>0, <3>1
      <3> QED BY <3>2 DEF b, c
    <2>6. i = Len(F[m]) + (i - Len(F[m]))
      BY <1>0, <2>4
    <2> QED BY <2>2, <2>5, <2>6
  <1> HIDE DEF Least
  <1> QED BY <1>2, <1>3

------------------------------------------------------------------------------
(* Numbers as bytes.                                                         *)

\* A number in base 256.
LEMMA LastDigit ==
  ASSUME NEW v \in Int
  PROVE  /\ v \div 256 \in Int /\ v % 256 \in 0..255
         /\ v = 256 * (v \div 256) + (v % 256)
  BY SMT

\* Shifting by bytes, one after the other.
LEMMA NextDigits ==
  ASSUME NEW v \in Int
  PROVE  /\ v \div 65536 = (v \div 256) \div 256
         /\ v \div 16777216 = (v \div 65536) \div 256
  BY SMT

\* The sign is in the first digit.
LEMMA FirstDigit ==
  ASSUME NEW v \in Int, -128 <= v, v <= 127
  PROVE  v = IF v % 256 < 128 THEN v % 256 ELSE (v % 256) - 256
  BY SMT

LEMMA OctetIs == \A n : n \in Octet <=> n \in Int /\ 0 <= n /\ n <= 255
  BY DEF Octet

\* What Signed and Unsigned make of digits.
LEMMA OneDigit ==
  ASSUME NEW a \in Octet
  PROVE  /\ Unsigned(<<a>>) = a
         /\ Signed(<<a>>) = IF a < 128 THEN a ELSE a - 256
  <1>1. [<<a>> EXCEPT ![1] = a - 256] = <<a - 256>>
    OBVIOUS
  <1> QED BY <1>1 DEF Unsigned, Signed, Number

\* What struct.unpack(">H") and (">h") make of two bytes.
LEMMA TwoDigits ==
  ASSUME NEW a \in Octet, NEW b \in Octet
  PROVE  /\ Unsigned(<<a, b>>) = 256 * a + b
         /\ Signed(<<a, b>>) = 256 * (IF a < 128 THEN a ELSE a - 256) + b
  <1>1. [<<a, b>> EXCEPT ![1] = a - 256] = <<a - 256, b>>
    OBVIOUS
  <1>2. Signed(<<a, b>>) = IF a < 128 THEN Number(<<a, b>>) ELSE Number(<<a - 256, b>>)
    BY <1>1 DEF Signed
  <1>3. /\ Number(<<a, b>>) = 256 * a + b
        /\ Number(<<a - 256, b>>) = 256 * (a - 256) + b
    BY DEF Number
  <1> QED BY <1>2, <1>3 DEF Unsigned

\* What struct.unpack(">i") makes of four bytes.
LEMMA FourDigits ==
  ASSUME NEW a \in Octet, NEW b \in Octet, NEW c \in Octet, NEW d \in Octet
  PROVE  Signed(<<a, b, c, d>>)
           = 16777216 * (IF a < 128 THEN a ELSE a - 256) + 65536 * b + 256 * c + d
  <1> DEFINE m == a - 256
  <1>1. [<<a, b, c, d>> EXCEPT ![1] = m] = <<m, b, c, d>>
    OBVIOUS
  <1>2. Signed(<<a, b, c, d>>)
          = IF a < 128 THEN Number(<<a, b, c, d>>) ELSE Number(<<m, b, c, d>>)
    BY <1>1 DEF Signed
  <1>3. \A x : Number(<<x, b, c, d>>) = 16777216 * x + 65536 * b + 256 * c + d
    BY SMT DEF Number
  <1> QED BY <1>2, <1>3, SMT

\* struct.unpack is the inverse of struct.pack: one byte, two bytes, four.
LEMMA PackOne ==
  ASSUME NEW v, Between(v, -128, 127)
  PROVE  /\ Pack(v, 1) \in Seq(Octet) /\ Len(Pack(v, 1)) = 1
         /\ Signed(Pack(v, 1)) = v
  <1> DEFINE a == v % 256
  <1>1. v \in Int /\ -128 <= v /\ v <= 127
    BY DEF Between
  <1>2. a \in Octet
    BY <1>1, LastDigit DEF Octet
  <1>3. v = IF a < 128 THEN a ELSE a - 256
    BY <1>1, FirstDigit
  <1>4. Pack(v, 1) = <<a>>
    BY DEF Pack
  <1> HIDE DEF a
  <1>5. Signed(<<a>>) = v
    BY <1>2, <1>3, OneDigit
  <1>6. <<a>> \in Seq(Octet) /\ Len(<<a>>) = 1
    BY <1>2
  <1> QED BY <1>4, <1>5, <1>6

LEMMA PackTwo ==
  ASSUME NEW v, Between(v, -32768, 65535)
  PROVE  /\ Pack(v, 2) \in Seq(Octet) /\ Len(Pack(v, 2)) = 2
         /\ v < 32768 => Signed(Pack(v, 2)) = v
         /\ v >= 0 => Unsigned(Pack(v, 2)) = v
  <1> DEFINE q == v \div 256
             a == q % 256
             b == v % 256
  <1>1. v \in Int /\ -32768 <= v /\ v <= 65535
    BY SMT DEF Between
  <1>2. q \in Int /\ b \in Octet /\ v = 256 * q + b
    BY <1>1, LastDigit DEF Octet
  <1>3. a \in Octet /\ q = 256 * (q \div 256) + a
    <2> HIDE DEF q
    <2> QED BY <1>2, LastDigit DEF Octet
  <1>4. v < 32768 => q = IF a < 128 THEN a ELSE a - 256
    <2>1. v < 32768 => -128 <= q /\ q <= 127
      BY <1>1, SMT
    <2> QED BY <1>2, <2>1, FirstDigit
  <1>5. v >= 0 => q = a
    <2>1. v >= 0 => 0 <= q /\ q <= 255
      BY <1>1, SMT
    <2> HIDE DEF q
    <2> QED BY <1>2, <2>1, SMT
  <1>6. Pack(v, 2) = <<a, b>>
    BY DEF Pack
  <1> HIDE DEF a, b, q
  <1>7. /\ Signed(<<a, b>>) = 256 * (IF a < 128 THEN a ELSE a - 256) + b
        /\ Unsigned(<<a, b>>) = 256 * a + b
    BY <1>2, <1>3, TwoDigits
  <1>8. v < 32768 => Signed(<<a, b>>) = v
    BY <1>2, <1>4, <1>7, SMT
  <1>9. v >= 0 => Unsigned(<<a, b>>) = v
    BY <1>2, <1>5, <1>7, SMT
  <1>10. <<a, b>> \in Seq(Octet) /\ Len(<<a, b>>) = 2
    BY <1>2, <1>3
  <1> DEFINE packed == <<a, b>>
  <1>11. /\ packed \in Seq(Octet) /\ Len(packed) = 2
         /\ v < 32768 => Signed(packed) = v
         /\ v >= 0 => Unsigned(packed) = v
    BY <1>8, <1>9, <1>10
  <1>12. Pack(v, 2) = packed
    BY <1>6
  <1> HIDE DEF packed
  <1> QED BY <1>11, <1>12

LEMMA PackFour ==
  ASSUME NEW v, IsWord(v)
  PROVE  /\ Pack(v, 4) \in Seq(Octet) /\ Len(Pack(v, 4)) = 4
         /\ Signed(Pack(v, 4)) = v
  <1> DEFINE p == v \div 16777216
             q == v \div 65536
             r == v \div 256
             a == p % 256
             b == q % 256
             c == r % 256
             d == v % 256
  <1>1. v \in Int
    BY SMT DEF IsWord, Between
  <1>2. p \in Int /\ -128 <= p /\ p <= 127
    BY SMT DEF IsWord, Between
  <1>3. r \in Int /\ d \in Octet /\ v = 256 * r + d
    BY <1>1, LastDigit DEF Octet
  <1>4. q \in Int /\ c \in Octet /\ r = 256 * q + c
    BY <1>1, <1>3, LastDigit, NextDigits, SMT DEF Octet
  <1>5. b \in Octet /\ q = 256 * p + b
    BY <1>1, <1>4, LastDigit, NextDigits, SMT DEF Octet
  <1>6. a \in Octet
    BY <1>2, LastDigit, SMT DEF Octet
  <1>7. p = IF a < 128 THEN a ELSE a - 256
    BY <1>2, FirstDigit, SMT
  <1>8. Pack(v, 4) = <<a, b, c, d>>
    BY SMT DEF Pack
  <1> HIDE DEF a, b, c, d, p, q, r
  <1>9. Signed(<<a, b, c, d>>)
          = 16777216 * (IF a < 128 THEN a ELSE a - 256) + 65536 * b + 256 * c + d
    BY <1>3, <1>4, <1>5, <1>6, FourDigits, SMT
  <1>10. v = 16777216 * p + 65536 * b + 256 * c + d
    BY <1>2, <1>3, <1>4, <1>5, OctetIs, SMT
  <1>11. Signed(<<a, b, c, d>>) = v
    BY <1>7, <1>9, <1>10, SMT
  <1>12. <<a, b, c, d>> \in Seq(Octet) /\ Len(<<a, b, c, d>>) = 4
    BY <1>3, <1>4, <1>5, <1>6
  <1> QED BY <1>8, <1>11, <1>12

------------------------------------------------------------------------------
(* Strings as bytes.                                                         *)

LEMMA CodePointIs == \A n : n \in CodePoint <=> n \in Int /\ 0 <= n /\ n < 2048
  BY SMT DEF CodePoint

\* A code point's bytes: one, or a head and a tail.
IsShort(c, b) == b = <<c>> /\ c \in Octet /\ c < 128
IsPair(c, b) == \E h, t \in Octet :
  /\ b = <<h, t>> /\ 194 <= h /\ h <= 223 /\ 128 <= t /\ t <= 191
  /\ c = 64 * (h - 192) + t - 128

\* encode("utf-8") of a code point is one byte, or a first and a second one.
LEMMA Utf8Is ==
  ASSUME NEW c \in CodePoint
  PROVE  /\ IsShort(c, Utf8(c)) \/ IsPair(c, Utf8(c))
         /\ Utf8(c) \in Seq(Octet)
  <1>1. c \in Int /\ 0 <= c /\ c < 2048
    BY CodePointIs
  <1>2. CASE c < 128
    <2>1. Utf8(c) = <<c>>
      BY <1>2 DEF Utf8
    <2>2. c \in Octet
      BY <1>1, <1>2, OctetIs
    <2> QED BY <1>2, <2>1, <2>2 DEF IsShort
  <1>3. CASE ~(c < 128)
    <2> DEFINE h == 192 + c \div 64
               t == 128 + (c % 64)
    <2>1. /\ h \in Int /\ 194 <= h /\ h <= 223
          /\ t \in Int /\ 128 <= t /\ t <= 191
          /\ c = 64 * (h - 192) + t - 128
      BY <1>1, <1>3, SMT
    <2>2. Utf8(c) = <<h, t>>
      BY <1>3 DEF Utf8
    <2> HIDE DEF h, t
    <2>3. h \in Octet /\ t \in Octet
      BY <2>1, OctetIs
    <2>4. IsPair(c, <<h, t>>)
      BY <2>1, <2>3 DEF IsPair
    <2>5. <<h, t>> \in Seq(Octet)
      BY <2>3
    <2> QED BY <2>2, <2>4, <2>5
  <1> QED BY <1>2, <1>3

\* The bytes of a string's code points.
Utf8Of(s) == [k \in 1..Len(s) |-> Utf8(s[k])]

\* A string is encoded code point by code point.
LEMMA EncodedParts ==
  ASSUME NEW s \in Seq(CodePoint)
  PROVE  /\ Len(s) \in Nat
         /\ \E F : Puts(F, Utf8Of(s), Len(s), Octet) /\ Encoded(s) = F[Len(s)]
  <1>1. Len(s) \in Nat /\ \A k \in 1..Len(s) : s[k] \in CodePoint
    OBVIOUS
  <1>2. Utf8Of(s) \in [1..Len(s) -> Seq(Octet)]
    BY <1>1, Utf8Is DEF Utf8Of
  <1>3. Encoded(s) = FlattenSeq(Utf8Of(s))
    BY DEF Encoded, Utf8Of
  <1> QED BY <1>1, <1>2, <1>3, FlattenParts

\* Where the bytes of a code point are, the first behind offset a.
ShortAt(e, a, c) ==
  a + 1 \in 1..Len(e) /\ e[a + 1] = c /\ c \in Octet /\ c < 128
PairAt(e, a, c) ==
  /\ a + 1 \in 1..Len(e) /\ a + 2 \in 1..Len(e)
  /\ e[a + 1] \in Octet /\ 194 <= e[a + 1] /\ e[a + 1] <= 223
  /\ e[a + 2] \in Octet /\ 128 <= e[a + 2] /\ e[a + 2] <= 191
  /\ c = 64 * (e[a + 1] - 192) + e[a + 2] - 128

CodePointAt(F, n, k, c) ==
  \/ ShortAt(F[n], Len(F[k - 1]), c) /\ Len(F[k]) = Len(F[k - 1]) + 1
  \/ PairAt(F[n], Len(F[k - 1]), c) /\ Len(F[k]) = Len(F[k - 1]) + 2

\* Where the bytes of a code point are among those of the string.
LEMMA EncodedCodePoint ==
  ASSUME NEW s \in Seq(CodePoint), NEW n \in Nat, n = Len(s),
         NEW F, Puts(F, Utf8Of(s), n, Octet), NEW k \in 1..n
  PROVE  CodePointAt(F, n, k, s[k])
  <1> DEFINE p == Utf8Of(s)
  <1>1. p[k] = Utf8(s[k]) /\ s[k] \in CodePoint
    BY DEF Utf8Of
  <1> HIDE DEF p
  <1>2. Puts(F, p, n, Octet)
    BY DEF p
  <1>3. IsPart(F, p, k, Octet)
    BY <1>2, PutsPart
  <1>4. IsShort(s[k], p[k]) \/ IsPair(s[k], p[k])
    BY <1>1, Utf8Is
  <1>5. CASE IsShort(s[k], p[k])
    <2>1. p[k] = <<s[k]>> /\ s[k] \in Octet /\ s[k] < 128
      BY <1>5 DEF IsShort
    <2>2. Len(p[k]) = 1 /\ p[k][1] = s[k] /\ 1 \in 1..Len(p[k])
      BY <2>1
    <2>3. IsByteOf(F, p, n, k, 1)
      BY <1>2, <2>2, PutsByte
    <2> QED BY <1>3, <2>1, <2>2, <2>3 DEF CodePointAt, ShortAt, IsByteOf, IsPart
  <1>6. CASE IsPair(s[k], p[k])
    <2>1. PICK h \in Octet, t \in Octet :
            /\ p[k] = <<h, t>> /\ 194 <= h /\ h <= 223 /\ 128 <= t /\ t <= 191
            /\ s[k] = 64 * (h - 192) + t - 128
      BY <1>6 DEF IsPair
    <2>2. /\ Len(p[k]) = 2 /\ p[k][1] = h /\ p[k][2] = t
          /\ 1 \in 1..Len(p[k]) /\ 2 \in 1..Len(p[k])
      BY <2>1
    <2>3. IsByteOf(F, p, n, k, 1) /\ IsByteOf(F, p, n, k, 2)
      BY <1>2, <2>2, PutsByte
    <2> QED BY <1>3, <2>1, <2>2, <2>3 DEF CodePointAt, PairAt, IsByteOf, IsPart
  <1> QED BY <1>4, <1>5, <1>6

LEMMA ShortByte ==
  ASSUME NEW x \in Octet, x < 128
  PROVE  /\ x \in 0..191 \cup 194..223
         /\ ~(x >= 192) /\ ~(x >= 194) /\ x \notin 128..191
  BY DEF Octet

\* decode("utf-8") does not raise for what encode("utf-8") made.
LEMMA EncodedIsDecodable ==
  ASSUME NEW s \in Seq(CodePoint)
  PROVE  Decodable(Encoded(s))
  <1> DEFINE n == Len(s)
             e == Encoded(s)
             p == Utf8Of(s)
  <1>1. PICK F : Puts(F, p, n, Octet) /\ e = F[n]
    BY EncodedParts
  <1>2. n \in Nat
    BY EncodedParts
  <1>3. ASSUME NEW i \in 1..Len(e)
        PROVE  /\ e[i] \in 0..191 \cup 194..223
               /\ e[i] >= 194 => i < Len(e) /\ e[i + 1] \in 128..191
               /\ e[i] \in 128..191 => i > 1 /\ e[i - 1] >= 194
    <2> HIDE DEF n, e, p
    <2>1. PICK k \in 1..n : \E j \in 1..Len(p[k]) : i = Len(F[k - 1]) + j
      BY <1>1, <1>2, PutsCovers
    <2>2. IsPart(F, p, k, Octet)
      BY <1>1, <1>2, PutsPart
    <2>3. PICK a \in Nat : a = Len(F[k - 1])
      BY <2>2 DEF IsPart
    <2>4. CodePointAt(F, n, k, s[k])
      BY <1>1, <1>2, EncodedCodePoint DEF n, p
    <2>5. Len(F[k]) = a + Len(p[k]) /\ Len(p[k]) \in Nat
      BY <2>2, <2>3 DEF IsPart
    <2>6. PICK j \in 1..Len(p[k]) : i = a + j
      BY <2>1, <2>3
    <2>7. CASE ShortAt(e, a, s[k]) /\ Len(F[k]) = a + 1
      <3>1. j = 1
        BY <2>5, <2>6, <2>7
      <3>2. PICK x \in Octet : x = e[i] /\ x < 128
        BY <2>6, <2>7, <3>1 DEF ShortAt
      <3>3. x \in 0..191 \cup 194..223 /\ ~(x >= 194) /\ x \notin 128..191
        BY <3>2, ShortByte
      <3> QED BY <3>2, <3>3
    <2>8. CASE PairAt(e, a, s[k]) /\ Len(F[k]) = a + 2
      <3>1. j = 1 \/ j = 2
        BY <2>5, <2>6, <2>8
      <3>2. PICK h, t \in Octet : h = e[a + 1] /\ t = e[a + 2]
        BY <2>8 DEF PairAt
      <3>3. 194 <= h /\ h <= 223 /\ 128 <= t /\ t <= 191
        BY <2>8, <3>2 DEF PairAt
      <3>4. Len(e) \in Int /\ a + 2 <= Len(e)
        BY <2>8 DEF PairAt
      <3>5. h \in Int /\ t \in Int
        BY OctetIs
      <3>6. CASE j = 1
        <4>1. i = a + 1 /\ i + 1 = a + 2 /\ i < Len(e)
          BY <2>6, <3>4, <3>6
        <4>2. e[i] = h /\ e[i + 1] = t
          BY <3>2, <4>1
        <4> QED BY <3>3, <3>5, <4>1, <4>2
      <3>7. CASE j = 2
        <4>1. i = a + 2 /\ i - 1 = a + 1 /\ i > 1
          BY <2>6, <3>7
        <4>2. e[i] = t /\ e[i - 1] = h
          BY <3>2, <4>1
        <4> QED BY <3>3, <3>5, <4>1, <4>2
      <3> QED BY <3>1, <3>6, <3>7
    <2> QED BY <1>1, <2>3, <2>4, <2>7, <2>8 DEF CodePointAt
  <1> HIDE DEF e
  <1>4. Decodable(e)
    BY <1>3 DEF Decodable
  <1> QED BY <1>4 DEF e

\* What is read at each byte of a string.
CodePointsOf(b) ==
  [k \in 1..Len(b) |->
    CASE b[k] < 128  -> <<b[k]>>
      [] b[k] >= 192 -> <<64 * (b[k] - 192) + b[k + 1] - 128>>
      [] OTHER       -> <<>>]

LEMMA OneMore ==
  ASSUME NEW S, NEW s \in Seq(S), NEW m \in Nat, m + 1 \in 1..Len(s)
  PROVE  SubSeq(s, 1, m + 1) = SubSeq(s, 1, m) \o <<s[m + 1]>>
  OBVIOUS

\* Some set the code points at the bytes are from.
PointSet(b) ==
  {b[k] : k \in 1..Len(b)}
    \cup {64 * (b[k] - 192) + b[k + 1] - 128 : k \in 1..Len(b)}

\* Decoding, too, goes byte by byte.
LEMMA CodePointsOfType ==
  ASSUME NEW b
  PROVE  CodePointsOf(b) \in [1..Len(b) -> Seq(PointSet(b))]
  <1>1. ASSUME NEW k \in 1..Len(b)
        PROVE  CodePointsOf(b)[k] \in Seq(PointSet(b))
    <2> DEFINE c == b[k]
               d == 64 * (b[k] - 192) + b[k + 1] - 128
    <2>1. c \in PointSet(b) /\ d \in PointSet(b)
      BY DEF PointSet
    <2>2. CodePointsOf(b)[k] \in {<<c>>, <<d>>, <<>>}
      BY DEF CodePointsOf
    <2> HIDE DEF c, d
    <2>3. /\ <<c>> \in Seq(PointSet(b)) /\ <<d>> \in Seq(PointSet(b))
          /\ <<>> \in Seq(PointSet(b))
      BY <2>1
    <2> QED BY <2>2, <2>3
  <1>2. CodePointsOf(b) = [k \in 1..Len(b) |-> CodePointsOf(b)[k]]
    BY DEF CodePointsOf
  <1> QED BY <1>1, <1>2

\* One code point is read at its first byte, and none at its second.
ReadsPoint(G, b, a, c) ==
  /\ ShortAt(b, a, c) => G[a + 1] = G[a] \o <<c>>
  /\ PairAt(b, a, c) => G[a + 2] = G[a] \o <<c>>

\* A first byte, with its second, becomes the code point; a second one nothing.
LEMMA ReadCodePoint ==
  ASSUME NEW b, NEW a \in Nat, NEW c, NEW S,
         NEW G, Puts(G, CodePointsOf(b), Len(b), S), Len(b) \in Nat
  PROVE  ReadsPoint(G, b, a, c)
  <1> DEFINE q == CodePointsOf(b)
             n == Len(b)
  <1>1. (a + 1) - 1 = a /\ (a + 2) - 1 = a + 1 /\ (a + 1) + 1 = a + 2
    OBVIOUS
  <1>2. CASE ShortAt(b, a, c)
    <2>1. PICK k \in 1..n : k = a + 1 /\ k - 1 = a
      BY <1>1, <1>2 DEF ShortAt
    <2>2. PICK x \in Octet : x = b[k] /\ x < 128 /\ x = c
      BY <1>2, <2>1 DEF ShortAt
    <2>3. q[k] = <<c>>
      <3>1. b[k] < 128 /\ ~(b[k] >= 192)
        BY <2>2, ShortByte
      <3>2. q[k] = <<b[k]>>
        BY <3>1 DEF CodePointsOf
      <3> QED BY <2>2, <3>2
    <2>4. ~PairAt(b, a, c)
      BY <2>1, <2>2, OctetIs DEF PairAt
    <2> HIDE DEF q, n
    <2>5. IsPart(G, q, k, S)
      BY PutsPart DEF q, n
    <2>6. G[k] = G[k - 1] \o <<c>>
      BY <2>3, <2>5 DEF IsPart
    <2> QED BY <2>1, <2>4, <2>6 DEF ReadsPoint
  <1>3. CASE PairAt(b, a, c)
    <2>1. /\ a + 1 \in 1..n /\ a + 2 \in 1..n
          /\ b[a + 1] \in Octet /\ 194 <= b[a + 1]
          /\ b[a + 2] \in Octet /\ 128 <= b[a + 2] /\ b[a + 2] <= 191
          /\ c = 64 * (b[a + 1] - 192) + b[a + 2] - 128
      BY <1>3 DEF PairAt
    <2>2. q[a + 1] = <<c>>
      <3>1. b[a + 1] \in Int
        BY <2>1, OctetIs
      <3>2. b[a + 1] >= 192 /\ ~(b[a + 1] < 128)
        BY <2>1, <3>1
      <3> QED BY <1>1, <2>1, <3>2 DEF CodePointsOf
    <2>3. q[a + 2] = <<>>
      <3>1. b[a + 2] \in Int
        BY <2>1, OctetIs
      <3>2. ~(b[a + 2] >= 192) /\ ~(b[a + 2] < 128)
        BY <2>1, <3>1
      <3> QED BY <2>1, <3>2 DEF CodePointsOf
    <2> HIDE DEF q, n
    <2>4. PICK k \in 1..n : k = a + 1 /\ k - 1 = a
      BY <2>1, <1>1
    <2>5. PICK l \in 1..n : l = a + 2 /\ l - 1 = a + 1
      BY <2>1, <1>1
    <2>6. IsPart(G, q, k, S) /\ IsPart(G, q, l, S)
      BY PutsPart DEF q, n
    <2>7. G[a + 1] = G[a] \o <<c>> /\ G[a + 1] \in Seq(S)
      BY <2>2, <2>4, <2>5, <2>6 DEF IsPart
    <2>8. G[a + 2] = G[a + 1] \o <<>>
      BY <2>3, <2>5, <2>6 DEF IsPart
    <2>9. G[a + 2] = G[a + 1]
      BY <2>7, <2>8, ConcatEmptySeq
    <2>10. ~ShortAt(b, a, c)
      <3>1. b[a + 1] \in Int
        BY <2>1, OctetIs
      <3> QED BY <2>1, <3>1 DEF ShortAt
    <2> QED BY <2>7, <2>9, <2>10 DEF ReadsPoint
  <1> QED BY <1>2, <1>3 DEF ReadsPoint

\* decode("utf-8") is the inverse of encode("utf-8").
LEMMA DecodedIsEncoded ==
  ASSUME NEW s \in Seq(CodePoint)
  PROVE  Decoded(Encoded(s)) = s
  <1> DEFINE n == Len(s)
             e == Encoded(s)
             p == Utf8Of(s)
             q == CodePointsOf(e)
  <1>1. PICK F : Puts(F, p, n, Octet) /\ e = F[n]
    BY EncodedParts
  <1>2. n \in Nat
    BY EncodedParts
  <1>3. HasLengths(F, p, n, Octet)
    BY <1>1, <1>2, PutsLengths
  <1>4. Len(e) \in Nat /\ Len(F[0]) = 0
    <2>1. n \in 0..n
      BY <1>2
    <2> QED BY <1>1, <1>3, <2>1 DEF HasLengths
  <1>5. Decoded(e) = FlattenSeq(q)
    BY DEF Decoded, CodePointsOf
  <1> HIDE DEF e
  <1>6. PICK G : /\ Puts(G, q, Len(e), PointSet(e))
                 /\ FlattenSeq(q) = G[Len(e)]
    BY <1>4, CodePointsOfType, FlattenParts
  <1> HIDE DEF q
  <1> DEFINE Done == {m \in Nat : m <= n => G[Len(F[m])] = SubSeq(s, 1, m)}
  <1>7. 0 \in Done
    <2>1. G[0] = <<>>
      BY <1>6 DEF Puts
    <2>2. SubSeq(s, 1, 0) = <<>>
      OBVIOUS
    <2> QED BY <1>4, <2>1, <2>2
  <1>8. ASSUME NEW m \in Nat, m \in Done PROVE m + 1 \in Done
    <2> SUFFICES ASSUME m + 1 <= n PROVE G[Len(F[m + 1])] = SubSeq(s, 1, m + 1)
      OBVIOUS
    <2>1. PICK k \in 1..n : k = m + 1 /\ k - 1 = m
      BY <1>2
    <2>2. CodePointAt(F, n, k, s[k])
      BY <1>1, <1>2, EncodedCodePoint
    <2>3. s[k] \in CodePoint
      OBVIOUS
    <2>4. G[Len(F[m])] = SubSeq(s, 1, m)
      BY <1>2, <1>8
    <2>5. SubSeq(s, 1, k) = SubSeq(s, 1, m) \o <<s[k]>>
      BY <2>1, OneMore
    <2> HIDE DEF Done, n
    <2>6. PICK a \in Nat : a = Len(F[m])
      <3>1. m \in 0..n
        BY <1>2, <2>1
      <3> QED BY <1>3, <3>1 DEF HasLengths
    <2>7. ReadsPoint(G, e, a, s[k])
      BY <1>4, <1>6, ReadCodePoint DEF q
    <2>8. \/ ShortAt(e, a, s[k]) /\ Len(F[k]) = a + 1
          \/ PairAt(e, a, s[k]) /\ Len(F[k]) = a + 2
      BY <1>1, <2>1, <2>2, <2>6 DEF CodePointAt
    <2>9. G[Len(F[k])] = G[a] \o <<s[k]>>
      BY <2>7, <2>8 DEF ReadsPoint
    <2> QED BY <2>1, <2>4, <2>5, <2>6, <2>9
  <1> HIDE DEF Done
  <1>9. \A m \in Nat : m \in Done
    BY <1>7, <1>8, AllNaturals
  <1>10. n \in Done /\ n <= n
    BY <1>2, <1>9
  <1>11. G[Len(F[n])] = SubSeq(s, 1, n)
    BY <1>10 DEF Done
  <1>12. SubSeq(s, 1, n) = s
    OBVIOUS
  <1>13. Decoded(e) = s
    BY <1>1, <1>5, <1>6, <1>11, <1>12
  <1> QED BY <1>13 DEF e

------------------------------------------------------------------------------
(* Leaves                                                                    *)

\* The next w bytes from offset o on are there, and are b.
Found(data, o, w, b) ==
  Within(data, o, w) /\ SubSeq(data, At(data, o) + 1, At(data, o) + w) = b

\* Bytes that are in the data are what a read of as many of them sees.
LEMMA HeldBytes ==
  ASSUME NEW data \in Seq(Octet), NEW o \in Nat, NEW b \in Seq(Octet), NEW w,
         w = Len(b), Holds(data, o, b)
  PROVE  Found(data, o, w, b)
  <1>1. Len(data) \in Nat /\ w \in Nat /\ o + w <= Len(data)
    BY DEF Holds
  <1>2. At(data, o) = o /\ Within(data, o, w)
    BY <1>1 DEF At, Within
  <1> DEFINE found == SubSeq(data, o + 1, o + w)
  <1>3. Len(found) = w /\ found \in Seq(Octet)
    BY <1>1
  <1>4. ASSUME NEW k \in 1..w PROVE found[k] = b[k]
    <2>1. found[k] = data[o + k]
      BY <1>1
    <2>2. k \in 1..Len(b) /\ o + k <= Len(data)
      BY <1>1
    <2> QED BY <2>1, <2>2 DEF Holds, Agrees
  <1> HIDE DEF found
  <1>5. found = b
    BY <1>3, <1>4, SeqEqual
  <1> QED BY <1>2, <1>5 DEF Found, found

\* Data that holds two strings of bytes holds each of them.
LEMMA HoldsConcat ==
  ASSUME NEW S, NEW x \in Seq(S), NEW y \in Seq(S), NEW data \in Seq(S),
         NEW o \in Nat, Holds(data, o, x \o y)
  PROVE  Holds(data, o, x) /\ Holds(data, o + Len(x), y)
  <1>1. /\ Len(x) \in Nat /\ Len(y) \in Nat /\ Len(data) \in Nat
        /\ Len(x \o y) = Len(x) + Len(y)
    BY ConcatProperties, LenProperties
  <1>2. Agrees(data, o, x) /\ Agrees(data, o + Len(x), y)
    BY <1>1, AgreesConcat DEF Holds
  <1>3. o + (Len(x) + Len(y)) <= Len(data)
    BY <1>1 DEF Holds
  <1> QED BY <1>1, <1>2, <1>3 DEF Holds

\* A write that raised is not found among bytes.
LEMMA NotRaised ==
  ASSUME NEW data \in Seq(Octet), NEW o \in Nat
  PROVE  ~Holds(data, o, <<Raised>>)
  <1>1. ASSUME Holds(data, o, <<Raised>>) PROVE FALSE
    <2>1. o + 1 <= Len(data) /\ data[o + 1] = Raised
      BY <1>1 DEF Holds, Agrees
    <2>2. data[o + 1] \in Octet
      BY <2>1
    <2> QED BY <2>1, <2>2 DEF Octet, Raised
  <1> QED BY <1>1

LEMMA TwoHalves ==
  ASSUME NEW S, NEW x \in Seq(S), NEW y \in Seq(S), Len(x) = 4, Len(y) = 4
  PROVE  SubSeq(x \o y, 1, 4) = x /\ SubSeq(x \o y, 5, 8) = y
  <1> DEFINE xy == x \o y
             l == SubSeq(xy, 1, 4)
             r == SubSeq(xy, 5, 8)
  <1>1. /\ xy \in Seq(S) /\ Len(xy) = 8
        /\ \A i \in 1..8 : xy[i] = IF i <= 4 THEN x[i] ELSE y[i - 4]
    <2>1. /\ xy \in Seq(S) /\ Len(xy) = Len(x) + Len(y)
          /\ \A i \in 1..(Len(x) + Len(y)) :
               xy[i] = IF i <= Len(x) THEN x[i] ELSE y[i - Len(x)]
      BY ConcatProperties
    <2> HIDE DEF xy
    <2> QED BY <2>1
  <1> HIDE DEF xy
  <1>2. l \in Seq(S) /\ Len(l) = 4 /\ r \in Seq(S) /\ Len(r) = 4
    BY <1>1
  <1>3. ASSUME NEW i \in 1..4 PROVE l[i] = x[i] /\ r[i] = y[i]
    <2>1. l[i] = xy[i] /\ r[i] = xy[4 + i]
      BY <1>1
    <2>2. i \in 1..8 /\ 4 + i \in 1..8 /\ i <= 4 /\ ~(4 + i <= 4) /\ (4 + i) - 4 = i
      OBVIOUS
    <2> QED BY <1>1, <2>1, <2>2
  <1> HIDE DEF l, r
  <1>4. l = x /\ r = y
    BY <1>2, <1>3, SeqEqual
  <1> QED BY <1>4 DEF l, r, xy

\* struct.unpack(">q") is the inverse of struct.pack(">q").
LEMMA PackLongIs ==
  ASSUME NEW v, v = <<v[1], v[2]>>, IsWord(v[1]), IsWord(v[2])
  PROVE  /\ PackLong(v) \in Seq(Octet) /\ Len(PackLong(v)) = 8
         /\ Halves(PackLong(v)) = v
  <1> DEFINE x == Pack(v[1], 4)
             y == Pack(v[2], 4)
  <1>1. /\ x \in Seq(Octet) /\ Len(x) = 4 /\ Signed(x) = v[1]
        /\ y \in Seq(Octet) /\ Len(y) = 4 /\ Signed(y) = v[2]
    BY PackFour
  <1>2. PackLong(v) = x \o y
    BY DEF PackLong
  <1> HIDE DEF x, y
  <1>3. x \o y \in Seq(Octet) /\ Len(x \o y) = 8
    <2>1. x \o y \in Seq(Octet) /\ Len(x \o y) = Len(x) + Len(y)
      BY <1>1, ConcatProperties
    <2> QED BY <1>1, <2>1
  <1>4. SubSeq(x \o y, 1, 4) = x /\ SubSeq(x \o y, 5, 8) = y
    BY <1>1, TwoHalves
  <1>5. Halves(x \o y) = <<v[1], v[2]>>
    BY <1>1, <1>4 DEF Halves
  <1> QED BY <1>2, <1>3, <1>5

\* The same of an id of four bytes, if it fits.
LEMMA LowHalfIs ==
  ASSUME NEW v, v = <<v[1], v[2]>>, v[1] = 0, IsWord(v[2])
  PROVE  /\ Pack(v[2], 4) \in Seq(Octet) /\ Len(Pack(v[2], 4)) = 4
         /\ LowHalf(Pack(v[2], 4)) = v
  BY PackFour DEF LowHalf

\* What is written, a write that raises among it.
IsWritten(b) == b \in Seq(Octet \cup {Raised})

LEMMA OctetsAreWritten ==
  ASSUME NEW b \in Seq(Octet)
  PROVE  IsWritten(b)
  BY DEF IsWritten

LEMMA RaisedIsWritten == IsWritten(<<Raised>>)
  BY DEF IsWritten

\* The number of a byte, and the bytes of a string.
LEMMA ByteIs ==
  ASSUME NEW v \in Octet
  PROVE  /\ <<v % 256>> \in Seq(Octet) /\ Len(<<v % 256>>) = 1
         /\ Unsigned(<<v % 256>>) = v
  <1>1. v % 256 = v
    BY DEF Octet
  <1> QED BY <1>1, OneDigit

\* What an annotated string comes to in write_string().
LEMMA StringIs ==
  ASSUME NEW s, FitsLeaf(String, s)
  PROVE  /\ s \in Seq(CodePoint) /\ Encoded(s) \in Seq(Octet)
         /\ IsWord(Len(Encoded(s))) /\ Len(Encoded(s)) \in Nat
         /\ Pack(Len(Encoded(s)), 4) \in Seq(Octet)
         /\ Len(Pack(Len(Encoded(s)), 4)) = 4
         /\ Signed(Pack(Len(Encoded(s)), 4)) = Len(Encoded(s))
  <1>1. s \in Seq(CodePoint) /\ Len(Encoded(s)) <= 2147483647
    BY SMT DEF FitsLeaf, String
  <1>2. Encoded(s) \in Seq(Octet)
    <2> DEFINE n == Len(s)
    <2>1. PICK F : Puts(F, Utf8Of(s), n, Octet) /\ Encoded(s) = F[n]
      BY <1>1, EncodedParts
    <2>2. n \in 0..n
      BY <1>1
    <2> QED BY <2>1, <2>2 DEF Puts
  <1> DEFINE length == Len(Encoded(s))
  <1>3. length \in Nat
    BY <1>2
  <1>4. IsWord(length)
    <2>1. length <= 2147483647
      BY <1>1
    <2> HIDE DEF length
    <2> QED BY <1>3, <2>1, SMT DEF IsWord, Between
  <1> HIDE DEF length
  <1>5. /\ Pack(length, 4) \in Seq(Octet) /\ Len(Pack(length, 4)) = 4
        /\ Signed(Pack(length, 4)) = length
    BY <1>4, PackFour
  <1> QED BY <1>1, <1>2, <1>3, <1>4, <1>5 DEF length

\* write_int(), also of a member of an enumeration and of flags.
LEMMA IntIsPacked ==
  ASSUME NEW field, NEW v, NEW sizes, FitsLeaf(field, v),
         field.type \in {"int", "intEnum", "flags"}
  PROVE  IsWord(v) /\ WriteLeaf(field, v, sizes) = Pack(v, 4)
  <1>1. WriteLeaf(field, v, sizes) = Pack(v, 4)
    BY DEF WriteLeaf
  <1>2. IsWord(v)
    <2>1. CASE field.type \in {"int", "intEnum"}
      BY <2>1 DEF FitsLeaf
    <2>2. CASE field.type = "flags"
      <3>1. Between(v, 0, 2147483647)
        BY <2>2 DEF FitsLeaf
      <3> QED BY <3>1, SMT DEF IsWord, Between
    <2> QED BY <2>1, <2>2
  <1> QED BY <1>1, <1>2

\* A float is packed into four bytes, or it is beyond the singles and raises.
LEMMA FloatIsPacked ==
  ASSUME NEW field, NEW v, NEW sizes, FitsLeaf(field, v), field.type = "float"
  PROVE  /\ v = <<v[1], v[2]>> /\ IsWord(v[1])
         /\ WriteLeaf(field, v, sizes) \in {Pack(v[1], 4), <<Raised>>}
         /\ v[2] = 0 => WriteLeaf(field, v, sizes) = Pack(v[1], 4)
  BY DEF FitsLeaf, WriteLeaf, WriteFloat

\* What a leaf writes are bytes, or it raises.
LEMMA LeafIsWritten ==
  ASSUME NEW field, NEW v, NEW sizes, FitsLeaf(field, v)
  PROVE  IsWritten(WriteLeaf(field, v, sizes))
  <1>1. CASE field.type \in {"byte", "byteEnum"}
    <2>1. v \in Octet
      BY <1>1 DEF FitsLeaf
    <2> QED BY <1>1, <2>1, ByteIs, OctetsAreWritten DEF WriteLeaf
  <1>2. CASE field.type = "boolean"
    <2>1. <<1>> \in Seq(Octet) /\ <<0>> \in Seq(Octet)
      BY DEF Octet
    <2>2. WriteLeaf(field, v, sizes) = <<IF v THEN 1 ELSE 0>>
      BY <1>2 DEF WriteLeaf
    <2> QED BY <2>1, <2>2, OctetsAreWritten
  <1>3. CASE field.type = "int8"
    <2>1. Between(v, -128, 127) /\ WriteLeaf(field, v, sizes) = Pack(v, 1)
      BY <1>3 DEF FitsLeaf, WriteLeaf
    <2> QED BY <2>1, PackOne, OctetsAreWritten
  <1>4. CASE field.type \in {"int16", "uint16"}
    <2>1. WriteLeaf(field, v, sizes) = Pack(v, 2)
      BY <1>4 DEF WriteLeaf
    <2>2. Between(v, -32768, 65535)
      BY <1>4, SMT DEF FitsLeaf, Between
    <2> QED BY <2>1, <2>2, PackTwo, OctetsAreWritten
  <1>5. CASE field.type \in {"int", "intEnum", "flags"}
    <2>1. IsWord(v) /\ WriteLeaf(field, v, sizes) = Pack(v, 4)
      BY <1>5, IntIsPacked
    <2> QED BY <2>1, PackFour, OctetsAreWritten
  <1>6. CASE field.type \in {"long", "id"}
    <2>1. v = <<v[1], v[2]>> /\ IsWord(v[1]) /\ IsWord(v[2])
      BY <1>6 DEF FitsLeaf
    <2>2. WriteLeaf(field, v, sizes) \in {PackLong(v), Pack(v[2], 4), <<Raised>>}
      BY <1>6 DEF WriteLeaf, WriteId
    <2> QED BY <2>1, <2>2, PackLongIs, PackFour, OctetsAreWritten, RaisedIsWritten
  <1>7. CASE field.type = "string"
    <2>1. FitsLeaf(String, v)
      BY <1>7 DEF FitsLeaf, String
    <2>2. WriteLeaf(field, v, sizes) = Pack(Len(Encoded(v)), 4) \o Encoded(v)
      BY <1>7 DEF WriteLeaf, WriteString
    <2> QED BY <2>1, <2>2, StringIs, ConcatProperties, OctetsAreWritten
  <1>8. CASE field.type = "float"
    <2>1. IsWord(v[1]) /\ WriteLeaf(field, v, sizes) \in {Pack(v[1], 4), <<Raised>>}
      BY <1>8, FloatIsPacked
    <2> QED BY <2>1, PackFour, OctetsAreWritten, RaisedIsWritten
  <1> QED BY <1>1, <1>2, <1>3, <1>4, <1>5, <1>6, <1>7, <1>8 DEF FitsLeaf

\* A leaf that is found whole in the data is read back, to its last byte.
LeafIsReadBack(field, v, data, o, sizes) ==
  ReadLeaf(field, data, o, sizes) = Read(v, o + Len(WriteLeaf(field, v, sizes)))

\* read_byte() reads what write_byte() wrote, and an enumeration finds its member.
LEMMA ByteIsReadBack ==
  ASSUME NEW field, NEW v, NEW sizes, NEW data \in Seq(Octet), NEW o \in Nat,
         field.type \in {"byte", "byteEnum"}, FitsLeaf(field, v),
         Holds(data, o, WriteLeaf(field, v, sizes))
  PROVE  LeafIsReadBack(field, v, data, o, sizes)
  <1> DEFINE b == <<v % 256>>
  <1>1. v \in Octet /\ (field.type = "byteEnum" => v \in field.members)
    BY DEF FitsLeaf
  <1>2. b \in Seq(Octet) /\ Len(b) = 1 /\ Unsigned(b) = v
    BY <1>1, ByteIs
  <1>3. WriteLeaf(field, v, sizes) = b
    BY DEF WriteLeaf
  <1> HIDE DEF b
  <1>4. Found(data, o, 1, b)
    BY <1>2, <1>3, HeldBytes
  <1>5. ReadByte(data, o) = Read(v, o + 1)
    BY <1>2, <1>4 DEF ReadByte, Unpack, Found
  <1>6. Member(ReadByte(data, o), field.members)
          = IF v \in field.members THEN Read(v, o + 1) ELSE Raise
    BY <1>5 DEF Member, Read
  <1>7. ReadLeaf(field, data, o, sizes) = Read(v, o + 1)
    BY <1>1, <1>5, <1>6 DEF ReadLeaf
  <1> QED BY <1>2, <1>3, <1>7 DEF LeafIsReadBack

\* read_boolean() reads what write_boolean() wrote.
LEMMA BooleanIsReadBack ==
  ASSUME NEW field, NEW v, NEW sizes, NEW data \in Seq(Octet), NEW o \in Nat,
         field.type = "boolean", FitsLeaf(field, v),
         Holds(data, o, WriteLeaf(field, v, sizes))
  PROVE  LeafIsReadBack(field, v, data, o, sizes)
  <1> DEFINE b == <<IF v THEN 1 ELSE 0>>
  <1>1. v \in BOOLEAN
    BY DEF FitsLeaf
  <1>2. b \in Seq(Octet) /\ Len(b) = 1 /\ (b # <<0>>) = v
    BY <1>1 DEF Octet
  <1>3. WriteLeaf(field, v, sizes) = b
    BY DEF WriteLeaf
  <1> HIDE DEF b
  <1>4. Found(data, o, 1, b)
    BY <1>2, <1>3, HeldBytes
  <1>5. Unpack(data, o, 1, LAMBDA c : c # <<0>>) = Read(b # <<0>>, o + 1)
    BY <1>4 DEF Unpack, Found
  <1>6. ReadLeaf(field, data, o, sizes) = Read(v, o + 1)
    BY <1>2, <1>5 DEF ReadLeaf
  <1> QED BY <1>2, <1>3, <1>6 DEF LeafIsReadBack

\* The values of the tags BYTE, SHORT and CHAR are read back.
LEMMA SmallIsReadBack ==
  ASSUME NEW field, NEW v, NEW sizes, NEW data \in Seq(Octet), NEW o \in Nat,
         field.type \in {"int8", "int16", "uint16"}, FitsLeaf(field, v),
         Holds(data, o, WriteLeaf(field, v, sizes))
  PROVE  LeafIsReadBack(field, v, data, o, sizes)
  <1>1. CASE field.type = "int8"
    <2> DEFINE b == Pack(v, 1)
    <2>1. Between(v, -128, 127) /\ WriteLeaf(field, v, sizes) = b
      BY <1>1 DEF FitsLeaf, WriteLeaf
    <2>2. b \in Seq(Octet) /\ Len(b) = 1 /\ Signed(b) = v
      BY <2>1, PackOne
    <2> HIDE DEF b
    <2>3. Found(data, o, 1, b)
      BY <2>1, <2>2, HeldBytes
    <2>4. Unpack(data, o, 1, Signed) = Read(v, o + 1)
      BY <2>2, <2>3 DEF Unpack, Found
    <2>5. ReadLeaf(field, data, o, sizes) = Read(v, o + 1)
      BY <1>1, <2>4 DEF ReadLeaf
    <2> QED BY <2>1, <2>2, <2>5 DEF LeafIsReadBack
  <1>2. CASE field.type \in {"int16", "uint16"}
    <2> DEFINE b == Pack(v, 2)
    <2>1. /\ field.type = "int16" => Between(v, -32768, 32767)
          /\ field.type = "uint16" => Between(v, 0, 65535)
      BY <1>2 DEF FitsLeaf
    <2>2. WriteLeaf(field, v, sizes) = b
      BY <1>2 DEF WriteLeaf
    <2>3. /\ Between(v, -32768, 65535)
          /\ field.type = "int16" => v < 32768
          /\ field.type = "uint16" => v >= 0
      BY <1>2, <2>1, SMT DEF Between
    <2>4. /\ b \in Seq(Octet) /\ Len(b) = 2
          /\ field.type = "int16" => Signed(b) = v
          /\ field.type = "uint16" => Unsigned(b) = v
      BY <2>3, PackTwo
    <2> HIDE DEF b
    <2>5. Found(data, o, 2, b)
      BY <2>2, <2>4, HeldBytes
    <2>6. /\ Unpack(data, o, 2, Signed) = Read(Signed(b), o + 2)
          /\ Unpack(data, o, 2, Unsigned) = Read(Unsigned(b), o + 2)
      BY <2>5 DEF Unpack, Found
    <2>7. ReadLeaf(field, data, o, sizes) = Read(v, o + 2)
      BY <1>2, <2>4, <2>6 DEF ReadLeaf
    <2> QED BY <2>2, <2>4, <2>7 DEF LeafIsReadBack
  <1> QED BY <1>1, <1>2

\* read_int() reads what write_int() wrote.
LEMMA HeldInt ==
  ASSUME NEW v, IsWord(v), NEW data \in Seq(Octet), NEW o \in Nat,
         Holds(data, o, Pack(v, 4))
  PROVE  ReadInt(data, o) = Read(v, o + 4)
  <1> DEFINE b == Pack(v, 4)
  <1>1. b \in Seq(Octet) /\ Len(b) = 4 /\ Signed(b) = v
    BY PackFour
  <1> HIDE DEF b
  <1>2. Found(data, o, 4, b)
    BY <1>1, HeldBytes DEF b
  <1> QED BY <1>1, <1>2 DEF ReadInt, Unpack, Found

\* The same as a field, one of an enumeration included.
LEMMA IntIsReadBack ==
  ASSUME NEW field, NEW v, NEW sizes, NEW data \in Seq(Octet), NEW o \in Nat,
         field.type \in {"int", "intEnum"}, FitsLeaf(field, v),
         Holds(data, o, WriteLeaf(field, v, sizes))
  PROVE  LeafIsReadBack(field, v, data, o, sizes)
  <1>1. IsWord(v) /\ (field.type = "intEnum" => v \in field.members)
    BY DEF FitsLeaf
  <1>2. WriteLeaf(field, v, sizes) = Pack(v, 4)
    BY DEF WriteLeaf
  <1>3. ReadInt(data, o) = Read(v, o + 4)
    BY <1>1, <1>2, HeldInt
  <1>4. Member(ReadInt(data, o), field.members)
          = IF v \in field.members THEN Read(v, o + 4) ELSE Raise
    BY <1>3 DEF Member, Read
  <1>5. ReadLeaf(field, data, o, sizes) = Read(v, o + 4)
    BY <1>1, <1>3, <1>4 DEF ReadLeaf
  <1>6. Len(Pack(v, 4)) = 4
    BY <1>1, PackFour
  <1> QED BY <1>2, <1>5, <1>6 DEF LeafIsReadBack

\* Flags are kept as they are, since none of them is the sign.
LEMMA FlagsAreReadBack ==
  ASSUME NEW field, NEW v, NEW sizes, NEW data \in Seq(Octet), NEW o \in Nat,
         field.type = "flags", FitsLeaf(field, v),
         Holds(data, o, WriteLeaf(field, v, sizes))
  PROVE  LeafIsReadBack(field, v, data, o, sizes)
  <1> DEFINE b == Pack(v, 4)
  <1>1. IsWord(v) /\ WriteLeaf(field, v, sizes) = b
    BY IntIsPacked
  <1>2. b \in Seq(Octet) /\ Len(b) = 4 /\ Signed(b) = v
    BY <1>1, PackFour
  <1>3. Flagged(v, field.all) = v
    <2>1. Between(v, 0, 2147483647)
      BY DEF FitsLeaf
    <2>2. v \in Int /\ v >= 0
      BY <2>1 DEF Between
    <2> QED BY <2>2 DEF Flagged
  <1> HIDE DEF b
  <1>4. Found(data, o, 4, b)
    BY <1>1, <1>2, HeldBytes
  <1>5. Unpack(data, o, 4, LAMBDA c : Flagged(Signed(c), field.all))
          = Read(Flagged(Signed(b), field.all), o + 4)
    BY <1>4 DEF Unpack, Found
  <1>6. ReadLeaf(field, data, o, sizes) = Read(v, o + 4)
    BY <1>2, <1>3, <1>5 DEF ReadLeaf
  <1> QED BY <1>1, <1>2, <1>6 DEF LeafIsReadBack

\* A float that is a single is read back.
LEMMA FloatIsReadBack ==
  ASSUME NEW field, NEW v, NEW sizes, NEW data \in Seq(Octet), NEW o \in Nat,
         field.type = "float", FitsLeaf(field, v), OnWireLeaf(field, v),
         Holds(data, o, WriteLeaf(field, v, sizes))
  PROVE  LeafIsReadBack(field, v, data, o, sizes)
  <1> DEFINE b == Pack(v[1], 4)
  <1>1. v[2] = 0
    BY DEF OnWireLeaf
  <1>2. v = <<v[1], 0>> /\ IsWord(v[1]) /\ WriteLeaf(field, v, sizes) = b
    BY <1>1, FloatIsPacked
  <1>3. b \in Seq(Octet) /\ Len(b) = 4 /\ Single(b) = v
    BY <1>2, PackFour DEF Single
  <1> HIDE DEF b
  <1>4. Found(data, o, 4, b)
    BY <1>2, <1>3, HeldBytes
  <1>5. Unpack(data, o, 4, Single) = Read(v, o + 4)
    BY <1>3, <1>4 DEF Unpack, Found
  <1>6. ReadLeaf(field, data, o, sizes) = Read(v, o + 4)
    BY <1>5 DEF ReadLeaf
  <1> QED BY <1>2, <1>3, <1>6 DEF LeafIsReadBack

\* read_long() and _read_id() read what was written, whatever the size of ids is.
LEMMA LongIsReadBack ==
  ASSUME NEW field, NEW v, NEW sizes, NEW data \in Seq(Octet), NEW o \in Nat,
         field.type \in {"long", "id"}, FitsLeaf(field, v),
         Holds(data, o, WriteLeaf(field, v, sizes))
  PROVE  LeafIsReadBack(field, v, data, o, sizes)
  <1>1. v = <<v[1], v[2]>> /\ IsWord(v[1]) /\ IsWord(v[2])
    BY DEF FitsLeaf
  <1>2. CASE WriteLeaf(field, v, sizes) = PackLong(v)
             /\ (field.type = "id" => sizes[field.kind] = 8)
    <2> DEFINE b == PackLong(v)
    <2>1. b \in Seq(Octet) /\ Len(b) = 8 /\ Halves(b) = v
      BY <1>1, PackLongIs
    <2> HIDE DEF b
    <2>2. Found(data, o, 8, b)
      BY <1>2, <2>1, HeldBytes DEF b
    <2>3. Unpack(data, o, 8, Halves) = Read(v, o + 8)
      BY <2>1, <2>2 DEF Unpack, Found
    <2>4. ReadLeaf(field, data, o, sizes) = Read(v, o + 8)
      BY <1>2, <2>3 DEF ReadLeaf, ReadId
    <2> QED BY <1>2, <2>1, <2>4 DEF LeafIsReadBack, b
  <1>3. CASE /\ WriteLeaf(field, v, sizes) = Pack(v[2], 4) /\ v[1] = 0
             /\ field.type = "id" /\ sizes[field.kind] # 8
    <2> DEFINE b == Pack(v[2], 4)
    <2>1. b \in Seq(Octet) /\ Len(b) = 4 /\ LowHalf(b) = v
      BY <1>1, <1>3, LowHalfIs
    <2> HIDE DEF b
    <2>2. Found(data, o, 4, b)
      BY <1>3, <2>1, HeldBytes DEF b
    <2>3. Unpack(data, o, 4, LowHalf) = Read(v, o + 4)
      BY <2>1, <2>2 DEF Unpack, Found
    <2>4. ReadLeaf(field, data, o, sizes) = Read(v, o + 4)
      BY <1>3, <2>3 DEF ReadLeaf, ReadId
    <2> QED BY <1>3, <2>1, <2>4 DEF LeafIsReadBack, b
  <1>4. WriteLeaf(field, v, sizes) # <<Raised>>
    BY NotRaised
  <1>5. CASE field.type = "long"
    <2>1. WriteLeaf(field, v, sizes) = PackLong(v)
      BY <1>5 DEF WriteLeaf
    <2> QED BY <1>2, <1>5, <2>1
  <1>6. CASE field.type = "id"
    <2>1. WriteLeaf(field, v, sizes) = WriteId(v, sizes[field.kind])
      BY <1>6 DEF WriteLeaf
    <2>2. CASE sizes[field.kind] = 8
      BY <1>2, <2>1, <2>2 DEF WriteId
    <2>3. CASE sizes[field.kind] = 4 /\ v[1] = 0
      BY <1>3, <1>6, <2>1, <2>3 DEF WriteId
    <2>4. CASE ~(sizes[field.kind] = 8) /\ ~(sizes[field.kind] = 4 /\ v[1] = 0)
      BY <1>4, <2>1, <2>4 DEF WriteId
    <2> QED BY <2>2, <2>3, <2>4
  <1> QED BY <1>5, <1>6

\* read_string() reads what write_string() wrote, and ends behind it.
LEMMA StringIsReadBack ==
  ASSUME NEW field, NEW v, NEW sizes, NEW data \in Seq(Octet), NEW o \in Nat,
         field.type = "string", FitsLeaf(field, v),
         Holds(data, o, WriteLeaf(field, v, sizes))
  PROVE  LeafIsReadBack(field, v, data, o, sizes)
  <1> DEFINE e == Encoded(v)
             n == Len(e)
             head == Pack(n, 4)
             far == 2 * Len(data) + 1
  <1>1. FitsLeaf(String, v)
    BY DEF FitsLeaf, String
  <1>2. /\ v \in Seq(CodePoint) /\ e \in Seq(Octet) /\ IsWord(n) /\ n \in Nat
        /\ head \in Seq(Octet) /\ Len(head) = 4
    BY <1>1, StringIs
  <1>3. Decodable(e) /\ Decoded(e) = v
    BY <1>2, EncodedIsDecodable, DecodedIsEncoded
  <1>4. WriteLeaf(field, v, sizes) = head \o e
    BY DEF WriteLeaf, WriteString
  <1> HIDE DEF e
  <1>5. Holds(data, o, head) /\ Holds(data, o + 4, e)
    <2> HIDE DEF head
    <2>1. Holds(data, o, head) /\ Holds(data, o + Len(head), e)
      BY <1>2, <1>4, HoldsConcat
    <2> QED BY <1>2, <2>1
  <1>6. ReadInt(data, o) = Read(n, o + 4)
    <2> HIDE DEF n
    <2> QED BY <1>2, <1>5, HeldInt
  <1>7. o + 4 \in Nat /\ Len(data) \in Nat /\ (o + 4) + n <= Len(data)
    BY <1>5 DEF Holds
  <1>8. Found(data, o + 4, n, e)
    BY <1>2, <1>5, <1>7, HeldBytes
  <1> HIDE DEF n, head
  <1>9. Slice(data, o + 4, (o + 4) + n) = e
    <2>1. At(data, o + 4) = o + 4 /\ At(data, (o + 4) + n) = (o + 4) + n
      BY <1>2, <1>7 DEF At
    <2>2. Slice(data, o + 4, (o + 4) + n) = SubSeq(data, (o + 4) + 1, (o + 4) + n)
      BY <1>2, <1>7, <2>1 DEF Slice
    <2> QED BY <1>8, <2>1, <2>2 DEF Found
  <1>10. (IF n > far THEN far ELSE IF n < -far THEN -far ELSE n) = n
    BY <1>2, <1>7
  <1> HIDE DEF far
  <1>11. ReadString(data, o)
           = IF Decodable(Slice(data, o + 4, (o + 4) + n))
             THEN Read(Decoded(Slice(data, o + 4, (o + 4) + n)), (o + 4) + n)
             ELSE Raise
    <2>1. /\ ReadInt(data, o).ok /\ ReadInt(data, o).value = n
          /\ ReadInt(data, o).offset = o + 4
      BY <1>6 DEF Read
    <2> QED BY <1>10, <2>1 DEF ReadString, far
  <1>12. ReadString(data, o) = Read(v, (o + 4) + n)
    BY <1>3, <1>9, <1>11
  <1>13. ReadLeaf(field, data, o, sizes) = Read(v, (o + 4) + n)
    BY <1>12 DEF ReadLeaf
  <1>14. (o + 4) + n = o + Len(WriteLeaf(field, v, sizes))
    <2>1. Len(head \o e) = Len(head) + Len(e)
      BY <1>2, ConcatProperties
    <2>2. Len(head \o e) = 4 + n
      BY <1>2, <2>1 DEF n
    <2> QED BY <1>2, <1>4, <2>2
  <1> QED BY <1>13, <1>14 DEF LeafIsReadBack

\* All of JdwpReader reads what JdwpWriter wrote.
LEMMA LeafReadsBack ==
  ASSUME NEW field, NEW v, NEW sizes, NEW data \in Seq(Octet), NEW o \in Nat,
         FitsLeaf(field, v), OnWireLeaf(field, v),
         Holds(data, o, WriteLeaf(field, v, sizes))
  PROVE  LeafIsReadBack(field, v, data, o, sizes)
  <1>1. field.type \in LeafTypes
    BY DEF FitsLeaf, LeafTypes
  <1> QED BY <1>1, ByteIsReadBack, BooleanIsReadBack, SmallIsReadBack,
             IntIsReadBack, FlagsAreReadBack, FloatIsReadBack, LongIsReadBack,
             StringIsReadBack DEF LeafTypes

\* Reading a leaf, found or not, ends at an integer offset or raises.
OffsetIsInt(r) == r.ok => r.offset \in Int

LEMMA SignedIsInt ==
  ASSUME NEW b \in Seq(Octet), Len(b) = 4
  PROVE  Signed(b) \in Int
  <1>1. PICK x, y, z, w \in Octet : b = <<x, y, z, w>>
    <2>1. b[1] \in Octet /\ b[2] \in Octet /\ b[3] \in Octet /\ b[4] \in Octet
      <3>1. \A i \in 1..Len(b) : b[i] \in Octet
        BY ElementOfSeq
      <3>2. 1 \in 1..Len(b) /\ 2 \in 1..Len(b) /\ 3 \in 1..Len(b) /\ 4 \in 1..Len(b)
        OBVIOUS
      <3> QED BY <3>1, <3>2, Zenon
    <2>2. b = <<b[1], b[2], b[3], b[4]>>
      OBVIOUS
    <2> QED BY <2>1, <2>2, Zenon
  <1>2. x \in Int /\ y \in Int /\ z \in Int /\ w \in Int
    BY OctetIs
  <1>3. Signed(b)
          = 16777216 * (IF x < 128 THEN x ELSE x - 256) + 65536 * y + 256 * z + w
    BY <1>1, FourDigits
  <1> QED BY <1>2, <1>3, SMT

\* A length or a count is a number, and the offset behind it too.
LEMMA ReadIntIsInt ==
  ASSUME NEW data \in Seq(Octet), NEW o \in Int, ReadInt(data, o).ok
  PROVE  ReadInt(data, o).value \in Int /\ ReadInt(data, o).offset \in Int
  <1> DEFINE b == SubSeq(data, At(data, o) + 1, At(data, o) + 4)
  <1>1. Within(data, o, 4)
    BY DEF ReadInt, Unpack, Raise
  <1>2. ReadInt(data, o) = Read(Signed(b), o + 4)
    BY <1>1 DEF ReadInt, Unpack
  <1>3. b \in Seq(Octet) /\ Len(b) = 4
    <2>1. Len(data) \in Nat /\ At(data, o) \in Nat /\ At(data, o) + 4 <= Len(data)
      BY <1>1 DEF Within, At
    <2> QED BY <2>1
  <1> HIDE DEF b
  <1> QED BY <1>2, <1>3, SignedIsInt DEF Read

LEMMA OffsetOfUnpack ==
  ASSUME NEW o \in Int, NEW w \in Nat, NEW v
  PROVE  OffsetIsInt(Read(v, o + w)) /\ OffsetIsInt(Raise)
  BY DEF OffsetIsInt, Read, Raise

\* The offset stays a number, whatever the bytes are.
LEMMA LeafOffset ==
  ASSUME NEW field, NEW sizes, NEW data \in Seq(Octet), NEW o \in Int
  PROVE  OffsetIsInt(ReadLeaf(field, data, o, sizes))
  <1>1. CASE field.type \in {"byte", "byteEnum"}
    <2>1. OffsetIsInt(ReadByte(data, o))
      BY OffsetOfUnpack DEF ReadByte, Unpack
    <2> QED BY <1>1, <2>1, OffsetOfUnpack DEF ReadLeaf, Member
  <1>2. CASE field.type \in {"int8", "int16", "uint16", "boolean", "flags", "float"}
    BY <1>2, OffsetOfUnpack DEF ReadLeaf, Unpack
  <1>3. CASE field.type \in {"long", "id"}
    BY <1>3, OffsetOfUnpack DEF ReadLeaf, ReadId, Unpack
  <1>4. CASE field.type \in {"int", "intEnum"}
    BY <1>4, ReadIntIsInt DEF OffsetIsInt, ReadLeaf, Member, Raise
  <1>5. CASE field.type = "string"
    BY <1>5, ReadIntIsInt DEF OffsetIsInt, ReadLeaf, ReadString, Read, Raise
  <1>6. CASE field.type \notin LeafTypes
    BY <1>6 DEF OffsetIsInt, ReadLeaf, Raise, LeafTypes
  <1> QED BY <1>1, <1>2, <1>3, <1>4, <1>5, <1>6 DEF LeafTypes

------------------------------------------------------------------------------
(* Leaves whose last bytes, or all, are missing                              *)

\* How many bytes a leaf other than a string is read from.
Width(field, sizes) ==
  CASE field.type \in {"byte", "byteEnum", "boolean", "int8"} -> 1
    [] field.type \in {"int16", "uint16"} -> 2
    [] field.type \in {"int", "intEnum", "flags", "float"} -> 4
    [] field.type = "long" -> 8
    [] field.type = "id" -> IF sizes[field.kind] = 8 THEN 8 ELSE 4

\* How many bytes are written for a field that is not a string.
LEMMA LeafWidth ==
  ASSUME NEW field, NEW v, NEW sizes, FitsLeaf(field, v), field.type # "string"
  PROVE  /\ Width(field, sizes) \in {1, 2, 4, 8}
         /\ Len(WriteLeaf(field, v, sizes)) \in {1, Width(field, sizes)}
  <1> DEFINE b == WriteLeaf(field, v, sizes)
             w == Width(field, sizes)
  <1>1. CASE field.type \in {"byte", "byteEnum", "boolean"}
    <2>1. b \in {<<v % 256>>, <<IF v THEN 1 ELSE 0>>} /\ w = 1
      BY <1>1 DEF WriteLeaf, Width
    <2> QED BY <2>1
  <1>2. CASE field.type = "int8"
    <2>1. Between(v, -128, 127) /\ b = Pack(v, 1) /\ w = 1
      BY <1>2 DEF FitsLeaf, WriteLeaf, Width
    <2> QED BY <2>1, PackOne
  <1>3. CASE field.type \in {"int16", "uint16"}
    <2>1. b = Pack(v, 2) /\ w = 2
      BY <1>3 DEF WriteLeaf, Width
    <2>2. Between(v, -32768, 65535)
      BY <1>3, SMT DEF FitsLeaf, Between
    <2> QED BY <2>1, <2>2, PackTwo
  <1>4. CASE field.type \in {"int", "intEnum", "flags"}
    <2>1. IsWord(v) /\ b = Pack(v, 4) /\ w = 4
      BY <1>4, IntIsPacked DEF Width
    <2> QED BY <2>1, PackFour
  <1>5. CASE field.type = "long"
    <2>1. /\ v = <<v[1], v[2]>> /\ IsWord(v[1]) /\ IsWord(v[2])
          /\ b = PackLong(v) /\ w = 8
      BY <1>5 DEF FitsLeaf, WriteLeaf, Width
    <2> QED BY <2>1, PackLongIs
  <1>6. CASE field.type = "id"
    <2>1. /\ v = <<v[1], v[2]>> /\ IsWord(v[1]) /\ IsWord(v[2])
          /\ b = WriteId(v, sizes[field.kind])
          /\ w = IF sizes[field.kind] = 8 THEN 8 ELSE 4
      BY <1>6 DEF FitsLeaf, WriteLeaf, Width
    <2> HIDE DEF b, w
    <2>2. \/ b = PackLong(v) /\ w = 8
          \/ b = Pack(v[2], 4) /\ w = 4
          \/ b = <<Raised>>
      <3> DEFINE size == sizes[field.kind]
      <3>0. b = WriteId(v, size) /\ w = IF size = 8 THEN 8 ELSE 4
        BY <2>1
      <3> HIDE DEF size
      <3>1. CASE size = 8
        <4>1. size # 4
          BY <3>1
        <4>2. WriteId(v, size) = PackLong(v)
          BY <3>1, <4>1 DEF WriteId
        <4> QED BY <3>0, <3>1, <4>2
      <3>2. CASE size = 4 /\ v[1] = 0
        <4>1. size # 8
          BY <3>2
        <4>2. WriteId(v, size) = Pack(v[2], 4)
          BY <3>2, <4>1 DEF WriteId
        <4> QED BY <3>0, <4>1, <4>2
      <3>3. CASE size # 8 /\ ~(size = 4 /\ v[1] = 0)
        <4>1. WriteId(v, size) = <<Raised>>
          BY <3>3 DEF WriteId
        <4> QED BY <3>0, <4>1
      <3> QED BY <3>1, <3>2, <3>3
    <2>3. Len(<<Raised>>) = 1
      OBVIOUS
    <2>4. Len(PackLong(v)) = 8 /\ Len(Pack(v[2], 4)) = 4
      BY <2>1, PackLongIs, PackFour
    <2>5. w \in {4, 8}
      BY <2>1
    <2> QED BY <2>2, <2>3, <2>4, <2>5 DEF b, w
  <1>7. CASE field.type = "float"
    <2>1. IsWord(v[1]) /\ b \in {Pack(v[1], 4), <<Raised>>} /\ w = 4
      BY <1>7, FloatIsPacked DEF Width
    <2>2. Len(Pack(v[1], 4)) = 4 /\ Len(<<Raised>>) = 1
      BY <2>1, PackFour
    <2> HIDE DEF b, w
    <2>3. w = 4 /\ Len(b) \in {1, 4}
      BY <2>1, <2>2
    <2> QED BY <2>3 DEF b, w
  <1> QED BY <1>1, <1>2, <1>3, <1>4, <1>5, <1>6, <1>7 DEF FitsLeaf

LEMMA TooShort ==
  ASSUME NEW data, Len(data) \in Nat, NEW o \in Nat, NEW w \in Nat, o + w > Len(data)
  PROVE  ~Within(data, o, w)
  BY DEF Within

\* No field but a string is read where bytes are missing: struct.unpack_from raises.
LEMMA LeafRaises ==
  ASSUME NEW field, NEW sizes, NEW data, Len(data) \in Nat, NEW o \in Nat,
         KnownLeaf(field), field.type # "string",
         o + Width(field, sizes) > Len(data)
  PROVE  ReadLeaf(field, data, o, sizes) = Raise
  <1> DEFINE w == Width(field, sizes)
  <1>1. w \in {1, 2, 4, 8}
    BY DEF Width, KnownLeaf, LeafTypes
  <1>2. ~Within(data, o, w)
    <2> HIDE DEF w
    <2>1. w \in Nat
      BY <1>1
    <2> QED BY <2>1, TooShort DEF w
  <1>3. Member(Raise, field.members) = Raise
    BY DEF Member, Raise
  <1> HIDE DEF w
  <1>4. CASE field.type \in {"byte", "byteEnum", "boolean", "int8"}
    <2>1. w = 1
      BY <1>4 DEF w, Width
    <2> QED BY <1>2, <1>3, <1>4, <2>1 DEF ReadLeaf, ReadByte, Unpack
  <1>5. CASE field.type \in {"int16", "uint16"}
    <2>1. w = 2
      BY <1>5 DEF w, Width
    <2> QED BY <1>2, <1>5, <2>1 DEF ReadLeaf, Unpack
  <1>6. CASE field.type \in {"int", "intEnum", "flags", "float"}
    <2>1. w = 4
      BY <1>6 DEF w, Width
    <2> QED BY <1>2, <1>3, <1>6, <2>1 DEF ReadLeaf, ReadInt, Unpack
  <1>7. CASE field.type = "long"
    <2>1. w = 8
      BY <1>7 DEF w, Width
    <2> QED BY <1>2, <1>7, <2>1 DEF ReadLeaf, Unpack
  <1>8. CASE field.type = "id"
    <2>1. w = IF sizes[field.kind] = 8 THEN 8 ELSE 4
      BY <1>8 DEF w, Width
    <2> QED BY <1>2, <1>8, <2>1 DEF ReadLeaf, ReadId, Unpack
  <1> QED BY <1>4, <1>5, <1>6, <1>7, <1>8 DEF KnownLeaf, LeafTypes

\* Nothing is read of a leaf behind the end of the data.
LEMMA LeafIsMissing ==
  ASSUME NEW field, NEW sizes, NEW data, Len(data) \in Nat, NEW o \in Nat,
         KnownLeaf(field), o > Len(data)
  PROVE  ~ReadLeaf(field, data, o, sizes).ok
  <1>1. CASE field.type # "string"
    <2> DEFINE w == Width(field, sizes)
    <2>1. w \in {1, 2, 4, 8}
      BY <1>1 DEF Width, KnownLeaf, LeafTypes
    <2> HIDE DEF w
    <2>2. o + w > Len(data)
      BY <2>1
    <2>3. ReadLeaf(field, data, o, sizes) = Raise
      BY <1>1, <2>2, LeafRaises DEF w
    <2> QED BY <2>3 DEF Raise
  <1>2. CASE field.type = "string"
    <2>1. ~Within(data, o, 4)
      BY TooShort
    <2>2. ReadInt(data, o) = Raise
      BY <2>1 DEF ReadInt, Unpack
    <2>3. ~ReadInt(data, o).ok
      BY <2>2 DEF Raise
    <2>4. ReadLeaf(field, data, o, sizes) = Raise
      BY <1>2, <2>3 DEF ReadLeaf, ReadString
    <2> QED BY <2>4 DEF Raise
  <1> QED BY <1>1, <1>2

\* A string's first bytes are read, if they are, as its first code points.
LEMMA PrefixIsEncoded ==
  ASSUME NEW s \in Seq(CodePoint), NEW m \in Nat, m < Len(Encoded(s)),
         Decodable(SubSeq(Encoded(s), 1, m))
  PROVE  \E j \in Nat : /\ j < Len(s)
                        /\ SubSeq(Encoded(s), 1, m) = Encoded(SubSeq(s, 1, j))
  <1> DEFINE n == Len(s)
             e == Encoded(s)
             p == Utf8Of(s)
             b == SubSeq(e, 1, m)
  <1>1. PICK F : Puts(F, p, n, Octet) /\ e = F[n]
    BY EncodedParts
  <1>2. n \in Nat
    BY EncodedParts
  <1>3. HasLengths(F, p, n, Octet)
    BY <1>1, <1>2, PutsLengths
  <1>4. e \in Seq(Octet) /\ Len(e) \in Nat /\ m < Len(e)
    <2>1. n \in 0..n
      BY <1>2
    <2> QED BY <1>1, <1>3, <2>1 DEF HasLengths
  <1> HIDE DEF e, p
  <1>5. Len(b) = m /\ \A i \in 1..m : b[i] = e[i]
    BY <1>4
  <1>6. \E j \in 0..n : Len(F[j]) = m
    <2>1. CASE m = 0
      <3>1. 0 \in 0..n /\ Len(F[0]) = 0
        BY <1>2, <1>3 DEF HasLengths
      <3> QED BY <2>1, <3>1
    <2>2. CASE m # 0
      <3>1. m \in 1..Len(F[n])
        BY <1>1, <1>4, <2>2
      <3>2. PICK k \in 1..n : \E i \in 1..Len(p[k]) : m = Len(F[k - 1]) + i
        <4> HIDE DEF n
        <4>1. Puts(F, p, n, Octet)
          BY <1>1
        <4> QED BY <1>2, <3>1, <4>1, PutsCovers
      <3>3. IsPart(F, p, k, Octet)
        BY <1>1, <1>2, PutsPart
      <3>4. PICK a \in Nat : a = Len(F[k - 1])
        BY <3>3 DEF IsPart
      <3>5. Len(F[k]) = a + Len(p[k]) /\ Len(p[k]) \in Nat
        BY <3>3, <3>4 DEF IsPart
      <3>6. PICK i \in 1..Len(p[k]) : m = a + i
        BY <3>2, <3>4
      <3>7. CodePointAt(F, n, k, s[k])
        BY <1>1, <1>2, EncodedCodePoint DEF p
      <3>8. Len(F[k]) = m
        <4>1. CASE Len(F[k]) = a + 1
          BY <3>5, <3>6, <4>1
        <4>2. CASE PairAt(e, a, s[k]) /\ Len(F[k]) = a + 2
          <5>1. i = 1 \/ i = 2
            BY <3>5, <3>6, <4>2
          <5>2. CASE i = 1
            <6>1. m = a + 1 /\ m \in 1..Len(b)
              BY <1>5, <2>2, <3>6, <5>2
            <6>2. PICK h \in Octet : h = b[m] /\ 194 <= h
              BY <1>5, <4>2, <6>1 DEF PairAt
            <6>3. b[m] >= 194
              BY <6>2, OctetIs
            <6>4. m < Len(b)
              <7>1. Decodable(b)
                BY DEF e
              <7> HIDE DEF b
              <7> QED BY <6>1, <6>3, <7>1 DEF Decodable
            <6> QED BY <1>5, <6>4
          <5>3. CASE i = 2
            BY <3>6, <4>2, <5>3
          <5> QED BY <5>1, <5>2, <5>3
        <4> QED BY <1>1, <3>4, <3>7, <4>1, <4>2 DEF CodePointAt
      <3>9. k \in 0..n
        OBVIOUS
      <3> QED BY <3>8, <3>9
    <2> QED BY <2>1, <2>2
  <1>7. PICK j \in 0..n : Len(F[j]) = m
    BY <1>6
  <1>8. j \in Nat /\ j < n
    BY <1>1, <1>2, <1>4, <1>7
  <1>9. b = F[j]
    <2>1. F[j] \in Seq(Octet)
      BY <1>3 DEF HasLengths
    <2>2. Agrees(e, 0, F[n])
      <3>1. \A i \in 1..Len(e) : 0 + i = i
        BY <1>4
      <3> QED BY <1>1, <3>1 DEF Agrees
    <2>3. Agrees(e, 0, F[j])
      BY <1>1, <1>2, <1>4, <2>2, PutsPrefix
    <2>4. Holds(e, 0, F[j])
      BY <1>4, <1>7, <2>3 DEF Holds
    <2>5. Found(e, 0, m, F[j])
      BY <1>4, <1>7, <2>1, <2>4, HeldBytes
    <2>6. At(e, 0) + 1 = 1 /\ At(e, 0) + m = m
      BY DEF At
    <2> QED BY <2>5, <2>6 DEF Found
  <1>10. F[j] = Encoded(SubSeq(s, 1, j))
    <2> DEFINE t == SubSeq(s, 1, j)
    <2>1. t \in Seq(CodePoint) /\ Len(t) = j /\ \A k \in 1..j : t[k] = s[k]
      BY <1>8
    <2> HIDE DEF t
    <2>2. PICK G : Puts(G, Utf8Of(t), j, Octet) /\ Encoded(t) = G[j]
      BY <2>1, EncodedParts
    <2>3. \A k \in 1..j : Utf8Of(t)[k] = p[k]
      BY <1>8, <2>1 DEF Utf8Of, p
    <2>4. G[j] = F[j]
      BY <1>1, <1>2, <1>8, <2>2, <2>3, PutsSame
    <2> QED BY <2>2, <2>4 DEF t
  <1> QED BY <1>8, <1>9, <1>10 DEF e

\* What is left of a string that lost bytes, if it decodes, is the beginning of it.
LEMMA DecodedPrefix ==
  ASSUME NEW s \in Seq(CodePoint), NEW m \in Nat, m < Len(Encoded(s)),
         Decodable(SubSeq(Encoded(s), 1, m))
  PROVE  IsStrictPrefix(Decoded(SubSeq(Encoded(s), 1, m)), s)
  <1>1. PICK j \in Nat : /\ j < Len(s)
                         /\ SubSeq(Encoded(s), 1, m) = Encoded(SubSeq(s, 1, j))
    BY PrefixIsEncoded
  <1> DEFINE t == SubSeq(s, 1, j)
  <1>2. /\ t \in Seq(CodePoint) /\ Len(t) = j /\ t # s
        /\ SubSeq(t, 1, Len(t)) = SubSeq(s, 1, Len(t))
    BY <1>1
  <1>3. Decoded(Encoded(t)) = t
    <2> HIDE DEF t
    <2> QED BY <1>2, DecodedIsEncoded
  <1>4. IsStrictPrefix(t, s)
    BY <1>1, <1>2 DEF IsStrictPrefix, IsPrefix
  <1> QED BY <1>1, <1>3, <1>4

\* What is read of a leaf whose last bytes are missing.
LeafIsCutShort(field, v, data, o, sizes) ==
  LET r == ReadLeaf(field, data, o, sizes)
  IN  r.ok => /\ LosesEndLeaf(field, v, r.value, sizes)
              /\ r.offset \in Int /\ r.offset > Len(data)

\* The slice of a string that goes on behind the end of the data.
LEMMA CutSlice ==
  ASSUME NEW data \in Seq(Octet), NEW start \in Nat, start <= Len(data),
         NEW e \in Seq(Octet), Agrees(data, start, e),
         start + Len(e) > Len(data), NEW end \in Int, end > Len(data)
  PROVE  \E m \in Nat : m < Len(e) /\ Slice(data, start, end) = SubSeq(e, 1, m)
  <1>1. Len(data) \in Nat /\ Len(e) \in Nat
    OBVIOUS
  <1>2. At(data, start) = start /\ At(data, end) = end
    BY <1>1 DEF At
  <1>3. Slice(data, start, end) = SubSeq(data, start + 1, Len(data))
    <2>1. (IF At(data, start) < 0 THEN 0
           ELSE IF start > Len(data) THEN Len(data) ELSE At(data, start)) = start
      BY <1>1, <1>2
    <2>2. (IF At(data, end) < 0 THEN 0
           ELSE IF end > Len(data) THEN Len(data) ELSE At(data, end)) = Len(data)
      BY <1>1, <1>2
    <2> QED BY <2>1, <2>2 DEF Slice
  <1>4. PICK m \in Nat : m = Len(data) - start
    BY <1>1
  <1>5. m < Len(e)
    BY <1>1, <1>4
  <1> DEFINE x == SubSeq(data, start + 1, Len(data))
             y == SubSeq(e, 1, m)
  <1>6. x \in Seq(Octet) /\ Len(x) = m /\ \A i \in 1..m : x[i] = data[start + i]
    BY <1>1, <1>4
  <1>7. y \in Seq(Octet) /\ Len(y) = m /\ \A i \in 1..m : y[i] = e[i]
    BY <1>1, <1>5
  <1>8. \A i \in 1..m : data[start + i] = e[i]
    BY <1>1, <1>4, <1>5 DEF Agrees
  <1> HIDE DEF x, y
  <1>9. x = y
    <2>1. Len(x) = Len(y) /\ \A i \in 1..Len(x) : x[i] = y[i]
      BY <1>6, <1>7, <1>8
    <2> QED BY <1>6, <1>7, <2>1, SeqEqual, Zenon
  <1> QED BY <1>3, <1>5, <1>9 DEF x, y

\* read_string() of too few bytes raises or gives a shorter string.
LEMMA StringIsCut ==
  ASSUME NEW field, NEW v, NEW sizes, NEW data \in Seq(Octet), NEW o \in Nat,
         field.type = "string", FitsLeaf(field, v),
         Agrees(data, o, WriteLeaf(field, v, sizes)),
         o + Len(WriteLeaf(field, v, sizes)) > Len(data)
  PROVE  LeafIsCutShort(field, v, data, o, sizes)
  <1> DEFINE e == Encoded(v)
             n == Len(e)
             head == Pack(n, 4)
             far == 2 * Len(data) + 1
             r == ReadLeaf(field, data, o, sizes)
  <1>0. r = ReadString(data, o)
    BY DEF ReadLeaf
  <1>1. FitsLeaf(String, v)
    BY DEF FitsLeaf, String
  <1>2. /\ v \in Seq(CodePoint) /\ e \in Seq(Octet) /\ IsWord(n) /\ n \in Nat
        /\ head \in Seq(Octet) /\ Len(head) = 4 /\ Len(data) \in Nat
    BY <1>1, StringIs
  <1>3. WriteLeaf(field, v, sizes) = head \o e
    BY DEF WriteLeaf, WriteString
  <1> HIDE DEF e, r
  <1>4. /\ Agrees(data, o, head) /\ Agrees(data, o + 4, e)
        /\ Len(head \o e) = 4 + n
    <2> HIDE DEF head
    <2>1. Agrees(data, o, head) /\ Agrees(data, o + Len(head), e)
      BY <1>2, <1>3, AgreesConcat
    <2>2. Len(head \o e) = Len(head) + Len(e)
      BY <1>2, ConcatProperties
    <2> QED BY <1>2, <2>1, <2>2
  <1>5. (o + 4) + n > Len(data)
    BY <1>2, <1>3, <1>4
  <1> HIDE DEF n
  <1>6. CASE o + 4 > Len(data)
    <2>1. ~Within(data, o, 4)
      BY <1>2, <1>6, TooShort
    <2>2. ~ReadInt(data, o).ok
      BY <2>1 DEF ReadInt, Unpack, Raise
    <2>3. r = Raise
      BY <1>0, <2>2 DEF ReadString
    <2> QED BY <2>3 DEF LeafIsCutShort, Raise, r
  <1>7. CASE o + 4 <= Len(data)
    <2> DEFINE end == (o + 4) + (IF n > far THEN far ELSE IF n < -far THEN -far ELSE n)
               slice == Slice(data, o + 4, end)
    <2>1. Holds(data, o, head)
      BY <1>2, <1>4, <1>7 DEF Holds
    <2>2. ReadInt(data, o) = Read(n, o + 4)
      BY <1>2, <2>1, HeldInt
    <2>3. ReadString(data, o) = IF Decodable(slice) THEN Read(Decoded(slice), end) ELSE Raise
      <3>1. /\ ReadInt(data, o).ok /\ ReadInt(data, o).value = n
            /\ ReadInt(data, o).offset = o + 4
        BY <2>2 DEF Read
      <3> QED BY <3>1 DEF ReadString
    <2>4. end \in Int /\ end > Len(data)
      <3>1. PICK l \in Nat : l = Len(data)
        BY <1>2
      <3>2. (o + 4) + n > l /\ o + 4 <= l
        BY <1>5, <1>7, <3>1
      <3>3. end = (o + 4) + (IF n > 2 * l + 1 THEN 2 * l + 1
                             ELSE IF n < -(2 * l + 1) THEN -(2 * l + 1) ELSE n)
        BY <3>1
      <3> HIDE DEF end
      <3>4. end \in Int /\ end > l
        BY <1>2, <3>2, <3>3
      <3> QED BY <3>1, <3>4
    <2> HIDE DEF end
    <2>5. PICK m \in Nat : m < Len(e) /\ slice = SubSeq(e, 1, m)
      BY <1>2, <1>4, <1>5, <1>7, <2>4, CutSlice DEF n
    <2> HIDE DEF slice
    <2>6. CASE Decodable(slice)
      <3>1. r = Read(Decoded(slice), end)
        BY <1>0, <2>3, <2>6
      <3>2. IsStrictPrefix(Decoded(slice), v)
        BY <1>2, <2>5, <2>6, DecodedPrefix DEF e
      <3>3. LosesEndLeaf(field, v, Decoded(slice), sizes)
        BY <3>2 DEF LosesEndLeaf
      <3>4. r.value = Decoded(slice) /\ r.offset = end
        BY <3>1 DEF Read
      <3> QED BY <2>4, <3>3, <3>4 DEF LeafIsCutShort, r
    <2>7. CASE ~Decodable(slice)
      <3>1. r = Raise
        BY <1>0, <2>3, <2>7
      <3> QED BY <3>1 DEF LeafIsCutShort, Raise, r
    <2> QED BY <2>6, <2>7
  <1> QED BY <1>2, <1>6, <1>7

\* A leaf whose last bytes are missing is not read, unless it is a string.
LEMMA LeafIsCut ==
  ASSUME NEW field, NEW v, NEW sizes, NEW data \in Seq(Octet), NEW o \in Nat,
         FitsLeaf(field, v), o <= Len(data),
         Agrees(data, o, WriteLeaf(field, v, sizes)),
         o + Len(WriteLeaf(field, v, sizes)) > Len(data)
  PROVE  LeafIsCutShort(field, v, data, o, sizes)
  <1>1. CASE field.type = "string"
    BY <1>1, StringIsCut
  <1>2. CASE field.type # "string"
    <2> DEFINE w == Width(field, sizes)
    <2>1. w \in {1, 2, 4, 8} /\ Len(WriteLeaf(field, v, sizes)) \in {1, w}
      BY <1>2, LeafWidth
    <2>2. Len(data) \in Nat
      OBVIOUS
    <2> HIDE DEF w
    <2>3. o + w > Len(data)
      <3> DEFINE l == Len(data)
                 a == Len(WriteLeaf(field, v, sizes))
      <3>1. a \in {1, w} /\ l \in Nat /\ o + a > l
        BY <2>1, <2>2
      <3> HIDE DEF l, a
      <3>2. o + w > l
        BY <2>1, <3>1
      <3> QED BY <3>2 DEF l
    <2>4. KnownLeaf(field)
      BY DEF FitsLeaf, KnownLeaf, LeafTypes
    <2>5. ReadLeaf(field, data, o, sizes) = Raise
      BY <1>2, <2>2, <2>3, <2>4, LeafRaises DEF w
    <2> QED BY <2>5 DEF LeafIsCutShort, Raise
  <1> QED BY <1>1, <1>2

\* Empty parts come to nothing.
LEMMA PutsNothing ==
  ASSUME NEW S, NEW n \in Nat, NEW p, NEW F, Puts(F, p, n, S),
         \A k \in 1..n : p[k] = <<>>
  PROVE  F[n] = <<>>
  <1>1. HasLengths(F, p, n, S)
    BY PutsLengths
  <1> DEFINE Empty == {m \in Nat : m <= n => Len(F[m]) = 0}
  <1>2. 0 \in Empty
    BY <1>1 DEF HasLengths
  <1>3. ASSUME NEW m \in Nat, m \in Empty PROVE m + 1 \in Empty
    <2> SUFFICES ASSUME m + 1 <= n PROVE Len(F[m + 1]) = 0
      OBVIOUS
    <2>1. PICK k \in 1..n : k = m + 1 /\ k - 1 = m
      OBVIOUS
    <2>2. p[k] = <<>> /\ Len(F[m]) = 0
      BY <1>3
    <2>3. Len(p[k]) = 0
      BY <2>2
    <2>4. Len(F[k]) = Len(F[k - 1]) + Len(p[k])
      BY <1>1 DEF HasLengths
    <2> QED BY <2>1, <2>2, <2>3, <2>4
  <1> HIDE DEF Empty
  <1>4. n \in Empty
    BY <1>2, <1>3, AllNaturals
  <1>5. Len(F[n]) = 0 /\ F[n] \in Seq(S)
    <2>1. n \in 0..n /\ n <= n
      OBVIOUS
    <2> QED BY <1>1, <1>4, <2>1 DEF Empty, HasLengths
  <1> QED BY <1>5, EmptySeq
==============================================================================
