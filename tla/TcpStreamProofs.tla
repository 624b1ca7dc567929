-------------------------- MODULE TcpStreamProofs ---------------------------
(***************************************************************************)
(* Facts about the messages and the parts of a TCP channel: what is        *)
(* chosen from a queue, how messages follow each other in a stream, and    *)
(* that a call of _SendMessages() or _ReceiveMessages() keeps it one.      *)
(***************************************************************************)
EXTENDS TcpStream, FiniteSetTheorems, SequenceTheorems, WellFoundedInduction, TLAPS

-----------------------------------------------------------------------------
(* Numbers *)

\* A set of numbers that has 0 and the successors has every number: otherwise
\* there is a first one that is missing, for strict inclusion of finite sets is
\* well founded.
LEMMA EveryNumber ==
    ASSUME NEW P \in SUBSET Nat, 0 \in P, \A k \in P : k + 1 \in P,
           NEW n \in Nat
    PROVE  n \in P
<1> SUFFICES ASSUME n \notin P PROVE FALSE
  OBVIOUS
<1> DEFINE S == {k \in 0..n : k \notin P}
           Below(k) == {j \in S : j <= k}
           T == {Below(k) : k \in S}
           U == FiniteSubsetsOf(S)
<1>1. n \in S /\ S \subseteq Nat
  OBVIOUS
<1>2. IsFiniteSet(S)
  <2>1. IsFiniteSet(0..n)
    BY FS_Interval
  <2> QED
    BY <2>1, FS_Subset
<1>3. U = SUBSET S
  BY <1>2, FS_FiniteSubsetsOfFinite
<1>4. IsWellFoundedOn(StrictSubsetOrdering(S), U)
  BY FS_StrictSubsetOrderingWellFounded
<1>5. T \subseteq U /\ T # {}
  <2>1. \A k \in S : Below(k) \in SUBSET S
    OBVIOUS
  <2>2. T # {}
    BY <1>1
  <2> HIDE DEF U, S
  <2> QED
    BY <1>3, <2>1, <2>2
<1>6. PICK x \in T : \A y \in T : ~ (<<y, x>> \in StrictSubsetOrdering(S))
  <2> HIDE DEF T, U
  <2> QED
    BY <1>4, <1>5, WFMin
<1>7. PICK k \in S : x = Below(k)
  BY <1>6
<1>8. k \in Nat /\ k # 0 /\ k - 1 \in Nat /\ k - 1 <= n
  BY <1>7
<1>9. k - 1 \in S
  <2>1. k - 1 \notin P
    BY <1>7, <1>8
  <2> QED
    BY <1>8, <2>1
<1>10. Below(k - 1) \subseteq x /\ k \in x /\ k \notin Below(k - 1)
  <2>1. k \in Below(k) /\ k \notin Below(k - 1)
    BY <1>7, <1>8
  <2>2. \A i \in S : i <= k - 1 => i <= k
    BY <1>1, <1>8
  <2> HIDE DEF S
  <2> QED
    BY <1>7, <2>1, <2>2
<1>11. <<Below(k - 1), x>> \in StrictSubsetOrdering(S)
  <2> HIDE DEF S
  <2> QED
    BY <1>3, <1>5, <1>10 DEF StrictSubsetOrdering
<1> QED
  BY <1>6, <1>9, <1>11

\* Quotient and remainder of a number that is put together from them.
LEMMA Divided ==
    ASSUME NEW m \in Nat \ {0}, NEW a \in Nat, NEW r \in 0..(m - 1)
    PROVE  /\ (a * m + r) \div m = a
           /\ (a * m + r) % m = r
  OBVIOUS

\* Multiples of a number.
LEMMA Multiple ==
    ASSUME NEW m \in Nat \ {0}, NEW a \in Nat, NEW b \in Nat
    PROVE  /\ a * m \in Nat
           /\ (a + b) * m = a * m + b * m
           /\ a * m <= b * m <=> a <= b
  OBVIOUS

\* A number is a multiple and a remainder.
LEMMA Remainder ==
    ASSUME NEW m \in Nat \ {0}, NEW a \in Nat
    PROVE  /\ a \div m \in Nat /\ a % m \in 0..(m - 1)
           /\ a = (a \div m) * m + (a % m)
  BY Z3

-----------------------------------------------------------------------------
(* The elements that are chosen from a sequence *)

\* Messages as the producers make them.
Message == [n : Nat, to : Int, fits : BOOLEAN]

\* The choice of Chosen, element by element.
Elem(s, I, j) == IF j \in I THEN <<s[j]>> ELSE <<>>

Upto(g, s, I, n) ==
    g = [j \in 0..n |-> IF j = 0 THEN <<>> ELSE g[j - 1] \o Elem(s, I, j)]

IsChoosing(g, s, I) == Upto(g, s, I, Len(s))

Choosing(s, I) == CHOOSE g : IsChoosing(g, s, I)

\* Chosen is the last of these sequences, that exist ...
LEMMA ChosenIsLast ==
    ASSUME NEW s, NEW I
    PROVE  Chosen(s, I) = Choosing(s, I)[Len(s)]
  BY DEF Chosen, Choosing, IsChoosing, Upto, Elem

LEMMA ChoosingExists ==
    ASSUME NEW s, Len(s) \in Nat, NEW I
    PROVE  IsChoosing(Choosing(s, I), s, I)
<1> DEFINE Step(g, j) == IF j = 0 THEN <<>> ELSE g[j - 1] \o Elem(s, I, j)
           P == {n \in Nat : \E g : Upto(g, s, I, n)}
<1>1. 0 \in P
  <2> DEFINE g == [j \in 0..0 |-> <<>>]
  <2>1. Upto(g, s, I, 0)
    BY DEF Upto
  <2> HIDE DEF g
  <2> QED
    BY <2>1
<1>2. ASSUME NEW n \in P PROVE n + 1 \in P
  <2>1. PICK g : Upto(g, s, I, n)
    BY <1>2
  <2>2. n \in Nat /\ g = [j \in 0..n |-> Step(g, j)]
    BY <1>2, <2>1 DEF Upto
  <2> DEFINE h == [j \in 0..(n + 1) |-> IF j = n + 1 THEN Step(g, n + 1) ELSE g[j]]
  <2>3. ASSUME NEW j \in 0..(n + 1) PROVE h[j] = Step(h, j)
    <3>1. CASE j = 0
      <4>1. h[0] = g[0] /\ g[0] = <<>>
        BY <2>2, <3>1
      <4> QED
        BY <3>1, <4>1
    <3>2. CASE j # 0
      <4>1. j - 1 \in 0..n /\ h[j - 1] = g[j - 1]
        BY <2>2, <3>2
      <4>2. Step(h, j) = Step(g, j)
        <5> HIDE DEF h
        <5> QED
          BY <3>2, <4>1
      <4>3. h[j] = Step(g, j)
        <5>1. CASE j = n + 1
          BY <5>1
        <5>2. CASE j # n + 1
          <6>1. j \in 0..n /\ h[j] = g[j]
            BY <2>2, <5>2
          <6> HIDE DEF Step
          <6> QED
            BY <2>2, <6>1
        <5> QED
          BY <5>1, <5>2
      <4> QED
        BY <4>2, <4>3
    <3> QED
      BY <3>1, <3>2
  <2>4. Upto(h, s, I, n + 1)
    <3>1. h = [j \in 0..(n + 1) |-> Step(h, j)]
      <4> HIDE DEF Step
      <4> QED
        BY <2>3
    <3> QED
      BY <3>1 DEF Upto
  <2> HIDE DEF h
  <2> QED
    BY <2>2, <2>4
<1>3. Len(s) \in P
  <2>1. P \in SUBSET Nat
    OBVIOUS
  <2> HIDE DEF P
  <2> QED
    BY <1>1, <1>2, <2>1, EveryNumber
<1> QED
  BY <1>3 DEF IsChoosing, Choosing

\* ... and each adds its element to the one before.
LEMMA ChoosingStep ==
    ASSUME NEW s, Len(s) \in Nat, NEW I
    PROVE  /\ Choosing(s, I)[0] = <<>>
           /\ \A j \in 1..Len(s) :
                 Choosing(s, I)[j] = Choosing(s, I)[j - 1] \o Elem(s, I, j)
<1> DEFINE g == Choosing(s, I)
<1>1. g = [j \in 0..Len(s) |-> IF j = 0 THEN <<>> ELSE g[j - 1] \o Elem(s, I, j)]
  BY ChoosingExists DEF IsChoosing, Upto
<1> HIDE DEF g
<1>2. g[0] = <<>>
  BY <1>1
<1>3. ASSUME NEW j \in 1..Len(s) PROVE g[j] = g[j - 1] \o Elem(s, I, j)
  <2>1. j \in 0..Len(s) /\ j # 0
    OBVIOUS
  <2>2. g[j] = IF j = 0 THEN <<>> ELSE g[j - 1] \o Elem(s, I, j)
    BY <1>1, <2>1
  <2> QED
    BY <2>1, <2>2
<1> QED
  BY <1>2, <1>3 DEF g

\* What is chosen are elements of the sequence.
LEMMA ChosenType ==
    ASSUME NEW s \in Seq(Message), NEW I
    PROVE  Chosen(s, I) \in Seq(Message)
<1> DEFINE g == Choosing(s, I)
           P == {n \in Nat : n <= Len(s) => g[n] \in Seq(Message)}
<1>1. Len(s) \in Nat /\ \A j \in 1..Len(s) : s[j] \in Message
  OBVIOUS
<1>2. g[0] = <<>> /\ \A j \in 1..Len(s) : g[j] = g[j - 1] \o Elem(s, I, j)
  BY <1>1, ChoosingStep
<1>3. \A j \in 1..Len(s) : Elem(s, I, j) \in Seq(Message)
  BY <1>1 DEF Elem
<1>4. g[Len(s)] = Chosen(s, I)
  BY ChosenIsLast
<1> HIDE DEF g
<1>5. 0 \in P
  BY <1>2, EmptySeq
<1>6. ASSUME NEW n \in P PROVE n + 1 \in P
  <2> SUFFICES ASSUME n + 1 <= Len(s) PROVE g[n + 1] \in Seq(Message)
    OBVIOUS
  <2>1. n \in Nat /\ n + 1 \in 1..Len(s) /\ g[n] \in Seq(Message) /\ (n + 1) - 1 = n
    BY <1>1, <1>6
  <2>2. g[n + 1] = g[n] \o Elem(s, I, n + 1) /\ Elem(s, I, n + 1) \in Seq(Message)
    BY <1>2, <1>3, <2>1
  <2> QED
    BY <2>1, <2>2, ConcatProperties
<1>7. Len(s) \in P
  <2>1. P \in SUBSET Nat
    OBVIOUS
  <2> HIDE DEF P
  <2> QED
    BY <1>1, <1>5, <1>6, <2>1, EveryNumber
<1> QED
  BY <1>1, <1>4, <1>7

\* What is chosen from two parts of a sequence.
LEMMA ChosenConcat ==
    ASSUME NEW a \in Seq(Message), NEW b \in Seq(Message), NEW I, NEW J, NEW K,
           \A j \in 1..Len(a) : j \in K <=> j \in I,
           \A j \in 1..Len(b) : Len(a) + j \in K <=> j \in J
    PROVE  Chosen(a \o b, K) = Chosen(a, I) \o Chosen(b, J)
<1> DEFINE s == a \o b
           g == Choosing(s, K)
           x == Choosing(a, I)
           y == Choosing(b, J)
<1>1. /\ s \in Seq(Message) /\ Len(s) = Len(a) + Len(b) /\ Len(s) \in Nat
      /\ Len(a) \in Nat /\ Len(b) \in Nat
      /\ \A j \in 1..Len(a) : s[j] = a[j]
      /\ \A j \in 1..Len(b) : s[Len(a) + j] = b[j]
  BY ConcatProperties
<1> HIDE DEF s
<1>2. /\ g[0] = <<>> /\ \A j \in 1..Len(s) : g[j] = g[j - 1] \o Elem(s, K, j)
  BY <1>1, ChoosingStep
<1>3. /\ x[0] = <<>> /\ \A j \in 1..Len(a) : x[j] = x[j - 1] \o Elem(a, I, j)
  BY <1>1, ChoosingStep
<1>4. /\ y[0] = <<>> /\ \A j \in 1..Len(b) : y[j] = y[j - 1] \o Elem(b, J, j)
  BY <1>1, ChoosingStep
<1>5. /\ \A j \in 1..Len(a) : Elem(s, K, j) = Elem(a, I, j)
      /\ \A j \in 1..Len(b) : Elem(s, K, Len(a) + j) = Elem(b, J, j)
  BY <1>1 DEF Elem
<1>6. /\ Chosen(s, K) = g[Len(s)]
      /\ Chosen(a, I) = x[Len(a)]
      /\ Chosen(b, J) = y[Len(b)]
  BY ChosenIsLast
<1>7. \A j \in 1..Len(b) : Elem(b, J, j) \in Seq(Message)
  <2>1. \A j \in 1..Len(b) : b[j] \in Message
    OBVIOUS
  <2> QED
    BY <2>1 DEF Elem
<1>8. Chosen(a, I) \in Seq(Message)
  BY ChosenType
<1> HIDE DEF g, x, y
<1>9. g[Len(a)] = x[Len(a)]
  <2> DEFINE P == {n \in Nat : n <= Len(a) => g[n] = x[n]}
  <2>1. 0 \in P
    BY <1>2, <1>3
  <2>2. ASSUME NEW n \in P PROVE n + 1 \in P
    <3> SUFFICES ASSUME n + 1 <= Len(a) PROVE g[n + 1] = x[n + 1]
      OBVIOUS
    <3>1. n + 1 \in 1..Len(a) /\ n + 1 \in 1..Len(s) /\ g[n] = x[n]
          /\ (n + 1) - 1 = n
      BY <1>1, <2>2
    <3>2. g[n + 1] = g[n] \o Elem(s, K, n + 1)
      BY <1>2, <3>1
    <3>3. x[n + 1] = x[n] \o Elem(a, I, n + 1)
      BY <1>3, <3>1
    <3> QED
      BY <1>5, <3>1, <3>2, <3>3
  <2>3. P \in SUBSET Nat
    OBVIOUS
  <2> HIDE DEF P
  <2>4. Len(a) \in P
    BY <1>1, <2>1, <2>2, <2>3, EveryNumber
  <2> QED
    BY <1>1, <2>4 DEF P
<1>10. g[Len(s)] = x[Len(a)] \o y[Len(b)]
  <2> DEFINE P == {n \in Nat : n <= Len(b) => /\ y[n] \in Seq(Message)
                                              /\ g[Len(a) + n] = x[Len(a)] \o y[n]}
  <2>1. 0 \in P
    <3>1. y[0] \in Seq(Message) /\ x[Len(a)] \o y[0] = x[Len(a)]
      BY <1>4, <1>6, <1>8, ConcatEmptySeq, EmptySeq
    <3>2. Len(a) + 0 = Len(a)
      BY <1>1
    <3> QED
      BY <1>9, <3>1, <3>2
  <2>2. ASSUME NEW n \in P PROVE n + 1 \in P
    <3>0. n \in Nat /\ n + 1 \in Nat
      BY <2>2
    <3> SUFFICES ASSUME n + 1 <= Len(b)
                 PROVE  /\ y[n + 1] \in Seq(Message)
                        /\ g[Len(a) + (n + 1)] = x[Len(a)] \o y[n + 1]
      BY <3>0
    <3>1. /\ n + 1 \in 1..Len(b) /\ Len(a) + (n + 1) \in 1..Len(s)
          /\ y[n] \in Seq(Message) /\ g[Len(a) + n] = x[Len(a)] \o y[n]
          /\ (n + 1) - 1 = n /\ (Len(a) + (n + 1)) - 1 = Len(a) + n
      <4>1. n <= Len(b)
        BY <1>1, <3>0
      <4>2. y[n] \in Seq(Message) /\ g[Len(a) + n] = x[Len(a)] \o y[n]
        BY <2>2, <4>1
      <4> HIDE DEF P
      <4> QED
        BY <1>1, <3>0, <4>2
    <3>2. g[Len(a) + (n + 1)] = g[Len(a) + n] \o Elem(s, K, Len(a) + (n + 1))
      <4> DEFINE m == Len(a) + (n + 1)
      <4>1. m \in 1..Len(s) /\ m - 1 = Len(a) + n
        BY <3>1
      <4> HIDE DEF m
      <4>2. g[m] = g[m - 1] \o Elem(s, K, m)
        BY <1>2, <4>1
      <4> QED
        BY <4>1, <4>2 DEF m
    <3>3. y[n + 1] = y[n] \o Elem(b, J, n + 1)
      BY <1>4, <3>1
    <3>4. Elem(s, K, Len(a) + (n + 1)) = Elem(b, J, n + 1)
          /\ Elem(b, J, n + 1) \in Seq(Message)
      BY <1>5, <1>7, <3>1
    <3>5. (x[Len(a)] \o y[n]) \o Elem(b, J, n + 1)
            = x[Len(a)] \o (y[n] \o Elem(b, J, n + 1))
      <4>1. x[Len(a)] \in Seq(Message)
        BY <1>6, <1>8
      <4>2. y[n] \in Seq(Message) /\ Elem(b, J, n + 1) \in Seq(Message)
        BY <3>1, <3>4
      <4>3. ASSUME NEW p \in Seq(Message), NEW q \in Seq(Message), NEW r \in Seq(Message)
            PROVE  (p \o q) \o r = p \o (q \o r)
        BY ONLY ConcatAssociative, SMTT(40)
      <4> HIDE DEF P
      <4> QED
        BY ZenonT(60), <4>1, <4>2, <4>3
    <3>6. y[n] \o Elem(b, J, n + 1) \in Seq(Message)
      BY <3>1, <3>4, ConcatProperties
    <3>7. g[Len(a) + (n + 1)] = (x[Len(a)] \o y[n]) \o Elem(b, J, n + 1)
      <4>1. g[Len(a) + n] = x[Len(a)] \o y[n]
        BY <3>1
      <4>2. Elem(s, K, Len(a) + (n + 1)) = Elem(b, J, n + 1)
        BY <3>4
      <4> HIDE DEF P
      <4> QED
        BY Zenon, <3>2, <4>1, <4>2
    <3> HIDE DEF P
    <3> QED
      BY Zenon, <3>3, <3>5, <3>6, <3>7
  <2>3. P \in SUBSET Nat
    OBVIOUS
  <2> HIDE DEF P
  <2>4. Len(b) \in P
    BY <1>1, <2>1, <2>2, <2>3, EveryNumber
  <2>5. Len(b) <= Len(b) /\ Len(s) = Len(a) + Len(b)
    BY <1>1
  <2>6. g[Len(a) + Len(b)] = x[Len(a)] \o y[Len(b)]
    BY <2>4, <2>5 DEF P
  <2> QED
    BY Zenon, <2>5, <2>6
<1> QED
  BY <1>6, <1>10 DEF s

\* When all are chosen the sequence stays what it is.
LEMMA ChosenAll ==
    ASSUME NEW s \in Seq(Message), NEW I, \A j \in 1..Len(s) : j \in I
    PROVE  Chosen(s, I) = s
<1> DEFINE g == Choosing(s, I)
           P == {n \in Nat : n <= Len(s) => g[n] = SubSeq(s, 1, n)}
<1>1. Len(s) \in Nat
  OBVIOUS
<1>2. g[0] = <<>> /\ \A j \in 1..Len(s) : g[j] = g[j - 1] \o <<s[j]>>
  BY <1>1, ChoosingStep DEF Elem
<1>3. g[Len(s)] = Chosen(s, I)
  BY ChosenIsLast
<1> HIDE DEF g
<1>4. 0 \in P
  <2>1. SubSeq(s, 1, 0) = <<>>
    OBVIOUS
  <2> QED
    BY <1>2, <2>1
<1>5. ASSUME NEW n \in P PROVE n + 1 \in P
  <2>0. n \in Nat
    BY <1>5
  <2> SUFFICES ASSUME n + 1 <= Len(s) PROVE g[n + 1] = SubSeq(s, 1, n + 1)
    BY <2>0
  <2>1. n + 1 \in 1..Len(s) /\ g[n] = SubSeq(s, 1, n) /\ (n + 1) - 1 = n
    BY <1>1, <1>5
  <2>2. g[n + 1] = g[n] \o <<s[n + 1]>>
    BY <1>2, <2>1
  <2>3. SubSeq(s, 1, n + 1) = SubSeq(s, 1, n) \o <<s[n + 1]>>
    <3>1. 1 \in 1..Len(s) /\ n + 1 \in 1..Len(s)
      BY <2>1
    <3>2. SubSeq(s, 1, n + 1) = SubSeq(s, 1, (n + 1) - 1) \o <<s[n + 1]>>
      BY <3>1, SubSeqRecursiveSecond
    <3> QED
      BY <2>1, <3>2
  <2> HIDE DEF P
  <2> QED
    BY <2>1, <2>2, <2>3
<1>6. Len(s) \in P
  <2>1. P \in SUBSET Nat
    OBVIOUS
  <2> HIDE DEF P
  <2> QED
    BY <1>1, <1>4, <1>5, <2>1, EveryNumber
<1> QED
  BY <1>1, <1>3, <1>6, SubSeqFull

-----------------------------------------------------------------------------
(* Messages and their parts *)

\* The parts of messages.
Piece == [conn : Nat, n : Nat, i : Nat]

\* The part p of the stream of connection k in which the messages put went.
PartAt(k, put, p) ==
    Part(k, put[((p - 1) \div MsgSize) + 1], ((p - 1) % MsgSize) + 1)

\* A message has at least the part with the magic number.
LEMMA MsgSizeFacts == MsgSize \in Nat \ {0}
  BY StreamAssumption DEF MsgSize

\* The message that a part belongs to is one of the n.
LEMMA MessageOfPart ==
    ASSUME NEW n \in Nat, NEW p \in 1..(n * MsgSize)
    PROVE  /\ ((p - 1) \div MsgSize) + 1 \in 1..n
           /\ ((p - 1) % MsgSize) + 1 \in 1..MsgSize
<1> DEFINE a == (p - 1) \div MsgSize
           r == (p - 1) % MsgSize
<1>1. MsgSize \in Nat \ {0} /\ n * MsgSize \in Nat
  BY MsgSizeFacts, Multiple
<1>2. p - 1 \in Nat /\ p <= n * MsgSize
  BY <1>1
<1>3. a \in Nat /\ r \in 0..(MsgSize - 1) /\ p - 1 = a * MsgSize + r
  BY <1>1, <1>2, Remainder
<1> HIDE DEF a, r
<1>4. a * MsgSize \in Nat
  BY <1>1, <1>3, Multiple
<1>5. n * MsgSize <= a * MsgSize <=> n <= a
  BY <1>1, <1>3, Multiple
<1>6. ~ (n * MsgSize <= a * MsgSize)
  BY <1>1, <1>2, <1>3, <1>4
<1>7. a + 1 \in 1..n /\ r + 1 \in 1..MsgSize
  BY <1>1, <1>3, <1>5, <1>6
<1> QED
  BY <1>7 DEF a, r

\* n messages further the part has the same index.
LEMMA MessagesFurther ==
    ASSUME NEW n \in Nat, NEW p \in Nat \ {0}, NEW q, q = n * MsgSize + p
    PROVE  /\ (q - 1) \div MsgSize = n + ((p - 1) \div MsgSize)
           /\ (q - 1) % MsgSize = (p - 1) % MsgSize
<1> DEFINE a == (p - 1) \div MsgSize
           r == (p - 1) % MsgSize
<1>1. MsgSize \in Nat \ {0} /\ n * MsgSize \in Nat
  BY MsgSizeFacts, Multiple
<1>2. p - 1 \in Nat
  OBVIOUS
<1>3. a \in Nat /\ r \in 0..(MsgSize - 1) /\ p - 1 = a * MsgSize + r
  BY <1>1, <1>2, Remainder
<1> HIDE DEF a, r
<1>4. a * MsgSize \in Nat /\ (n + a) * MsgSize = n * MsgSize + a * MsgSize
  BY <1>1, <1>3, Multiple
<1>5. q - 1 = (n + a) * MsgSize + r
  BY <1>1, <1>3, <1>4
<1>6. /\ ((n + a) * MsgSize + r) \div MsgSize = n + a
      /\ ((n + a) * MsgSize + r) % MsgSize = r
  BY <1>1, <1>3, Divided
<1> QED
  BY <1>5, <1>6 DEF a, r

\* The messages that could be written, and their numbers.
LEMMA FittingType ==
    ASSUME NEW ms \in Seq(Message)
    PROVE  /\ Fitting(ms) \in Seq(Message)
           /\ Numbers(ms) \in Seq(Nat)
           /\ Len(Numbers(ms)) = Len(Fitting(ms))
           /\ \A j \in 1..Len(Fitting(ms)) : Numbers(ms)[j] = Fitting(ms)[j].n
<1>1. Fitting(ms) \in Seq(Message)
  BY ChosenType DEF Fitting
<1> DEFINE f == Fitting(ms)
<1> HIDE DEF f
<1>2. /\ f \in Seq(Message) /\ Len(f) \in Nat /\ \A j \in 1..Len(f) : f[j].n \in Nat
  <2>1. f \in Seq(Message)
    BY <1>1 DEF f
  <2>2. \A j \in 1..Len(f) : f[j] \in Message
    BY <2>1
  <2> QED
    BY <2>1, <2>2 DEF Message
<1>3. Numbers(ms) = [j \in 1..Len(f) |-> f[j].n]
  BY DEF Numbers, f
<1>4. Numbers(ms) \in Seq(Nat) /\ Len(Numbers(ms)) = Len(f)
  BY <1>2, <1>3
<1> QED
  BY <1>1, <1>3, <1>4 DEF f

\* The parts of encoded messages are those of their numbers.
LEMMA EncodedFacts ==
    ASSUME NEW k \in Nat, NEW ms \in Seq(Message)
    PROVE  /\ Encoded(k, ms) \in Seq(Piece)
           /\ Len(Encoded(k, ms)) = Len(Numbers(ms)) * MsgSize
           /\ \A p \in 1..(Len(Numbers(ms)) * MsgSize) :
                 Encoded(k, ms)[p] = PartAt(k, Numbers(ms), p)
<1> DEFINE f == Fitting(ms)
           N == Len(f) * MsgSize
           a(p) == ((p - 1) \div MsgSize) + 1
           i(p) == ((p - 1) % MsgSize) + 1
<1>1. /\ f \in Seq(Message) /\ Len(f) \in Nat /\ Len(Numbers(ms)) = Len(f)
      /\ \A j \in 1..Len(f) : Numbers(ms)[j] = f[j].n /\ f[j].n \in Nat
  BY FittingType, SMTT(40) DEF Message
<1>2. N \in Nat
  BY <1>1, MsgSizeFacts, Multiple
<1>3. \A p \in 1..N : a(p) \in 1..Len(f) /\ i(p) \in 1..MsgSize
  BY <1>1, MessageOfPart
<1>4. Encoded(k, ms) = [p \in 1..N |-> Part(k, f[a(p)].n, i(p))]
  BY DEF Encoded
<1>5. \A p \in 1..N : PartAt(k, Numbers(ms), p) = Part(k, Numbers(ms)[a(p)], i(p))
  BY DEF PartAt
<1> HIDE DEF f, N, a, i
<1>6. \A p \in 1..N : /\ Part(k, f[a(p)].n, i(p)) \in Piece
                      /\ PartAt(k, Numbers(ms), p) = Part(k, f[a(p)].n, i(p))
  BY <1>1, <1>3, <1>5, MsgSizeFacts DEF Part, Piece
<1>7. Encoded(k, ms) \in Seq(Piece) /\ Len(Encoded(k, ms)) = N
  BY <1>2, <1>4, <1>6
<1>8. \A p \in 1..N : Encoded(k, ms)[p] = PartAt(k, Numbers(ms), p)
  BY <1>4, <1>6
<1>9. N = Len(Numbers(ms)) * MsgSize
  BY <1>1 DEF N
<1> QED
  BY <1>7, <1>8, <1>9

\* They are the ones of two sequences one behind the other ...
LEMMA FittingConcat ==
    ASSUME NEW a \in Seq(Message), NEW b \in Seq(Message)
    PROVE  Fitting(a \o b) = Fitting(a) \o Fitting(b)
<1> DEFINE I == {j \in 1..Len(a) : a[j].fits}
           J == {j \in 1..Len(b) : b[j].fits}
           K == {j \in 1..Len(a \o b) : (a \o b)[j].fits}
<1>1. /\ Len(a) \in Nat /\ Len(b) \in Nat /\ Len(a \o b) = Len(a) + Len(b)
      /\ \A j \in 1..Len(a) : (a \o b)[j] = a[j]
      /\ \A j \in 1..Len(b) : (a \o b)[Len(a) + j] = b[j]
  BY ConcatProperties
<1>2. \A j \in 1..Len(a) : j \in K <=> j \in I
  BY <1>1
<1>3. \A j \in 1..Len(b) : Len(a) + j \in K <=> j \in J
  <2> SUFFICES ASSUME NEW j \in 1..Len(b) PROVE Len(a) + j \in K <=> j \in J
    OBVIOUS
  <2>1. Len(a) + j \in 1..Len(a \o b)
    BY <1>1
  <2> QED
    BY <1>1, <2>1
<1>4. Chosen(a \o b, K) = Chosen(a, I) \o Chosen(b, J)
  <2> HIDE DEF I, J, K
  <2> QED
    BY <1>2, <1>3, ChosenConcat, SMTT(40)
<1> QED
  BY <1>4 DEF Fitting

\* ... and so are their numbers.
LEMMA NumbersConcat ==
    ASSUME NEW a \in Seq(Message), NEW b \in Seq(Message)
    PROVE  Numbers(a \o b) = Numbers(a) \o Numbers(b)
<1> DEFINE c == a \o b
           fa == Fitting(a)
           fb == Fitting(b)
           fc == Fitting(c)
           N == Numbers(a) \o Numbers(b)
<1>1. c \in Seq(Message)
  BY ConcatProperties
<1>2. fc = fa \o fb
  BY FittingConcat
<1> HIDE DEF c
<1>3. /\ fa \in Seq(Message) /\ Numbers(a) \in Seq(Nat) /\ Len(Numbers(a)) = Len(fa)
      /\ \A j \in 1..Len(fa) : Numbers(a)[j] = fa[j].n
  BY FittingType
<1>4. /\ fb \in Seq(Message) /\ Numbers(b) \in Seq(Nat) /\ Len(Numbers(b)) = Len(fb)
      /\ \A j \in 1..Len(fb) : Numbers(b)[j] = fb[j].n
  BY FittingType
<1>5. /\ fc \in Seq(Message) /\ Numbers(c) \in Seq(Nat) /\ Len(Numbers(c)) = Len(fc)
      /\ \A j \in 1..Len(fc) : Numbers(c)[j] = fc[j].n
  BY <1>1, FittingType
<1> DEFINE na == Numbers(a)
           nb == Numbers(b)
<1> HIDE DEF na, nb
<1>6. N \in Seq(Nat) /\ Len(N) = Len(fa) + Len(fb)
      /\ \A j \in 1..Len(N) : N[j] = IF j <= Len(fa) THEN na[j] ELSE nb[j - Len(fa)]
  <2>1. na \in Seq(Nat) /\ nb \in Seq(Nat) /\ Len(na) = Len(fa) /\ Len(nb) = Len(fb)
    BY <1>3, <1>4 DEF na, nb
  <2>2. N = na \o nb
    BY DEF na, nb
  <2>3. Len(na) + Len(nb) = Len(fa) + Len(fb)
    BY <2>1
  <2>4. /\ na \o nb \in Seq(Nat) /\ Len(na \o nb) = Len(na) + Len(nb)
        /\ \A j \in 1..(Len(na) + Len(nb)) : (na \o nb)[j] =
               IF j <= Len(na) THEN na[j] ELSE nb[j - Len(na)]
    BY <2>1, ConcatProperties
  <2> HIDE DEF fa, fb, N
  <2> QED
    BY <2>1, <2>2, <2>3, <2>4
<1>7. Len(fc) = Len(fa) + Len(fb)
      /\ \A j \in 1..Len(fc) : fc[j] = IF j <= Len(fa) THEN fa[j] ELSE fb[j - Len(fa)]
  BY <1>2, <1>3, <1>4, ConcatProperties
<1>8. Len(fa) \in Nat /\ Len(fb) \in Nat
  BY <1>3, <1>4
<1> HIDE DEF fa, fb, fc, N
<1>9. \A j \in 1..Len(N) : Numbers(c)[j] = N[j]
  <2> SUFFICES ASSUME NEW j \in 1..Len(N) PROVE Numbers(c)[j] = N[j]
    OBVIOUS
  <2>1. j \in 1..Len(fc) /\ Numbers(c)[j] = fc[j].n
    BY <1>5, <1>6, <1>7, <1>8
  <2>2. CASE j <= Len(fa)
    <3>1. j \in 1..Len(fa)
      BY <1>6, <1>8, <2>2
    <3> QED
      BY <1>3, <1>6, <1>7, <2>1, <2>2, <3>1 DEF na
  <2>3. CASE ~ (j <= Len(fa))
    <3>1. j - Len(fa) \in 1..Len(fb)
      BY <1>6, <1>8, <2>3
    <3> QED
      BY <1>4, <1>6, <1>7, <2>1, <2>3, <3>1 DEF nb
  <2> QED
    BY <2>2, <2>3
<1>10. Numbers(c) = N
  BY <1>5, <1>6, <1>7, <1>9, SeqEqual
<1> QED
  BY <1>10 DEF c, N

\* More messages leave the parts of the first ones where they are.
LEMMA PartAtAppend ==
    ASSUME NEW k, NEW put \in Seq(Nat), NEW more \in Seq(Nat)
    PROVE  /\ \A p \in 1..(Len(put) * MsgSize) :
                 PartAt(k, put \o more, p) = PartAt(k, put, p)
           /\ \A p \in 1..(Len(more) * MsgSize) :
                 PartAt(k, put \o more, Len(put) * MsgSize + p) = PartAt(k, more, p)
<1>1. /\ Len(put) \in Nat /\ Len(more) \in Nat
      /\ \A j \in 1..Len(put) : (put \o more)[j] = put[j]
      /\ \A j \in 1..Len(more) : (put \o more)[Len(put) + j] = more[j]
  BY ConcatProperties
<1>2. ASSUME NEW p \in 1..(Len(put) * MsgSize)
      PROVE  PartAt(k, put \o more, p) = PartAt(k, put, p)
  <2>1. ((p - 1) \div MsgSize) + 1 \in 1..Len(put)
    BY <1>1, MessageOfPart
  <2>2. (put \o more)[((p - 1) \div MsgSize) + 1] = put[((p - 1) \div MsgSize) + 1]
    BY <1>1, <2>1
  <2> QED
    BY <2>2 DEF PartAt
<1>3. ASSUME NEW p \in 1..(Len(more) * MsgSize)
      PROVE  PartAt(k, put \o more, Len(put) * MsgSize + p) = PartAt(k, more, p)
  <2> DEFINE a == (p - 1) \div MsgSize
             q == Len(put) * MsgSize + p
  <2>1. a + 1 \in 1..Len(more)
    BY <1>1, MessageOfPart
  <2>2. p \in Nat \ {0}
    OBVIOUS
  <2> HIDE DEF q
  <2>9. q = Len(put) * MsgSize + p
    BY DEF q
  <2>3. (q - 1) \div MsgSize = Len(put) + a /\ (q - 1) % MsgSize = (p - 1) % MsgSize
    BY <1>1, <2>2, <2>9, MessagesFurther
  <2>4. a \in Nat
    <3>1. MsgSize \in Nat \ {0} /\ p - 1 \in Nat
      BY <2>2, MsgSizeFacts
    <3> QED
      BY <3>1, Remainder
  <2> HIDE DEF a
  <2>5. ((q - 1) \div MsgSize) + 1 = Len(put) + (a + 1)
    BY <1>1, <2>3, <2>4
  <2>6. (put \o more)[((q - 1) \div MsgSize) + 1] = more[a + 1]
    BY <1>1, <2>1, <2>5
  <2>7. PartAt(k, put \o more, q) = Part(k, more[a + 1], ((p - 1) % MsgSize) + 1)
    BY <2>3, <2>6 DEF PartAt
  <2>8. PartAt(k, more, p) = Part(k, more[a + 1], ((p - 1) % MsgSize) + 1)
    BY DEF PartAt, a
  <2> QED
    BY <2>7, <2>8 DEF q
<1> QED
  BY <1>2, <1>3

\* Sequences are put together in any order.
LEMMA Associative == \A p, q, r \in Seq(Piece) : (p \o q) \o r = p \o (q \o r)
<1>1. ASSUME NEW p \in Seq(Piece), NEW q \in Seq(Piece), NEW r \in Seq(Piece)
      PROVE  (p \o q) \o r = p \o (q \o r)
  BY ONLY ConcatAssociative, SMTT(40)
<1> QED
  BY <1>1

\* Take and Drop cut a sequence in two.
LEMMA TakeDropFacts ==
    ASSUME NEW T, NEW s \in Seq(T), NEW n \in 0..Len(s)
    PROVE  /\ Take(s, n) \in Seq(T) /\ Len(Take(s, n)) = n
           /\ \A j \in 1..n : Take(s, n)[j] = s[j]
           /\ Drop(s, n) \in Seq(T) /\ Len(Drop(s, n)) = Len(s) - n
           /\ \A j \in 1..(Len(s) - n) : Drop(s, n)[j] = s[n + j]
           /\ Take(s, n) \o Drop(s, n) = s
<1>1. Len(s) \in Nat /\ n \in Nat /\ n <= Len(s)
  OBVIOUS
<1>2. \A j \in 1..Len(s) : s[j] \in T
  OBVIOUS
<1>3. /\ Take(s, n) \in Seq(T) /\ Len(Take(s, n)) = n
      /\ \A j \in 1..n : Take(s, n)[j] = s[j]
  <2>1. \A j \in 1..n : s[j] \in T
    BY <1>1, <1>2
  <2>2. /\ SubSeq(s, 1, n) \in Seq(T)
        /\ Len(SubSeq(s, 1, n)) = IF 1 <= n THEN n - 1 + 1 ELSE 0
        /\ \A i \in 1..(n - 1 + 1) : SubSeq(s, 1, n)[i] = s[1 + i - 1]
    BY <1>1, <2>1, SubSeqProperties
  <2> QED
    BY <1>1, <2>2 DEF Take
<1>4. /\ Drop(s, n) \in Seq(T) /\ Len(Drop(s, n)) = Len(s) - n
      /\ \A j \in 1..(Len(s) - n) : Drop(s, n)[j] = s[n + j]
  <2>1. \A j \in (n + 1)..Len(s) : s[j] \in T
    BY <1>1, <1>2
  <2>2. /\ SubSeq(s, n + 1, Len(s)) \in Seq(T)
        /\ Len(SubSeq(s, n + 1, Len(s))) =
              IF n + 1 <= Len(s) THEN Len(s) - (n + 1) + 1 ELSE 0
        /\ \A i \in 1..(Len(s) - (n + 1) + 1) :
              SubSeq(s, n + 1, Len(s))[i] = s[(n + 1) + i - 1]
    BY <1>1, <2>1, SubSeqProperties
  <2> QED
    BY <1>1, <2>2 DEF Drop
<1>5. Take(s, n) \o Drop(s, n) = s
  <2> DEFINE u == Take(s, n)
             v == Drop(s, n)
  <2> HIDE DEF u, v
  <2>1. /\ u \in Seq(T) /\ Len(u) = n /\ \A j \in 1..n : u[j] = s[j]
        /\ v \in Seq(T) /\ Len(v) = Len(s) - n /\ \A j \in 1..(Len(s) - n) : v[j] = s[n + j]
    BY <1>3, <1>4 DEF u, v
  <2>2. /\ u \o v \in Seq(T) /\ Len(u \o v) = Len(u) + Len(v)
        /\ \A j \in 1..(Len(u) + Len(v)) : (u \o v)[j] = IF j <= Len(u) THEN u[j] ELSE v[j - Len(u)]
    BY <2>1, ConcatProperties, ZenonT(60)
  <2>3. Len(u \o v) = Len(s)
    BY <1>1, <2>1, <2>2
  <2>4. ASSUME NEW j \in 1..Len(u \o v) PROVE (u \o v)[j] = s[j]
    <3>1. CASE j <= n
      BY <1>1, <2>1, <2>2, <2>3, <3>1
    <3>2. CASE ~ (j <= n)
      <4>1. j - n \in 1..(Len(s) - n) /\ n + (j - n) = j
        BY <1>1, <2>3, <3>2
      <4> QED
        BY <1>1, <2>1, <2>2, <2>3, <3>2, <4>1
    <3> QED
      BY <3>1, <3>2
  <2>5. u \o v = s
    BY <2>2, <2>3, <2>4, SeqEqual
  <2> QED
    BY <2>5 DEF u, v
<1> QED
  BY <1>3, <1>4, <1>5

\* What is dropped from the front.
LEMMA DropFront ==
    ASSUME NEW T, NEW u \in Seq(T), NEW v \in Seq(T), NEW n \in 0..Len(u)
    PROVE  Drop(u \o v, n) = Drop(u, n) \o v
<1> DEFINE d == Drop(u \o v, n)
           e == Drop(u, n)
<1>1. /\ Len(u) \in Nat /\ Len(v) \in Nat /\ n \in Nat /\ n <= Len(u)
      /\ u \o v \in Seq(T) /\ Len(u \o v) = Len(u) + Len(v)
      /\ \A j \in 1..(Len(u) + Len(v)) : (u \o v)[j] = IF j <= Len(u) THEN u[j] ELSE v[j - Len(u)]
  BY ConcatProperties
<1>2. n \in 0..Len(u \o v)
  BY <1>1
<1>3. /\ d \in Seq(T) /\ Len(d) = Len(u \o v) - n
      /\ \A j \in 1..(Len(u \o v) - n) : d[j] = (u \o v)[n + j]
  BY <1>1, <1>2, TakeDropFacts, ZenonT(60)
<1>4. /\ e \in Seq(T) /\ Len(e) = Len(u) - n
      /\ \A j \in 1..(Len(u) - n) : e[j] = u[n + j]
  BY TakeDropFacts
<1> HIDE DEF d, e
<1>5. /\ e \o v \in Seq(T) /\ Len(e \o v) = Len(e) + Len(v)
      /\ \A j \in 1..(Len(e) + Len(v)) : (e \o v)[j] = IF j <= Len(e) THEN e[j] ELSE v[j - Len(e)]
  BY <1>4, ConcatProperties
<1>6. Len(d) = Len(e \o v)
  BY <1>1, <1>3, <1>4, <1>5
<1>7. ASSUME NEW j \in 1..Len(d) PROVE d[j] = (e \o v)[j]
  <2>1. d[j] = (u \o v)[n + j] /\ n + j \in 1..(Len(u) + Len(v)) /\ j \in 1..(Len(e) + Len(v))
    BY <1>1, <1>3, <1>4, <1>5, <1>6
  <2>2. CASE j <= Len(e)
    <3>1. n + j <= Len(u) /\ j \in 1..(Len(u) - n)
      BY <1>1, <1>4, <2>2
    <3> QED
      BY <1>1, <1>4, <1>5, <2>1, <2>2, <3>1
  <2>3. CASE ~ (j <= Len(e))
    <3>1. ~ (n + j <= Len(u)) /\ (n + j) - Len(u) = j - Len(e)
      BY <1>1, <1>4, <2>3
    <3>2. d[j] = v[(n + j) - Len(u)] /\ (e \o v)[j] = v[j - Len(e)]
      BY <1>1, <1>5, <2>1, <2>3, <3>1
    <3> QED
      BY <3>1, <3>2
  <2> QED
    BY <2>2, <2>3
<1>8. d = e \o v
  BY <1>3, <1>5, <1>6, <1>7, SeqEqual
<1> QED
  BY <1>8 DEF d, e

-----------------------------------------------------------------------------
(* Streams *)

\* What was got is the beginning of what was put.
Carried(k, put, got) ==
    /\ Len(got) <= Len(put)
    /\ \A j \in 1..Len(got) : got[j] = <<k, put[j]>>

\* The parts w come behind the first `from' parts of the stream of k.
Stretch(k, put, from, w) ==
    \A p \in 1..Len(w) : /\ from + p <= Len(put) * MsgSize
                         /\ w[p] = PartAt(k, put, from + p)

\* The parts w are all that come.
Exact(k, put, from, w) ==
    Stretch(k, put, from, w) /\ from + Len(w) = Len(put) * MsgSize

\* The parts that follow on what is decoded, and all of them.
Behind(k, f, w) == Stretch(k, f.put, Len(f.got) * MsgSize, w)

Complete(k, f, w) == Exact(k, f.put, Len(f.got) * MsgSize, w)

\* The flow f of connection k, with the parts `way' in the connection: its
\* readers have taken what is before them, and its writers have what follows.
Holds(k, f, way, readers, writers) ==
    /\ Carried(k, f.put, f.got)
    /\ \A buf \in readers :
        /\ Behind(k, f, buf \o way)
        /\ \A enc \in writers : Complete(k, f, (buf \o way) \o enc)

\* The history of a direction.
Flow == [put : Seq(Nat), got : Seq(Nat \X Nat), due : Seq(Nat)]

\* The front of a stretch is one.
LEMMA StretchFront ==
    ASSUME NEW k, NEW put, NEW from \in Nat, NEW v \in Seq(Piece), NEW w \in Seq(Piece),
           Stretch(k, put, from, v \o w)
    PROVE  Stretch(k, put, from, v)
<1> SUFFICES ASSUME NEW p \in 1..Len(v)
             PROVE  from + p <= Len(put) * MsgSize /\ v[p] = PartAt(k, put, from + p)
  BY DEF Stretch
<1>1. p \in 1..Len(v \o w) /\ (v \o w)[p] = v[p]
  <2>1. /\ Len(v \o w) = Len(v) + Len(w) /\ Len(v) \in Nat /\ Len(w) \in Nat
        /\ \A i \in 1..(Len(v) + Len(w)) : (v \o w)[i] = IF i <= Len(v) THEN v[i] ELSE w[i - Len(v)]
    BY ConcatProperties
  <2> QED
    BY <2>1
<1> QED
  BY <1>1 DEF Stretch

\* A stretch of a stream that goes on is one.
LEMMA StretchMore ==
    ASSUME NEW k, NEW put \in Seq(Nat), NEW more \in Seq(Nat), NEW from \in Nat,
           NEW w \in Seq(Piece), Stretch(k, put, from, w)
    PROVE  Stretch(k, put \o more, from, w)
<1> SUFFICES ASSUME NEW p \in 1..Len(w)
             PROVE  /\ from + p <= Len(put \o more) * MsgSize
                    /\ w[p] = PartAt(k, put \o more, from + p)
  BY DEF Stretch
<1>1. /\ Len(put \o more) \in Nat /\ Len(put) \in Nat /\ Len(more) \in Nat
      /\ Len(put \o more) = Len(put) + Len(more) /\ Len(put) <= Len(put \o more)
  BY ConcatProperties
<1> DEFINE a == Len(put) * MsgSize
           b == Len(put \o more) * MsgSize
<1>2. a \in Nat /\ b \in Nat /\ a <= b
  BY <1>1, MsgSizeFacts, Multiple
<1>3. from + p <= a /\ w[p] = PartAt(k, put, from + p)
  BY DEF Stretch
<1>4. \A q \in 1..a : PartAt(k, put \o more, q) = PartAt(k, put, q)
  BY PartAtAppend
<1> HIDE DEF a, b
<1>5. from + p \in 1..a /\ from + p <= b
  BY <1>2, <1>3
<1> QED
  BY <1>3, <1>4, <1>5 DEF b

\* Messages that are encoded at the end of the stream.
LEMMA ExactAppend ==
    ASSUME NEW k \in Nat, NEW put \in Seq(Nat), NEW from \in Nat, NEW w \in Seq(Piece),
           NEW ms \in Seq(Message), Exact(k, put, from, w)
    PROVE  Exact(k, put \o Numbers(ms), from, w \o Encoded(k, ms))
<1> DEFINE more == Numbers(ms)
           e == Encoded(k, ms)
           a == Len(put) * MsgSize
           b == Len(more) * MsgSize
           all == put \o more
<1>1. more \in Seq(Nat)
  BY FittingType
<1>2. e \in Seq(Piece) /\ Len(e) = b /\ \A p \in 1..b : e[p] = PartAt(k, more, p)
  BY EncodedFacts
<1> HIDE DEF more, e
<1>3. /\ Len(put) \in Nat /\ Len(more) \in Nat
      /\ Len(all) = Len(put) + Len(more)
  BY <1>1, ConcatProperties
<1>4. a \in Nat /\ b \in Nat /\ Len(all) * MsgSize = a + b
  BY <1>3, MsgSizeFacts, Multiple
<1>5. /\ \A p \in 1..a : PartAt(k, all, p) = PartAt(k, put, p)
      /\ \A p \in 1..b : PartAt(k, all, a + p) = PartAt(k, more, p)
  BY <1>1, PartAtAppend
<1>6. /\ from + Len(w) = a
      /\ \A p \in 1..Len(w) : w[p] = PartAt(k, put, from + p)
  BY DEF Exact, Stretch
<1>7. /\ Len(w \o e) = Len(w) + Len(e) /\ Len(w) \in Nat /\ Len(e) \in Nat
      /\ \A p \in 1..(Len(w) + Len(e)) : (w \o e)[p] = IF p <= Len(w) THEN w[p] ELSE e[p - Len(w)]
  <2>1. e \in Seq(Piece)
    BY <1>2
  <2> HIDE DEF a, b, all
  <2> QED
    BY <2>1, ConcatProperties
<1> HIDE DEF a, b, all
<1>8. ASSUME NEW p \in 1..Len(w \o e)
      PROVE  from + p <= a + b /\ (w \o e)[p] = PartAt(k, all, from + p)
  <2>1. from + p <= a + b
    BY <1>2, <1>6, <1>7
  <2>2. CASE p <= Len(w)
    <3>1. p \in 1..Len(w) /\ from + p \in 1..a
      BY <1>4, <1>6, <1>7, <2>2
    <3>2. (w \o e)[p] = w[p]
      BY <1>7, <2>2
    <3> QED
      BY <1>5, <1>6, <2>1, <3>1, <3>2
  <2>3. CASE ~ (p <= Len(w))
    <3>1. p - Len(w) \in 1..b /\ from + p = a + (p - Len(w))
      <4>1. Len(e) = b /\ from + Len(w) = a
        BY <1>2, <1>6
      <4>2. Len(w) \in Nat /\ Len(w \o e) = Len(w) + b
        BY <1>7, <4>1
      <4>3. p \in 1..(Len(w) + b) /\ from + p = (from + Len(w)) + (p - Len(w))
        BY <4>2
      <4>4. p - Len(w) \in 1..b
        BY <1>4, <2>3, <4>2, <4>3
      <4> QED
        BY <4>1, <4>3, <4>4
    <3>2. (w \o e)[p] = e[p - Len(w)]
      BY <1>7, <2>3
    <3> QED
      BY <1>2, <1>5, <2>1, <3>1, <3>2
  <2> QED
    BY <2>2, <2>3
<1>9. from + Len(w \o e) = a + b
  <2>1. Len(w \o e) = Len(w) + b /\ Len(w) \in Nat
    BY <1>2, <1>7
  <2>2. from + Len(w) = a
    BY <1>6
  <2> QED
    BY <1>4, <2>1, <2>2
<1>10. Exact(k, all, from, w \o e)
  BY <1>4, <1>8, <1>9 DEF Exact, Stretch
<1> QED
  BY <1>10 DEF all, more, e

\* The parts of a stretch behind its first ones.
LEMMA StretchDrop ==
    ASSUME NEW k, NEW put \in Seq(Nat), NEW from \in Nat, NEW w \in Seq(Piece),
           NEW n \in 0..Len(w), Stretch(k, put, from, w)
    PROVE  /\ Stretch(k, put, from + n, Drop(w, n))
           /\ Exact(k, put, from, w) => Exact(k, put, from + n, Drop(w, n))
<1>1. /\ Drop(w, n) \in Seq(Piece) /\ Len(Drop(w, n)) = Len(w) - n
      /\ \A j \in 1..(Len(w) - n) : Drop(w, n)[j] = w[n + j]
  BY TakeDropFacts
<1>2. Len(w) \in Nat /\ n \in Nat /\ n <= Len(w)
  OBVIOUS
<1> DEFINE d == Drop(w, n)
           a == Len(put) * MsgSize
<1> HIDE DEF d, a
<1>3. /\ Len(d) = Len(w) - n /\ \A j \in 1..(Len(w) - n) : d[j] = w[n + j]
  BY <1>1 DEF d
<1>4. \A p \in 1..Len(w) : from + p <= a /\ w[p] = PartAt(k, put, from + p)
  BY DEF Stretch, a
<1>5. ASSUME NEW p \in 1..Len(d)
      PROVE  from + n + p <= a /\ d[p] = PartAt(k, put, from + n + p)
  <2>1. n + p \in 1..Len(w) /\ from + (n + p) = from + n + p /\ p \in 1..(Len(w) - n)
    BY <1>2, <1>3
  <2> QED
    BY <1>3, <1>4, <2>1
<1>6. Stretch(k, put, from + n, d)
  BY <1>5 DEF Stretch, a
<1>7. ASSUME from + Len(w) = a PROVE from + n + Len(d) = a
  BY <1>2, <1>3, <1>7
<1> QED
  BY <1>6, <1>7 DEF Exact, a, d

\* The first part of a message, j messages behind the first g.
LEMMA BeginOfMessage ==
    ASSUME NEW g \in Nat, NEW d \in Nat, NEW j \in 1..d
    PROVE  /\ (j - 1) * MsgSize + 1 \in 1..(d * MsgSize)
           /\ \A k, put : PartAt(k, put, g * MsgSize + ((j - 1) * MsgSize + 1))
                            = Part(k, put[g + j], 1)
<1> DEFINE a == (j - 1) * MsgSize
           b == g * MsgSize
           q == b + (a + 1)
<1>1. MsgSize \in Nat \ {0} /\ j - 1 \in Nat /\ j \in Nat
  BY MsgSizeFacts
<1>2. a \in Nat /\ b \in Nat /\ (g + (j - 1)) * MsgSize = b + a
  BY <1>1, Multiple
<1>3. j * MsgSize = a + MsgSize
  <2>1. ((j - 1) + 1) * MsgSize = (j - 1) * MsgSize + 1 * MsgSize
    BY <1>1, Multiple
  <2>2. (j - 1) + 1 = j /\ 1 * MsgSize = MsgSize
    BY <1>1
  <2> QED
    BY <2>1, <2>2
<1>4. j * MsgSize <= d * MsgSize /\ d * MsgSize \in Nat /\ j * MsgSize \in Nat
  BY <1>1, Multiple
<1>5. a + 1 \in 1..(d * MsgSize)
  <2> HIDE DEF a
  <2> QED
    BY <1>1, <1>2, <1>3, <1>4
<1>6. /\ ((g + (j - 1)) * MsgSize + 0) \div MsgSize = g + (j - 1)
      /\ ((g + (j - 1)) * MsgSize + 0) % MsgSize = 0
  <2>1. g + (j - 1) \in Nat /\ 0 \in 0..(MsgSize - 1)
    BY <1>1
  <2> QED
    BY <1>1, <2>1, Divided
<1> DEFINE c == (g + (j - 1)) * MsgSize
<1>7. c = b + a
  BY <1>2
<1>8. (c + 0) \div MsgSize = g + (j - 1) /\ (c + 0) % MsgSize = 0
  BY <1>6
<1> HIDE DEF a, b, c
<1>9. q - 1 = c + 0
  BY <1>2, <1>7
<1>10. ((q - 1) \div MsgSize) + 1 = g + j /\ ((q - 1) % MsgSize) + 1 = 1
  BY <1>1, <1>8, <1>9
<1> HIDE DEF q
<1>11. \A k, put : PartAt(k, put, q) = Part(k, put[g + j], 1)
  BY <1>10 DEF PartAt
<1> QED
  BY <1>5, <1>11 DEF a, b, q

\* What a call of _ReceiveMessages() takes and decodes.
LEMMA ReceivingFacts ==
    ASSUME NEW known \in Seq(Piece), NEW way \in Seq(Piece), NEW r \in Receiving(known, way)
    PROVE  /\ r.taken \in 0..Len(way) /\ r.decoded \in Nat /\ r.failed \in BOOLEAN
           /\ way = <<>> => r.decoded = 0
           /\ Buffer(known, way, r) \in Seq(Piece)
           /\ r.decoded * MsgSize \in 0..Len(Buffer(known, way, r))
<1> DEFINE buf == Buffer(known, way, r)
           d == r.decoded
           w == Len(buf) \div MsgSize
<1>1. Len(known) \in Nat /\ Len(way) \in Nat
  OBVIOUS
<1>2. /\ r.taken \in 0..Len(way) /\ r.decoded \in 0..(Len(known) + Len(way))
      /\ r.failed \in BOOLEAN
  BY DEF Receiving
<1>3. IF r.taken = 0 \/ w = 0 \/ ~ValidateMsgStream(buf) THEN d = 0 ELSE d \in 1..w
  BY DEF Receiving, Buffer
<1>4. Take(way, r.taken) \in Seq(Piece) /\ buf \in Seq(Piece)
  <2>1. Take(way, r.taken) \in Seq(Piece)
    BY <1>2, TakeDropFacts
  <2> QED
    BY <2>1, ConcatProperties DEF Buffer
<1> HIDE DEF buf
<1>5. Len(buf) \in Nat /\ MsgSize \in Nat \ {0}
  BY <1>4, MsgSizeFacts
<1>6. w \in Nat /\ Len(buf) % MsgSize \in 0..(MsgSize - 1)
      /\ Len(buf) = w * MsgSize + (Len(buf) % MsgSize)
  BY <1>5, Remainder
<1> HIDE DEF w
<1>7. d \in Nat /\ d <= w
  BY <1>1, <1>2, <1>3, <1>6
<1> HIDE DEF d
<1>8. d * MsgSize \in Nat /\ w * MsgSize \in Nat /\ d * MsgSize <= w * MsgSize
  BY <1>5, <1>6, <1>7, Multiple
<1> DEFINE x == w * MsgSize
           y == Len(buf) % MsgSize
           z == d * MsgSize
<1>9. Len(buf) = x + y /\ y \in Nat /\ x \in Nat /\ z \in Nat /\ z <= x
  BY <1>5, <1>6, <1>8
<1> HIDE DEF x, y, z
<1>10. z \in 0..Len(buf)
  BY <1>5, <1>9
<1>11. way = <<>> => d = 0
  BY <1>1, <1>2, <1>3
<1> QED
  BY <1>2, <1>4, <1>7, <1>10, <1>11 DEF buf, d, z

\* What is left, with the connection, is what was there without the messages
\* that are decoded.
LEMMA RemainingFacts ==
    ASSUME NEW known \in Seq(Piece), NEW way \in Seq(Piece), NEW r \in Receiving(known, way)
    PROVE  /\ Remaining(known, way, r) \in Seq(Piece)
           /\ Drop(way, r.taken) \in Seq(Piece)
           /\ known \o way \in Seq(Piece)
           /\ r.decoded * MsgSize \in 0..Len(known \o way)
           /\ Remaining(known, way, r) \o Drop(way, r.taken)
                = Drop(known \o way, r.decoded * MsgSize)
           /\ \A p \in 1..(r.decoded * MsgSize) :
                 Buffer(known, way, r)[p] = (known \o way)[p]
<1> DEFINE buf == Buffer(known, way, r)
           t == Take(way, r.taken)
           u == Drop(way, r.taken)
           n == r.decoded * MsgSize
<1>1. r.taken \in 0..Len(way) /\ buf \in Seq(Piece) /\ n \in 0..Len(buf)
  BY ReceivingFacts
<1>2. t \in Seq(Piece) /\ u \in Seq(Piece) /\ t \o u = way
  BY <1>1, TakeDropFacts
<1>3. buf = known \o t
  BY DEF Buffer
<1>4. Remaining(known, way, r) = Drop(buf, n)
  BY DEF Remaining
<1> HIDE DEF buf, t, u, n
<1>5. buf \o u = known \o way
  <2>1. (known \o t) \o u = known \o (t \o u)
    BY ZenonT(60), <1>2, Associative
  <2> QED
    BY Zenon, <1>2, <1>3, <2>1
<1>6. Drop(buf \o u, n) = Drop(buf, n) \o u /\ Drop(buf, n) \in Seq(Piece)
  BY <1>1, <1>2, DropFront, TakeDropFacts, ZenonT(60)
<1>7. /\ buf \o u \in Seq(Piece) /\ Len(buf \o u) = Len(buf) + Len(u)
      /\ Len(buf) \in Nat /\ Len(u) \in Nat
      /\ \A p \in 1..(Len(buf) + Len(u)) : (buf \o u)[p] = IF p <= Len(buf) THEN buf[p] ELSE u[p - Len(buf)]
  BY <1>1, <1>2, ConcatProperties
<1>8. n \in 0..Len(buf \o u) /\ \A p \in 1..n : buf[p] = (buf \o u)[p]
  BY <1>1, <1>7
<1> QED
  BY <1>2, <1>4, <1>5, <1>6, <1>7, <1>8 DEF buf, u, n

\* It decodes the messages that follow in the stream.
LEMMA DecodedFacts ==
    ASSUME NEW k \in Nat, NEW put \in Seq(Nat), NEW got \in Seq(Nat \X Nat),
           NEW known \in Seq(Piece), NEW way \in Seq(Piece),
           NEW r \in Receiving(known, way),
           Carried(k, put, got), Stretch(k, put, Len(got) * MsgSize, known \o way)
    PROVE  /\ Carried(k, put, got \o Decoded(known, way, r))
           /\ Len(got \o Decoded(known, way, r)) * MsgSize
                = Len(got) * MsgSize + r.decoded * MsgSize
<1> DEFINE g == Len(got)
           d == r.decoded
           w == known \o way
           b == Buffer(known, way, r)
           D == Decoded(known, way, r)
           G == g * MsgSize
           n == d * MsgSize
           P == Len(put) * MsgSize
<1>1. /\ d \in Nat /\ g \in Nat /\ Len(put) \in Nat /\ g <= Len(put) /\ b \in Seq(Piece)
      /\ n \in 0..Len(b)
  BY ReceivingFacts DEF Carried
<1>2. /\ w \in Seq(Piece) /\ n \in 0..Len(w) /\ \A p \in 1..n : b[p] = w[p]
  BY RemainingFacts
<1>3. D = [j \in 1..d |-> <<b[(j - 1) * MsgSize + 1].conn, b[(j - 1) * MsgSize + 1].n>>]
  BY DEF Decoded
<1>4. \A p \in 1..Len(w) : G + p <= P /\ w[p] = PartAt(k, put, G + p)
  BY DEF Stretch
<1>5. G \in Nat /\ n \in Nat /\ P \in Nat /\ (g + d) * MsgSize = G + n
      /\ ((g + d) * MsgSize <= P <=> g + d <= Len(put))
  <2>1. g + d \in Nat /\ g \in Nat /\ d \in Nat /\ Len(put) \in Nat
    BY <1>1
  <2>2. G \in Nat /\ n \in Nat /\ P \in Nat /\ (g + d) * MsgSize = G + n
    BY <2>1, MsgSizeFacts, Multiple
  <2>3. (g + d) * MsgSize <= Len(put) * MsgSize <=> g + d <= Len(put)
    BY <2>1, MsgSizeFacts, Multiple
  <2> QED
    BY <2>2, <2>3
<1>6. \A j \in 1..d : /\ (j - 1) * MsgSize + 1 \in 1..n
                      /\ PartAt(k, put, G + ((j - 1) * MsgSize + 1)) = Part(k, put[g + j], 1)
  BY <1>1, BeginOfMessage
<1> HIDE DEF g, d, w, b, D, G, n, P
<1>7. g + d <= Len(put)
  <2>1. CASE n = 0
    <3>1. (g + d) * MsgSize <= P
      <4>1. g * MsgSize <= Len(put) * MsgSize
        BY <1>1, MsgSizeFacts, Multiple
      <4>2. G <= P
        BY <4>1 DEF G, P
      <4> QED
        BY <1>5, <2>1, <4>2
    <3> QED
      BY <1>5, <3>1
  <2>2. CASE n # 0
    <3>1. n \in 1..Len(w)
      BY <1>2, <1>5, <2>2
    <3>2. G + n <= P
      BY <1>4, <3>1
    <3> QED
      BY <1>5, <3>2
  <2> QED
    BY <2>1, <2>2
<1>8. ASSUME NEW j \in 1..d PROVE D[j] = <<k, put[g + j]>>
  <2> DEFINE q == (j - 1) * MsgSize + 1
  <2>1. q \in 1..n /\ PartAt(k, put, G + q) = Part(k, put[g + j], 1)
    BY <1>6
  <2>2. D[j] = <<b[q].conn, b[q].n>>
    BY <1>3
  <2> HIDE DEF q
  <2>3. q \in 1..Len(w) /\ b[q] = w[q]
    BY <1>2, <2>1
  <2>4. b[q] = Part(k, put[g + j], 1)
    BY <1>4, <2>1, <2>3
  <2> QED
    BY <2>2, <2>4 DEF Part
<1>9. D \in Seq(Nat \X Nat) /\ Len(D) = d
  <2>1. \A j \in 1..d : put[g + j] \in Nat
    BY <1>1, <1>7
  <2>2. ASSUME NEW j \in 1..d PROVE D[j] \in Nat \X Nat
    <3>1. D[j] = <<k, put[g + j]>> /\ put[g + j] \in Nat
      BY <1>8, <2>1
    <3> QED
      BY <3>1
  <2> QED
    BY <1>1, <1>3, <2>2
<1>10. /\ Len(got \o D) = g + d
       /\ \A j \in 1..(g + d) : (got \o D)[j] = IF j <= g THEN got[j] ELSE D[j - g]
  BY <1>9, ConcatProperties DEF g
<1>11. \A j \in 1..g : got[j] = <<k, put[j]>>
  BY DEF Carried, g
<1>12. ASSUME NEW j \in 1..(g + d) PROVE (got \o D)[j] = <<k, put[j]>>
  <2>1. CASE j <= g
    <3>1. j \in 1..g
      BY <1>1, <2>1
    <3> QED
      BY <1>10, <1>11, <2>1, <3>1
  <2>2. CASE ~ (j <= g)
    <3>1. j - g \in 1..d /\ g + (j - g) = j
      BY <1>1, <2>2
    <3> QED
      BY <1>8, <1>10, <2>2, <3>1
  <2> QED
    BY <2>1, <2>2
<1>13. Carried(k, put, got \o D)
  BY <1>7, <1>10, <1>12 DEF Carried
<1>14. Len(got \o D) * MsgSize = G + n
  BY <1>5, <1>10
<1> QED
  BY <1>13, <1>14 DEF D, g, G, n, d

\* Holds asks for less when readers or writers are gone.
LEMMA HoldsFewer ==
    ASSUME NEW k, NEW f, NEW h, NEW way, NEW R, NEW W, NEW Q, NEW V,
           Holds(k, f, way, R, W), h.put = f.put, h.got = f.got,
           Q \subseteq R, V \subseteq W
    PROVE  Holds(k, h, way, Q, V)
  BY DEF Holds, Behind, Complete

\* Nothing has been sent.
LEMMA HoldsNothing ==
    ASSUME NEW k, NEW f, NEW Q, NEW V, f.put = <<>>, f.got = <<>>,
           Q \subseteq {<<>>}, V \subseteq {<<>>}
    PROVE  Holds(k, f, <<>>, Q, V)
<1>1. Len(<<>>) = 0 /\ <<>> \o <<>> = <<>>
  OBVIOUS
<1>2. 0 * MsgSize = 0 /\ 1..0 = {}
  BY MsgSizeFacts
<1>3. Carried(k, f.put, f.got)
  BY <1>1, <1>2 DEF Carried
<1>4. Complete(k, f, <<>>) /\ Behind(k, f, <<>>)
  BY <1>1, <1>2 DEF Complete, Behind, Exact, Stretch
<1>5. \A buf \in Q : buf \o <<>> = <<>>
  BY <1>1
<1>6. \A enc \in V : <<>> \o enc = <<>>
  BY <1>1
<1> QED
  BY <1>3, <1>4, <1>5, <1>6 DEF Holds

\* Nobody reads any more.
LEMMA HoldsUnread ==
    ASSUME NEW k, NEW f \in Flow, NEW h, NEW more \in Seq(Nat), NEW way, NEW any,
           NEW R, NEW W, NEW V,
           Holds(k, f, way, R, W), h.put = f.put \o more, h.got = f.got
    PROVE  Holds(k, h, any, {}, V)
<1>1. Carried(k, f.put, f.got) /\ f.put \in Seq(Nat) /\ f.got \in Seq(Nat \X Nat)
  BY DEF Holds, Flow
<1> DEFINE p == f.put
           g == f.got
<1> HIDE DEF p, g
<1>2. /\ Len(p \o more) = Len(p) + Len(more) /\ Len(p) \in Nat /\ Len(more) \in Nat
      /\ \A j \in 1..(Len(p) + Len(more)) :
            (p \o more)[j] = IF j <= Len(p) THEN p[j] ELSE more[j - Len(p)]
      /\ Len(g) \in Nat
  <2>1. p \in Seq(Nat) /\ g \in Seq(Nat \X Nat)
    BY <1>1 DEF p, g
  <2> QED
    BY <2>1, ConcatProperties
<1>3. Len(g) <= Len(p) /\ \A j \in 1..Len(g) : g[j] = <<k, p[j]>>
  BY <1>1 DEF Carried, p, g
<1>4. Len(g) <= Len(p \o more) /\ \A j \in 1..Len(g) : g[j] = <<k, (p \o more)[j]>>
  BY <1>2, <1>3
<1> QED
  BY <1>4 DEF Holds, Carried, p, g

\* A call of _ReceiveMessages().
LEMMA HoldsReceive ==
    ASSUME NEW k \in Nat, NEW f \in Flow, NEW h,
           NEW known \in Seq(Piece), NEW way \in Seq(Piece),
           NEW W \in SUBSET Seq(Piece), NEW r \in Receiving(known, way),
           Holds(k, f, way, {known}, W),
           h.put = f.put, h.got = f.got \o Decoded(known, way, r)
    PROVE  Holds(k, h, Drop(way, r.taken), {Remaining(known, way, r)}, W)
<1> DEFINE w == known \o way
           n == r.decoded * MsgSize
           left == Remaining(known, way, r)
           rest == Drop(way, r.taken)
           from == Len(f.got) * MsgSize
<1>1. f.put \in Seq(Nat) /\ f.got \in Seq(Nat \X Nat)
  BY DEF Flow
<1>2. /\ Carried(k, f.put, f.got) /\ Stretch(k, f.put, from, w)
      /\ \A enc \in W : Exact(k, f.put, from, w \o enc)
  BY DEF Holds, Behind, Complete
<1>3. /\ left \in Seq(Piece) /\ rest \in Seq(Piece) /\ w \in Seq(Piece)
      /\ n \in 0..Len(w) /\ left \o rest = Drop(w, n)
  BY RemainingFacts
<1>4. Carried(k, h.put, h.got) /\ Len(h.got) * MsgSize = from + n
  <2> DEFINE g == f.got
             p == f.put
             D == Decoded(known, way, r)
  <2> HIDE DEF g, p, w, n, D
  <2>1. /\ p \in Seq(Nat) /\ g \in Seq(Nat \X Nat)
        /\ Carried(k, p, g) /\ Stretch(k, p, Len(g) * MsgSize, known \o way)
    BY <1>1, <1>2 DEF g, p, w
  <2>2. /\ Carried(k, p, g \o Decoded(known, way, r))
        /\ Len(g \o Decoded(known, way, r)) * MsgSize
                = Len(g) * MsgSize + r.decoded * MsgSize
    BY <2>1, DecodedFacts, ZenonT(60)
  <2> QED
    BY <2>2 DEF g, p, n
<1>5. from \in Nat
  <2>1. Len(f.got) \in Nat
    BY <1>1
  <2> QED
    BY <2>1, MsgSizeFacts, Multiple
<1> HIDE DEF w, n, left, rest, from
<1>6. Stretch(k, f.put, from + n, left \o rest)
  BY <1>1, <1>2, <1>3, <1>5, StretchDrop
<1>7. ASSUME NEW enc \in W PROVE Exact(k, f.put, from + n, (left \o rest) \o enc)
  <2>1. enc \in Seq(Piece)
    OBVIOUS
  <2>2. /\ w \o enc \in Seq(Piece) /\ Len(w \o enc) = Len(w) + Len(enc)
        /\ Len(w) \in Nat /\ Len(enc) \in Nat
    BY <1>3, <2>1, ConcatProperties
  <2>3. n \in 0..Len(w \o enc)
    BY <1>3, <2>2
  <2>4. Drop(w \o enc, n) = Drop(w, n) \o enc
    BY <1>3, <2>1, DropFront
  <2>5. Exact(k, f.put, from, w \o enc) /\ Stretch(k, f.put, from, w \o enc)
    BY <1>2 DEF Exact
  <2>6. Exact(k, f.put, from + n, Drop(w \o enc, n))
    BY <1>1, <1>5, <2>2, <2>3, <2>5, StretchDrop
  <2> QED
    BY <1>3, <2>4, <2>6
<1> QED
  BY <1>4, <1>6, <1>7 DEF Holds, Behind, Complete, left, rest

\* How an iteration of _SendMessages() ends ...
LEMMA EndsFacts ==
    ASSUME NEW enc, NEW k, NEW rest, NEW id, NEW room, NEW m,
           NEW o \in Ends(enc, k, rest, id, room, m)
    PROVE  /\ o.m = m
           /\ o.how \in {"done", "full", "error", "spin"}
           /\ o.sent \in 0..Len(Storage(enc, k, rest, m))
           /\ o.moved \in 0..Len(Storage(enc, k, rest, m))
           /\ o.how # "error" => o.sent = o.moved
           /\ o.how = "done" => ~ (m < Len(rest))
           /\ o.how = "full" => m < Len(rest)
<1> DEFINE parts == Storage(enc, k, rest, m)
           foreign == m < Len(rest) /\ Foreign(rest[m + 1], id)
           amounts == {n \in 0..Len(parts) :
                         n <= room /\ (m > 0 => HadRoom(enc, k, rest, m - 1, n))}
           End(how, sent, moved) == [how |-> how, m |-> m, sent |-> sent, moved |-> moved]
<1>1. \/ \E n \in amounts : ~ (m < Len(rest)) /\ o = End("done", n, n)
      \/ \E n \in amounts : m < Len(rest) /\ o = End("full", n, n)
      \/ \E a \in amounts \X amounts : o = End("error", a[1], a[2])
      \/ \E n \in amounts : o = End("spin", n, n)
  BY DEF Ends
<1>2. amounts \subseteq 0..Len(parts)
  OBVIOUS
<1> HIDE DEF amounts
<1>4. ASSUME NEW n \in amounts, ~ (m < Len(rest)), o = End("done", n, n)
      PROVE  /\ o.m = m /\ o.how = "done" /\ o.sent = n /\ o.moved = n
             /\ n \in 0..Len(parts)
  BY <1>2, <1>4
<1>5. ASSUME NEW n \in amounts, m < Len(rest), o = End("full", n, n)
      PROVE  /\ o.m = m /\ o.how = "full" /\ o.sent = n /\ o.moved = n
             /\ n \in 0..Len(parts)
  BY <1>2, <1>5
<1>6. ASSUME NEW a \in amounts \X amounts, o = End("error", a[1], a[2])
      PROVE  /\ o.m = m /\ o.how = "error"
             /\ o.sent \in 0..Len(parts) /\ o.moved \in 0..Len(parts)
  BY <1>2, <1>6
<1>7. ASSUME NEW n \in amounts, o = End("spin", n, n)
      PROVE  /\ o.m = m /\ o.how = "spin" /\ o.sent = n /\ o.moved = n
             /\ n \in 0..Len(parts)
  BY <1>2, <1>7
<1> HIDE DEF parts, End
<1> QED
  BY <1>1, <1>4, <1>5, <1>6, <1>7 DEF parts

\* ... and the call.
LEMMA SendingFacts ==
    ASSUME NEW enc \in Seq(Piece), NEW k \in Nat, NEW q \in Seq(Message),
           NEW last \in 0..Len(q), NEW id, NEW room, NEW failed \in BOOLEAN,
           NEW o \in Sending(enc, k, q, last, id, room, failed)
    PROVE  /\ Rest(q, last) \in Seq(Message)
           /\ Len(Rest(q, last)) = IF last = 0 THEN 0 ELSE Len(q) - (last - 1)
           /\ o.m \in 0..Len(Rest(q, last))
           /\ o.how \in {"done", "full", "error", "spin"}
           /\ o.sent \in 0..Len(Storage(enc, k, Rest(q, last), o.m))
           /\ o.moved \in 0..Len(Storage(enc, k, Rest(q, last), o.m))
           /\ o.how # "error" => o.sent = o.moved
           /\ o.how = "done" => o.m = Len(Rest(q, last))
           /\ o.how = "full" => o.m < Len(Rest(q, last))
           /\ \A i \in 1..o.m : ~Foreign(Rest(q, last)[i], id)
           /\ failed => o.how = "error"
<1> DEFINE rest == Rest(q, last)
<1>1. rest \in Seq(Message) /\ Len(rest) = IF last = 0 THEN 0 ELSE Len(q) - (last - 1)
  <2>1. CASE last = 0
    BY <2>1 DEF Rest
  <2>2. CASE last # 0
    <3>1. last - 1 \in 0..Len(q)
      BY <2>2
    <3> QED
      BY <2>2, <3>1, TakeDropFacts DEF Rest
  <2> QED
    BY <2>1, <2>2
<1> HIDE DEF rest
<1>2. CASE q = <<>> \/ failed
  <2>1. o \in {[how |-> IF failed THEN "error" ELSE "done",
                m |-> 0, sent |-> n, moved |-> n] :
                 n \in {a \in 0..Len(enc) : a <= room /\ (q = <<>> => a = 0)}}
    BY <1>2 DEF Sending
  <2>2. /\ o.m = 0 /\ o.sent = o.moved /\ o.sent \in 0..Len(enc)
        /\ o.how = IF failed THEN "error" ELSE "done"
    BY <2>1
  <2>3. Storage(enc, k, rest, 0) = enc
    <3>1. Take(rest, 0) = <<>>
      BY DEF Take
    <3>2. <<>> \in Seq(Message) /\ Len(<<>>) = 0 /\ 1..0 = {}
      OBVIOUS
    <3>3. Encoded(k, <<>>) = <<>>
      <4>1. Fitting(<<>>) = <<>>
        <5>1. Fitting(<<>>) = Chosen(<<>>, {j \in 1..0 : <<>>[j].fits})
          BY <3>2 DEF Fitting
        <5> QED
          BY <3>2, <5>1, ChosenAll
      <4>2. Len(Encoded(k, <<>>)) = Len(Numbers(<<>>)) * MsgSize /\ Len(Numbers(<<>>)) = 0
            /\ Encoded(k, <<>>) \in Seq(Piece)
        BY <3>2, <4>1, EncodedFacts, FittingType
      <4>3. 0 * MsgSize = 0
        BY MsgSizeFacts
      <4>4. Len(Encoded(k, <<>>)) = 0
        BY <4>2, <4>3
      <4> QED
        BY <4>2, <4>4
    <3> QED
      BY <3>1, <3>3 DEF Storage
  <2>4. ~failed => Len(rest) = 0
    BY <1>1, <1>2
  <2>5. 0 \in 0..Len(rest)
    BY <1>1
  <2> QED
    BY <1>1, <2>2, <2>3, <2>4, <2>5 DEF rest
<1>3. CASE ~ (q = <<>> \/ failed)
  <2>1. PICK m \in 0..Len(rest) : /\ \A i \in 1..m : ~Foreign(rest[i], id)
                                  /\ o \in Ends(enc, k, rest, id, room, m)
    BY <1>3 DEF Sending, rest
  <2>2. /\ o.m = m
        /\ o.how \in {"done", "full", "error", "spin"}
        /\ o.sent \in 0..Len(Storage(enc, k, rest, m))
        /\ o.moved \in 0..Len(Storage(enc, k, rest, m))
        /\ o.how # "error" => o.sent = o.moved
        /\ o.how = "done" => ~ (m < Len(rest))
        /\ o.how = "full" => m < Len(rest)
    BY <2>1, EndsFacts
  <2>3. Len(rest) \in Nat
    BY <1>1
  <2>4. o.how = "done" => m = Len(rest)
    BY <2>2, <2>3
  <2> QED
    BY <1>1, <1>3, <2>1, <2>2, <2>4 DEF rest
<1> QED
  BY <1>2, <1>3

\* A call of _SendMessages().  After an error the writer has nothing more to do
\* with the connection.
LEMMA HoldsSend ==
    ASSUME NEW k \in Nat, NEW f \in Flow, NEW h, NEW way \in Seq(Piece),
           NEW R \in SUBSET Seq(Piece), NEW enc \in Seq(Piece),
           NEW q \in Seq(Message), NEW last \in 0..Len(q), NEW id, NEW room,
           NEW failed \in BOOLEAN,
           NEW o \in Sending(enc, k, q, last, id, room, failed),
           Holds(k, f, way, R, {enc}),
           h.put = f.put \o Put(q, last, o), h.got = f.got
    PROVE  /\ Put(q, last, o) \in Seq(Nat)
           /\ Sent(enc, k, q, last, o) \in Seq(Piece)
           /\ EncodedAfter(enc, k, q, last, o) \in Seq(Piece)
           /\ Holds(k, h, way \o Sent(enc, k, q, last, o), R, {})
           /\ o.how # "error" => Holds(k, h, way \o Sent(enc, k, q, last, o), R,
                                       {EncodedAfter(enc, k, q, last, o)})
<1> DEFINE ms == Take(Rest(q, last), o.m)
           more == Numbers(ms)
           e == Encoded(k, ms)
           parts == enc \o e
           t == Take(parts, o.sent)
           d == Drop(parts, o.sent)
           from == Len(f.got) * MsgSize
           p == f.put
<1>1. /\ Rest(q, last) \in Seq(Message) /\ o.m \in 0..Len(Rest(q, last))
      /\ o.sent \in 0..Len(parts) /\ o.moved \in 0..Len(parts)
      /\ o.how # "error" => o.sent = o.moved
  BY SendingFacts DEF Storage
<1>2. ms \in Seq(Message)
  BY <1>1, TakeDropFacts
<1>3. /\ Put(q, last, o) = more /\ Sent(enc, k, q, last, o) = t
      /\ EncodedAfter(enc, k, q, last, o) = Drop(parts, o.moved)
  BY DEF Put, Sent, EncodedAfter, Storage
<1>4. p \in Seq(Nat) /\ Len(f.got) \in Nat
  BY DEF Flow
<1>5. from \in Nat
  BY <1>4, MsgSizeFacts, Multiple
<1> HIDE DEF ms, p, from
<1>6. more \in Seq(Nat) /\ e \in Seq(Piece)
  BY <1>2, FittingType, EncodedFacts
<1>7. \A buf \in R : Exact(k, p, from, (buf \o way) \o enc)
  BY DEF Holds, Complete, p, from
<1>8. ASSUME NEW buf \in R, NEW v \in Seq(Piece), v = buf \o way
      PROVE  Exact(k, p \o more, from, (v \o enc) \o e)
  <2>1. Exact(k, p, from, v \o enc)
    BY <1>7, <1>8
  <2>2. v \o enc \in Seq(Piece)
    BY ConcatProperties
  <2> HIDE DEF more, e
  <2> QED
    BY <1>2, <1>4, <1>5, <2>1, <2>2, ExactAppend DEF more, e
<1> HIDE DEF more, e
<1>9. parts \in Seq(Piece)
  BY <1>6, ConcatProperties
<1>10. t \in Seq(Piece) /\ d \in Seq(Piece) /\ t \o d = parts
       /\ Drop(parts, o.moved) \in Seq(Piece)
  <2> HIDE DEF parts
  <2> QED
    BY <1>1, <1>9, TakeDropFacts
<1>11. Carried(k, p \o more, f.got)
  <2>1. Holds(k, h, way, {}, {})
    BY <1>3, <1>6, HoldsUnread DEF p
  <2> QED
    BY <1>3, <2>1 DEF Holds, p
<1>12. ASSUME NEW buf \in R
       PROVE  /\ Stretch(k, p \o more, from, buf \o (way \o t))
              /\ Exact(k, p \o more, from, (buf \o (way \o t)) \o d)
  <2> DEFINE v == buf \o way
             u == buf \o (way \o t)
  <2>1. buf \in Seq(Piece)
    OBVIOUS
  <2>2. v \in Seq(Piece) /\ way \o t \in Seq(Piece) /\ u \in Seq(Piece)
    <3>1. v \in Seq(Piece) /\ way \o t \in Seq(Piece)
      BY <1>10, <2>1, ConcatProperties
    <3> QED
      BY <2>1, <3>1, ConcatProperties
  <2>3. u = v \o t
    BY Zenon, <1>10, <2>1, Associative
  <2> HIDE DEF v, u, t, d
  <2>0. enc \in Seq(Piece) /\ t \in Seq(Piece) /\ d \in Seq(Piece) /\ e \in Seq(Piece)
        /\ v \in Seq(Piece)
    BY <1>6, <1>10, <2>2
  <2>9. (v \o t) \o d = v \o (t \o d)
    BY ZenonT(60), <2>0, Associative
  <2>4. u \o d = v \o (t \o d)
    BY Zenon, <2>3, <2>9
  <2>8. (v \o enc) \o e = v \o (enc \o e)
    BY ZenonT(60), <2>0, Associative
  <2>5. v \o parts = (v \o enc) \o e
    BY Zenon, <2>8
  <2>6. Exact(k, p \o more, from, (v \o enc) \o e)
    BY <1>8, <2>2 DEF v
  <2>7. Exact(k, p \o more, from, u \o d)
    BY Zenon, <1>10, <2>4, <2>5, <2>6
  <2>10. Stretch(k, p \o more, from, u)
    <3>1. Stretch(k, p \o more, from, u \o d)
      BY <2>7 DEF Exact
    <3> QED
      BY <1>5, <1>10, <2>2, <3>1, StretchFront
  <2> QED
    BY <2>7, <2>10 DEF u
<1> HIDE DEF t, d, parts
<1>13. Holds(k, h, way \o t, R, {})
  BY <1>3, <1>11, <1>12 DEF Holds, Behind, p, from
<1>14. Holds(k, h, way \o t, R, {d})
  BY <1>3, <1>11, <1>12 DEF Holds, Behind, Complete, p, from
<1>15. o.how # "error" => Drop(parts, o.moved) = d
  BY <1>1 DEF d
<1> QED
  BY <1>3, <1>6, <1>10, <1>13, <1>14, <1>15
=============================================================================
