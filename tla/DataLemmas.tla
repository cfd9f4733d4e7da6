----------------------------- MODULE DataLemmas -----------------------------
(***************************************************************************)
(* Lemmas the proofs share: division with remainder; rings of bytes as     *)
(* both halves of HardwareSerial and the MIDI receiver keep them: N slots, *)
(* a head where the next byte is stored and a tail where the oldest is;    *)
(* one slot stays free; and sequences of packets laid end to end.  How the *)
(* modulo of the code moves a ring, what it holds, and what the packets    *)
(* hold, for every size.                                                   *)
(***************************************************************************)
EXTENDS Naturals, Integers, Sequences, SequencesExt, SequenceTheorems,
        WellFoundedInduction, NaturalsInduction, TLAPS

-----------------------------------------------------------------------------
\* Division with remainder: a number is its quotient and its remainder.
LEMMA DivMod ==
    ASSUME NEW a \in Nat, NEW b \in Nat \ {0}
    PROVE  /\ a \div b \in Nat /\ a % b \in 0 .. b - 1
           /\ a = b * (a \div b) + (a % b)
OBVIOUS

\* The quotient and the remainder are the only ones.
LEMMA DivModIs ==
    ASSUME NEW a \in Nat, NEW b \in Nat \ {0},
           NEW q \in Nat, NEW r \in Nat, r < b, a = b * q + r
    PROVE  a \div b = q /\ a % b = r
OBVIOUS

\* Products distribute, commute and associate.
LEMMA TimesPlus ==
    ASSUME NEW a \in Int, NEW b \in Int, NEW c \in Int
    PROVE  /\ a * (b + c) = a * b + a * c
           /\ a * (b - c) = a * b - a * c
           /\ a * b = b * a
           /\ a * (b * c) = (a * b) * c
           /\ a * b \in Int
OBVIOUS

\* A product of numbers is a number.
LEMMA TimesNat ==
    ASSUME NEW a \in Nat, NEW b \in Nat
    PROVE  a * b \in Nat
OBVIOUS

\* A product grows with its factor.
LEMMA TimesMonotone ==
    ASSUME NEW a \in Nat, NEW b \in Nat, NEW c \in Nat, a <= b
    PROVE  a * c <= b * c
<1>1. b * c = a * c + (b - a) * c
  BY TimesPlus
<1>2. b - a \in Nat /\ (b - a) * c \in Nat /\ a * c \in Nat
  BY TimesNat
<1> QED BY <1>1, <1>2

\* Multiples of the divisor do not change the remainder.
LEMMA ModPlus ==
    ASSUME NEW a \in Nat, NEW b \in Nat \ {0}, NEW q \in Nat
    PROVE  (a + b * q) % b = a % b
<1>1. /\ a \div b \in Nat /\ a % b \in 0 .. b - 1
      /\ a = b * (a \div b) + (a % b)
  BY DivMod
<1>2. b * ((a \div b) + q) = b * (a \div b) + b * q
  BY <1>1, TimesPlus
<1>3. /\ a + b * q = b * ((a \div b) + q) + (a % b)
      /\ a + b * q \in Nat /\ (a \div b) + q \in Nat /\ a % b \in Nat /\ a % b < b
  BY <1>1, <1>2, TimesNat
<1> QED BY <1>3, DivModIs

\* The remainder of a sum only depends on the remainder of a summand.
LEMMA ModSum ==
    ASSUME NEW a \in Nat, NEW b \in Nat \ {0}, NEW c \in Nat
    PROVE  ((a % b) + c) % b = (a + c) % b
<1>1. /\ a \div b \in Nat /\ a % b \in 0 .. b - 1
      /\ a = b * (a \div b) + (a % b)
  BY DivMod
<1>2. a + c = ((a % b) + c) + b * (a \div b) /\ (a % b) + c \in Nat
  BY <1>1, TimesNat
<1>3. (((a % b) + c) + b * (a \div b)) % b = ((a % b) + c) % b
  BY <1>1, <1>2, ModPlus
<1> QED BY <1>2, <1>3

\* The difference of two remainders, as words are subtracted.
LEMMA ModDifference ==
    ASSUME NEW a \in Nat, NEW b \in Nat \ {0}, NEW c \in Nat, c <= a
    PROVE  ((a % b) + b - (c % b)) % b = (a - c) % b
<1> DEFINE qa == a \div b  ra == a % b  qc == c \div b  rc == c % b
<1>1. /\ qa \in Nat /\ ra \in 0 .. b - 1 /\ a = b * qa + ra
      /\ qc \in Nat /\ rc \in 0 .. b - 1 /\ c = b * qc + rc
  BY DivMod
<1> HIDE DEF qa, ra, qc, rc
<1>2. qc <= qa
  <2>1. SUFFICES ASSUME qa + 1 <= qc PROVE FALSE
    BY <1>1
  <2>2. (qa + 1) * b <= qc * b
    BY <1>1, <2>1, TimesMonotone
  <2>3. (qa + 1) * b = b * qa + b /\ qc * b = b * qc
    BY <1>1, TimesPlus
  <2> QED BY <1>1, <2>2, <2>3, TimesNat
<1>3. b * (qa - qc) = b * qa - b * qc
  BY <1>1, TimesPlus
<1>4. (a - c) + b * 1 = (ra + b - rc) + b * (qa - qc)
  BY <1>1, <1>3, TimesNat
<1>5. a - c \in Nat /\ ra + b - rc \in Nat /\ qa - qc \in Nat
  BY <1>1, <1>2
<1>6. ((a - c) + b * 1) % b = (a - c) % b
  BY <1>5, ModPlus
<1>7. ((ra + b - rc) + b * (qa - qc)) % b = (ra + b - rc) % b
  BY <1>5, ModPlus
<1> QED BY <1>4, <1>6, <1>7 DEF ra, rc

-----------------------------------------------------------------------------
\* Rings.

RingSlots(N) == 0 .. N - 1
RingSucc(N, i) == (i + 1) % N
RingBuffers(N, B) == [RingSlots(N) -> B]

\* The slot after the last is the first; the modulo of the code is a wrap.
LEMMA RingSuccWraps ==
    ASSUME NEW N \in Nat \ {0}, NEW i \in RingSlots(N)
    PROVE  /\ RingSucc(N, i) = IF i = N - 1 THEN 0 ELSE i + 1
           /\ RingSucc(N, i) \in RingSlots(N)
<1>1. CASE i = N - 1
  BY <1>1 DEF RingSlots, RingSucc
<1>2. CASE i # N - 1
  <2>1. i + 1 \in 0 .. N - 1
    BY <1>2 DEF RingSlots
  <2>2. (i + 1) % N = i + 1
    BY <2>1
  <2> QED
    BY <1>2, <2>1, <2>2 DEF RingSlots, RingSucc
<1> QED
  BY <1>1, <1>2

\* How far the head h is ahead of the tail t; the k-th slot from the tail.
RingDistance(N, h, t) == (N + h - t) % N
RingPlace(N, t, k) == (t + k - 1) % N

\* The remainder of an index that has gone round at most once.
LEMMA ModWraps ==
    ASSUME NEW N \in Nat \ {0}, NEW n \in 0 .. 2 * N - 1
    PROVE  n % N = IF n < N THEN n ELSE n - N
<1>1. N \in Nat \ {0} /\ n \in Nat
  OBVIOUS
<1>2. CASE n < N
  BY <1>1, <1>2
<1>3. CASE n >= N
  BY <1>1, <1>3
<1> QED
  BY <1>1, <1>2, <1>3

\* How many bytes the ring holds is a number below its size.
LEMMA RingDistanceIs ==
    ASSUME NEW N \in Nat \ {0}, NEW h \in RingSlots(N), NEW t \in RingSlots(N)
    PROVE  /\ RingDistance(N, h, t) = IF h >= t THEN h - t ELSE N + h - t
           /\ RingDistance(N, h, t) \in 0 .. N - 1
<1> DEFINE n == N + h - t
<1>1. n \in 0 .. 2 * N - 1
  BY DEF RingSlots
<1> HIDE DEF n
<1>2. n % N = IF n < N THEN n ELSE n - N
  BY <1>1, ModWraps
<1>3. RingDistance(N, h, t) = IF N + h - t < N THEN N + h - t ELSE h - t
  BY <1>2 DEF RingDistance, RingSlots, n
<1> QED
  BY <1>3 DEF RingSlots

\* The slot of the k-th byte from the tail is a slot.
LEMMA RingPlaceIs ==
    ASSUME NEW N \in Nat \ {0}, NEW t \in RingSlots(N), NEW k \in 1 .. N
    PROVE  /\ RingPlace(N, t, k) = IF t + k <= N THEN t + k - 1
                                             ELSE t + k - 1 - N
           /\ RingPlace(N, t, k) \in RingSlots(N)
<1> DEFINE n == t + k - 1
<1>1. n \in 0 .. 2 * N - 1
  BY DEF RingSlots
<1> HIDE DEF n
<1>2. n % N = IF n < N THEN n ELSE n - N
  BY <1>1, ModWraps
<1> QED
  BY <1>2 DEF RingPlace, RingSlots, n

\* Storing a byte lengthens the queue, taking one shortens it.
LEMMA RingDistanceSteps ==
    ASSUME NEW N \in Nat \ {0}, NEW h \in RingSlots(N), NEW t \in RingSlots(N)
    PROVE  /\ RingSucc(N, h) # t => RingDistance(N, RingSucc(N, h), t) = RingDistance(N, h, t) + 1
           /\ h # t => RingDistance(N, h, RingSucc(N, t)) = RingDistance(N, h, t) - 1
           /\ RingDistance(N, h, t) = 0 <=> h = t
           /\ RingDistance(N, h, t) = N - 1 <=> RingSucc(N, h) = t
<1>1. RingSucc(N, h) \in RingSlots(N) /\ RingSucc(N, t) \in RingSlots(N)
  BY RingSuccWraps
<1>2. /\ RingSucc(N, h) = IF h = N - 1 THEN 0 ELSE h + 1
      /\ RingSucc(N, t) = IF t = N - 1 THEN 0 ELSE t + 1
  BY RingSuccWraps
<1>3. RingDistance(N, h, t) = IF h >= t THEN h - t ELSE N + h - t
  BY RingDistanceIs
<1>4. RingDistance(N, RingSucc(N, h), t) = IF RingSucc(N, h) >= t THEN RingSucc(N, h) - t
                                           ELSE N + RingSucc(N, h) - t
  BY <1>1, RingDistanceIs
<1>5. RingDistance(N, h, RingSucc(N, t)) = IF h >= RingSucc(N, t) THEN h - RingSucc(N, t)
                                           ELSE N + h - RingSucc(N, t)
  BY <1>1, RingDistanceIs
<1> QED
  BY <1>2, <1>3, <1>4, <1>5 DEF RingSlots

-----------------------------------------------------------------------------
\* What a ring with the slots b holds between the tail t and the head h.
RingContent(N, h, t, b) == [k \in 1 .. RingDistance(N, h, t) |-> b[RingPlace(N, t, k)]]

\* The content of the ring is a sequence of as many bytes as the ring holds.
LEMMA RingContentIs ==
    ASSUME NEW N \in Nat \ {0}, NEW h \in RingSlots(N), NEW t \in RingSlots(N),
           NEW B, NEW b \in RingBuffers(N, B)
    PROVE  /\ RingContent(N, h, t, b) \in Seq(B)
           /\ Len(RingContent(N, h, t, b)) = RingDistance(N, h, t)
           /\ \A k \in 1 .. RingDistance(N, h, t) : RingContent(N, h, t, b)[k] = b[RingPlace(N, t, k)]
<1>1. RingDistance(N, h, t) \in Nat /\ RingDistance(N, h, t) < N
  BY RingDistanceIs
<1>2. \A k \in 1 .. RingDistance(N, h, t) : b[RingPlace(N, t, k)] \in B
  BY <1>1, RingPlaceIs DEF RingBuffers
<1>3. RingContent(N, h, t, b) \in [1 .. RingDistance(N, h, t) -> B]
  BY <1>2 DEF RingContent
<1> QED
  BY <1>1, <1>3 DEF RingContent

\* An empty ring holds nothing.
LEMMA RingContentEmpty ==
    ASSUME NEW N \in Nat \ {0}, NEW h \in RingSlots(N), NEW B, NEW b \in RingBuffers(N, B)
    PROVE  RingContent(N, h, h, b) = <<>>
<1>1. RingContent(N, h, h, b) \in Seq(B) /\ Len(RingContent(N, h, h, b)) = 0
  BY RingContentIs, RingDistanceSteps
<1> QED
  BY <1>1, EmptySeq

\* Publishing the head's slot appends its byte.
LEMMA RingContentAppends ==
    ASSUME NEW N \in Nat \ {0}, NEW h \in RingSlots(N), NEW t \in RingSlots(N),
           NEW B, NEW b \in RingBuffers(N, B),
           RingSucc(N, h) # t
    PROVE  RingContent(N, RingSucc(N, h), t, b) = Append(RingContent(N, h, t, b), b[h])
<1> DEFINE old == RingContent(N, h, t, b)
           new == RingContent(N, RingSucc(N, h), t, b)
<1>1. /\ old \in Seq(B) /\ Len(old) = RingDistance(N, h, t)
      /\ \A k \in 1 .. RingDistance(N, h, t) : old[k] = b[RingPlace(N, t, k)]
  BY RingContentIs
<1>2. RingSucc(N, h) \in RingSlots(N) /\ RingDistance(N, RingSucc(N, h), t) = RingDistance(N, h, t) + 1
  BY RingSuccWraps, RingDistanceSteps
<1>3. /\ new \in Seq(B) /\ Len(new) = RingDistance(N, h, t) + 1
      /\ \A k \in 1 .. RingDistance(N, h, t) + 1 : new[k] = b[RingPlace(N, t, k)]
  <2>1. /\ new \in Seq(B) /\ Len(new) = RingDistance(N, RingSucc(N, h), t)
        /\ \A k \in 1 .. RingDistance(N, RingSucc(N, h), t) : new[k] = b[RingPlace(N, t, k)]
    BY <1>2, RingContentIs
  <2> QED
    BY <1>2, <2>1
<1>4. RingDistance(N, h, t) \in 0 .. N - 1
  BY RingDistanceIs
<1>5. RingPlace(N, t, RingDistance(N, h, t) + 1) = h
  <2> DEFINE k == RingDistance(N, h, t) + 1
  <2>1. k \in 1 .. N
    BY <1>4
  <2>2. RingPlace(N, t, k) = IF t + k <= N THEN t + k - 1 ELSE t + k - 1 - N
    BY <2>1, RingPlaceIs
  <2>3. RingDistance(N, h, t) = IF h >= t THEN h - t ELSE N + h - t
    BY RingDistanceIs
  <2> QED
    BY <2>1, <2>2, <2>3 DEF RingSlots
<1> HIDE DEF old, new
<1>6. b[h] \in B
  BY DEF RingBuffers
<1>7. /\ Append(old, b[h]) \in Seq(B)
      /\ Len(Append(old, b[h])) = RingDistance(N, h, t) + 1
      /\ \A k \in 1 .. RingDistance(N, h, t) + 1 :
            Append(old, b[h])[k] = IF k = RingDistance(N, h, t) + 1 THEN b[h] ELSE old[k]
  BY <1>1, <1>4, <1>6
<1>8. \A k \in 1 .. RingDistance(N, h, t) + 1 : new[k] = Append(old, b[h])[k]
  BY <1>1, <1>3, <1>4, <1>5, <1>7
<1>9. new = Append(old, b[h])
  BY <1>3, <1>4, <1>7, <1>8, SeqEqual
<1> QED
  BY <1>9 DEF old, new

\* The tail's byte is the first.
LEMMA RingContentFirst ==
    ASSUME NEW N \in Nat \ {0}, NEW h \in RingSlots(N), NEW t \in RingSlots(N),
           NEW B, NEW b \in RingBuffers(N, B), h # t
    PROVE  RingContent(N, h, t, b) = <<b[t]>> \o RingContent(N, h, RingSucc(N, t), b)
<1> DEFINE old == RingContent(N, h, t, b)
           new == RingContent(N, h, RingSucc(N, t), b)
           d   == RingDistance(N, h, t)
<1>1. /\ old \in Seq(B) /\ Len(old) = d
      /\ \A k \in 1 .. d : old[k] = b[RingPlace(N, t, k)]
  BY RingContentIs
<1>2. RingSucc(N, t) \in RingSlots(N) /\ RingDistance(N, h, RingSucc(N, t)) = d - 1
  BY RingSuccWraps, RingDistanceSteps
<1>3. /\ new \in Seq(B) /\ Len(new) = d - 1
      /\ \A k \in 1 .. d - 1 : new[k] = b[RingPlace(N, RingSucc(N, t), k)]
  <2>1. /\ new \in Seq(B) /\ Len(new) = RingDistance(N, h, RingSucc(N, t))
        /\ \A k \in 1 .. RingDistance(N, h, RingSucc(N, t)) : new[k] = b[RingPlace(N, RingSucc(N, t), k)]
    BY <1>2, RingContentIs
  <2> QED
    BY <1>2, <2>1
<1>4. d \in 1 .. N - 1
  BY RingDistanceIs, RingDistanceSteps
<1>5. RingPlace(N, t, 1) = t
  BY RingPlaceIs DEF RingSlots
<1>6. \A k \in 2 .. d : RingPlace(N, t, k) = RingPlace(N, RingSucc(N, t), k - 1)
  <2> TAKE k \in 2 .. d
  <2>1. k \in 1 .. N /\ k - 1 \in 1 .. N
    BY <1>4
  <2>2. RingPlace(N, t, k) = IF t + k <= N THEN t + k - 1 ELSE t + k - 1 - N
    BY <2>1, RingPlaceIs
  <2>3. RingPlace(N, RingSucc(N, t), k - 1) = IF RingSucc(N, t) + (k - 1) <= N
                                THEN RingSucc(N, t) + (k - 1) - 1
                                ELSE RingSucc(N, t) + (k - 1) - 1 - N
    BY <1>2, <2>1, RingPlaceIs
  <2>4. RingSucc(N, t) = IF t = N - 1 THEN 0 ELSE t + 1
    BY RingSuccWraps
  <2> QED
    BY <1>4, <2>1, <2>2, <2>3, <2>4 DEF RingSlots
<1>7. b[t] \in B
  BY DEF RingBuffers
<1> HIDE DEF old, new, d
<1>8. <<b[t]>> \in Seq(B) /\ Len(<<b[t]>>) = 1 /\ <<b[t]>>[1] = b[t]
  BY <1>7
<1>9. /\ <<b[t]>> \o new \in Seq(B)
      /\ Len(<<b[t]>> \o new) = 1 + (d - 1)
      /\ \A k \in 1 .. 1 + (d - 1) :
            (<<b[t]>> \o new)[k] = IF k <= 1 THEN <<b[t]>>[k] ELSE new[k - 1]
  BY <1>3, <1>8, ConcatProperties
<1>10. \A k \in 1 .. d : old[k] = (<<b[t]>> \o new)[k]
  <2> TAKE k \in 1 .. d
  <2>1. CASE k = 1
    BY <1>1, <1>4, <1>5, <1>8, <1>9, <2>1
  <2>2. CASE k # 1
    <3>1. k \in 2 .. d /\ k - 1 \in 1 .. d - 1
      BY <1>4, <2>2
    <3>2. (<<b[t]>> \o new)[k] = new[k - 1]
      BY <1>4, <1>9, <3>1
    <3> QED
      BY <1>1, <1>3, <1>6, <3>1, <3>2
  <2> QED
    BY <2>1, <2>2
<1>11. old = <<b[t]>> \o new
  <2> DEFINE joined == <<b[t]>> \o new
  <2> HIDE DEF joined
  <2>1. joined \in Seq(B) /\ Len(old) = Len(joined)
    BY <1>1, <1>4, <1>9 DEF joined
  <2>2. \A k \in 1 .. Len(old) : old[k] = joined[k]
    BY <1>1, <1>10 DEF joined
  <2>3. old = joined
    BY <1>1, <2>1, <2>2, SeqEqual
  <2> QED BY <2>3 DEF joined
<1> QED
  BY <1>11 DEF old, new

\* The head's slot is not part of the content: it may be filled.
LEMMA RingContentWithoutHead ==
    ASSUME NEW N \in Nat \ {0}, NEW h \in RingSlots(N), NEW t \in RingSlots(N),
           NEW b, NEW f, \A i \in RingSlots(N) : i # h => f[i] = b[i]
    PROVE  RingContent(N, h, t, f) = RingContent(N, h, t, b)
<1>1. RingDistance(N, h, t) \in 0 .. N - 1
  BY RingDistanceIs
<1>2. \A k \in 1 .. RingDistance(N, h, t) : RingPlace(N, t, k) \in RingSlots(N) /\ RingPlace(N, t, k) # h
  <2> TAKE k \in 1 .. RingDistance(N, h, t)
  <2>1. k \in 1 .. N
    BY <1>1
  <2>2. /\ RingPlace(N, t, k) = IF t + k <= N THEN t + k - 1 ELSE t + k - 1 - N
        /\ RingPlace(N, t, k) \in RingSlots(N)
    BY <2>1, RingPlaceIs
  <2>3. RingDistance(N, h, t) = IF h >= t THEN h - t ELSE N + h - t
    BY RingDistanceIs
  <2> QED
    BY <1>1, <2>1, <2>2, <2>3 DEF RingSlots
<1>3. \A k \in 1 .. RingDistance(N, h, t) :
        f[RingPlace(N, t, k)] = b[RingPlace(N, t, k)]
  BY <1>2
<1> QED
  BY <1>3 DEF RingContent

-----------------------------------------------------------------------------
\* Packets end to end.  FlattenSeq is recursive, and what it computes follows
\* from a least counterexample.


\* A set of numbers that is not empty has a least member: the least
\* counterexample takes the place of induction.
LEMMA LeastNat ==
    ASSUME NEW T, T \subseteq Nat, T # {}
    PROVE  \E k \in T : \A m \in T : k <= m
<1>1. \A k, m \in Nat : <<m, k>> \in OpToRel(<, Nat) <=> m < k
  BY Zenon DEF OpToRel
<1>2. \E k \in T : \A m \in T : ~ (<<m, k>> \in OpToRel(<, Nat))
  BY NatLessThanWellFounded, WFMin, Zenon
<1>3. \E k \in T : \A m \in T : ~ (m < k)
  BY <1>1, <1>2, Zenon
<1> QED BY <1>3

\* Induction from 1 to n, for the set of the places where a formula fails.
LEMMA NoCounterexample ==
    ASSUME NEW n \in Nat, NEW T, T \subseteq 1 .. n,
           1 \notin T,
           \A m \in 1 .. n : (m # 1 /\ m - 1 \notin T) => m \notin T
    PROVE  T = {}
<1> SUFFICES ASSUME T # {} PROVE FALSE
  OBVIOUS
<1>1. PICK k \in T : \A m \in T : k <= m
  <2>1. T \subseteq Nat
    OBVIOUS
  <2> QED BY <2>1, LeastNat
<1>2. k \in 1 .. n /\ k # 1
  OBVIOUS
<1>3. k - 1 \in Int /\ ~ (k <= k - 1)
  BY <1>2
<1>4. k - 1 \notin T
  BY <1>1, <1>3
<1> QED BY <1>2, <1>4

\* What the recursive function of FlattenSeq computes, place by place.
Flattens(f, seqs) ==
    /\ f[1] = seqs[1]
    /\ \A i \in 1 .. Len(seqs) : i # 1 => f[i] = f[i - 1] \o seqs[i]

LEMMA FlattenFunction ==
    ASSUME NEW S, NEW seqs \in Seq(Seq(S)), seqs # <<>>
    PROVE  \E f \in [1 .. Len(seqs) -> Seq(S)] :
              Flattens(f, seqs) /\ FlattenSeq(seqs) = f[Len(seqs)]
<1> DEFINE n == Len(seqs)
           Fits(f, m) == f = [i \in 1 .. m |->
                                IF i = 1 THEN seqs[i] ELSE f[i - 1] \o seqs[i]]
           T == {m \in 1 .. n : ~ \E f \in [1 .. m -> Seq(S)] : Fits(f, m)}
<1>1. n \in Nat \ {0} /\ \A i \in 1 .. n : seqs[i] \in Seq(S)
  BY EmptySeq, LenProperties, ElementOfSeq
<1>2. 1 \notin T
  <2> DEFINE f == [i \in 1 .. 1 |-> seqs[1]]
  <2>1. f \in [1 .. 1 -> Seq(S)]
    BY <1>1
  <2>2. Fits(f, 1)
    OBVIOUS
  <2> QED BY <2>1, <2>2
<1>3. ASSUME NEW m \in 1 .. n, m # 1, m - 1 \notin T
      PROVE  m \notin T
  <2>1. PICK f \in [1 .. m - 1 -> Seq(S)] : Fits(f, m - 1)
    <3>1. m - 1 \in 1 .. n
      BY <1>1, <1>3
    <3> QED BY <3>1, <1>3
  <2> DEFINE g == [i \in 1 .. m |-> IF i = m THEN f[m - 1] \o seqs[m] ELSE f[i]]
  <2>2. m - 1 \in 1 .. m - 1 /\ f[m - 1] \in Seq(S) /\ seqs[m] \in Seq(S)
    BY <1>1, <1>3
  <2>3. f[m - 1] \o seqs[m] \in Seq(S)
    BY <2>2, ConcatProperties
  <2>4. \A i \in 1 .. m : i # m => i \in 1 .. m - 1
    BY <1>1, <1>3
  <2>5. g \in [1 .. m -> Seq(S)]
    BY <2>3, <2>4
  <2>6. \A i \in 1 .. m : g[i] = IF i = 1 THEN seqs[i] ELSE g[i - 1] \o seqs[i]
    <3> SUFFICES ASSUME NEW i \in 1 .. m
                 PROVE  g[i] = IF i = 1 THEN seqs[i] ELSE g[i - 1] \o seqs[i]
      OBVIOUS
    <3>1. CASE i = m
      <4>1. m - 1 \in 1 .. m /\ m - 1 # m /\ m \in 1 .. m
        BY <1>1, <1>3
      <4>2. g[m] = f[m - 1] \o seqs[m] /\ g[m - 1] = f[m - 1]
        BY <4>1
      <4> QED BY <3>1, <1>3, <4>2
    <3>2. CASE i # m
      <4>1. i \in 1 .. m - 1 /\ g[i] = f[i]
        BY <3>2, <2>4
      <4>2. f[i] = IF i = 1 THEN seqs[i] ELSE f[i - 1] \o seqs[i]
        BY <2>1, <4>1
      <4>3. i # 1 => (i - 1 \in 1 .. m /\ i - 1 # m /\ g[i - 1] = f[i - 1])
        BY <4>1
      <4> QED BY <4>1, <4>2, <4>3
    <3> QED BY <3>1, <3>2
  <2> HIDE DEF g
  <2>7. g = [i \in 1 .. m |-> g[i]]
    BY <2>5
  <2>8. Fits(g, m)
    BY <2>6, <2>7
  <2> QED BY <2>5, <2>8
<1>4. T = {}
  <2>1. T \subseteq 1 .. n
    OBVIOUS
  <2> HIDE DEF T
  <2> QED BY <1>1, <1>2, <1>3, <2>1, NoCounterexample
<1>5. PICK f \in [1 .. n -> Seq(S)] : Fits(f, n)
  <2>1. n \in 1 .. n
    BY <1>1
  <2>2. n \notin T
    BY <1>4
  <2> QED BY <2>1, <2>2
<1> DEFINE c == CHOOSE h : Fits(h, n)
<1>6. Fits(c, n)
  BY <1>5
<1>7. FlattenSeq(seqs) = c[n]
  BY <1>1 DEF FlattenSeq
<1>8. c \in [1 .. n -> Seq(S)]
  <2> HIDE DEF c
  <2> DEFINE U == {m \in 1 .. n : c[m] # f[m]}
  <2>1. 1 \notin U
    BY <1>1, <1>5, <1>6
  <2>2. ASSUME NEW m \in 1 .. n, m # 1, m - 1 \notin U
        PROVE  m \notin U
    <3>1. m - 1 \in 1 .. n /\ c[m - 1] = f[m - 1]
      BY <1>1, <2>2
    <3>2. c[m] = c[m - 1] \o seqs[m] /\ f[m] = f[m - 1] \o seqs[m]
      BY <1>5, <1>6, <2>2
    <3> QED BY <3>1, <3>2
  <2>3. U = {}
    <3>1. U \subseteq 1 .. n
      OBVIOUS
    <3> HIDE DEF U
    <3> QED BY <1>1, <2>1, <2>2, <3>1, NoCounterexample
  <2>4. \A m \in 1 .. n : c[m] \in Seq(S)
    BY <2>3
  <2>5. c = [i \in 1 .. n |-> c[i]]
    BY <1>6
  <2> QED BY <2>4, <2>5
<1> HIDE DEF c
<1>9. Flattens(c, seqs)
  <2>1. 1 \in 1 .. n
    BY <1>1
  <2>2. c[1] = seqs[1]
    BY <1>6, <2>1
  <2>3. \A i \in 1 .. n : i # 1 => c[i] = c[i - 1] \o seqs[i]
    BY <1>6
  <2> QED BY <2>2, <2>3 DEF Flattens
<1> QED BY <1>7, <1>8, <1>9

\* Concatenation associates, for all sequences at once.
IsAssociative(S) == \A a, b, c \in Seq(S) : (a \o b) \o c = a \o (b \o c)

LEMMA Associates ==
    ASSUME NEW S
    PROVE  IsAssociative(S)
<1> SUFFICES ASSUME NEW a \in Seq(S), NEW b \in Seq(S), NEW c \in Seq(S)
             PROVE  (a \o b) \o c = a \o (b \o c)
  BY DEF IsAssociative
<1> QED BY ConcatAssociative

\* The bytes of packets of bytes.
LEMMA FlattenType ==
    ASSUME NEW S, NEW seqs \in Seq(Seq(S))
    PROVE  FlattenSeq(seqs) \in Seq(S)
<1>1. CASE seqs = <<>>
  <2>1. FlattenSeq(seqs) = <<>>
    BY <1>1 DEF FlattenSeq
  <2> QED BY <2>1
<1>2. CASE seqs # <<>>
  <2>1. Len(seqs) \in Nat \ {0}
    BY <1>2, EmptySeq
  <2>2. Len(seqs) \in 1 .. Len(seqs)
    BY <2>1
  <2>3. PICK f \in [1 .. Len(seqs) -> Seq(S)] : FlattenSeq(seqs) = f[Len(seqs)]
    BY <1>2, FlattenFunction
  <2> QED BY <2>2, <2>3
<1> QED BY <1>1, <1>2

\* Without packets there are none.
LEMMA FlattenEmpty == FlattenSeq(<<>>) = <<>>
BY DEF FlattenSeq

\* A packet alone.
LEMMA FlattenOne ==
    ASSUME NEW S, NEW x \in Seq(S)
    PROVE  FlattenSeq(<<x>>) = x
<1>2. <<x>> \in Seq(Seq(S)) /\ <<x>> # <<>> /\ Len(<<x>>) = 1 /\ <<x>>[1] = x
  OBVIOUS
<1>3. PICK f \in [1 .. 1 -> Seq(S)] :
          Flattens(f, <<x>>) /\ FlattenSeq(<<x>>) = f[1]
  <2> DEFINE s == <<x>>
  <2>1. s \in Seq(Seq(S)) /\ s # <<>> /\ Len(s) = 1
    BY <1>2
  <2> HIDE DEF s
  <2>2. \E f \in [1 .. 1 -> Seq(S)] : Flattens(f, s) /\ FlattenSeq(s) = f[1]
    BY <2>1, FlattenFunction
  <2> QED BY <2>2 DEF s
<1>4. f[1] = x
  BY <1>2, <1>3 DEF Flattens
<1> QED BY <1>3, <1>4

\* Flattening goes packet by packet: what is appended comes last.
LEMMA FlattenAppend ==
    ASSUME NEW S, NEW seqs \in Seq(Seq(S)), NEW x \in Seq(S)
    PROVE  FlattenSeq(Append(seqs, x)) = FlattenSeq(seqs) \o x
<1>1. CASE seqs = <<>>
  <2>1. Append(seqs, x) = <<x>>
    BY <1>1
  <2>2. <<>> \o x = x
    BY ConcatEmptySeq
  <2> QED BY <1>1, <2>1, <2>2, FlattenOne, FlattenEmpty
<1>2. CASE seqs # <<>>
  <2> DEFINE n == Len(seqs)
             more == Append(seqs, x)
  <2>1. /\ n \in Nat \ {0} /\ more \in Seq(Seq(S)) /\ more # <<>>
        /\ Len(more) = n + 1
        /\ more[n + 1] = x
        /\ \A i \in 1 .. n : more[i] = seqs[i]
    BY <1>2, EmptySeq, AppendProperties
  <2>2. PICK f \in [1 .. n -> Seq(S)] :
            Flattens(f, seqs) /\ FlattenSeq(seqs) = f[n]
    BY <1>2, FlattenFunction
  <2>3. PICK g \in [1 .. n + 1 -> Seq(S)] :
            Flattens(g, more) /\ FlattenSeq(more) = g[n + 1]
    <3> HIDE DEF more
    <3>1. \E g \in [1 .. Len(more) -> Seq(S)] :
             Flattens(g, more) /\ FlattenSeq(more) = g[Len(more)]
      BY <2>1, FlattenFunction
    <3> QED BY <2>1, <3>1
  <2>11. /\ f[1] = seqs[1] /\ \A i \in 1 .. n : i # 1 => f[i] = f[i - 1] \o seqs[i]
    BY <2>2 DEF Flattens
  <2>12. /\ g[1] = more[1]
         /\ \A i \in 1 .. n + 1 : i # 1 => g[i] = g[i - 1] \o more[i]
    <3> HIDE DEF more
    <3> QED BY <2>1, <2>3 DEF Flattens
  <2> HIDE DEF n, more
  <2> DEFINE T == {i \in 1 .. n : f[i] # g[i]}
  <2>4. 1 \notin T
    BY <2>1, <2>11, <2>12
  <2>5. ASSUME NEW m \in 1 .. n, m # 1, m - 1 \notin T
        PROVE  m \notin T
    <3>1. m - 1 \in 1 .. n /\ f[m - 1] = g[m - 1] /\ m \in 1 .. n + 1
      BY <2>1, <2>5
    <3>2. f[m] = f[m - 1] \o seqs[m]
      BY <2>11, <2>5
    <3>3. g[m] = g[m - 1] \o more[m]
      BY <2>12, <2>5, <3>1
    <3> QED BY <2>1, <3>1, <3>2, <3>3
  <2>6. T = {}
    <3>1. T \subseteq 1 .. n
      OBVIOUS
    <3> HIDE DEF T
    <3> QED BY <2>1, <2>4, <2>5, <3>1, NoCounterexample
  <2>7. n \in 1 .. n /\ n + 1 \in 1 .. n + 1 /\ n + 1 # 1 /\ (n + 1) - 1 = n
    BY <2>1
  <2>8. f[n] = g[n]
    BY <2>6, <2>7
  <2>9. g[n + 1] = g[n] \o x
    BY <2>1, <2>12, <2>7
  <2>10. more = Append(seqs, x)
    BY DEF more
  <2> QED BY <2>2, <2>3, <2>8, <2>9, <2>10
<1> QED BY <1>1, <1>2

\* And the first packet comes first.
LEMMA FlattenHead ==
    ASSUME NEW S, NEW seqs \in Seq(Seq(S)), seqs # <<>>
    PROVE  FlattenSeq(seqs) = Head(seqs) \o FlattenSeq(Tail(seqs))
<1> DEFINE n == Len(seqs)
           rest == Tail(seqs)
<1>0. IsAssociative(S)
  BY Associates
<1>1. /\ n \in Nat \ {0} /\ rest \in Seq(Seq(S)) /\ Len(rest) = n - 1
      /\ \A i \in 1 .. n - 1 : rest[i] = seqs[i + 1]
      /\ Head(seqs) = seqs[1] /\ Head(seqs) \in Seq(S)
      /\ \A i \in 1 .. n : seqs[i] \in Seq(S)
  BY EmptySeq, HeadTailProperties, ElementOfSeq
<1>2. PICK f \in [1 .. n -> Seq(S)] :
          Flattens(f, seqs) /\ FlattenSeq(seqs) = f[n]
  BY FlattenFunction
<1>3. CASE n = 1
  <2>1. rest = <<>>
    <3> HIDE DEF n, rest
    <3>1. Len(rest) = 0
      BY <1>1, <1>3
    <3> QED BY <1>1, <3>1, EmptySeq
  <2>2. f[1] = seqs[1]
    BY <1>2, <1>3 DEF Flattens
  <2>3. FlattenSeq(rest) = <<>>
    BY <2>1 DEF FlattenSeq
  <2>4. Head(seqs) \o <<>> = Head(seqs)
    BY <1>1, ConcatEmptySeq
  <2> QED BY <1>1, <1>2, <1>3, <2>2, <2>3, <2>4
<1>4. CASE n # 1
  <2>1. n - 1 \in Nat \ {0} /\ rest # <<>>
    <3> HIDE DEF n, rest
    <3>1. n - 1 \in Nat \ {0}
      BY <1>1, <1>4
    <3>2. Len(rest) # 0
      BY <1>1, <3>1
    <3> QED BY <3>1, <3>2, EmptySeq
  <2>2. PICK g \in [1 .. n - 1 -> Seq(S)] :
            Flattens(g, rest) /\ FlattenSeq(rest) = g[n - 1]
    <3> HIDE DEF rest
    <3>1. \E g \in [1 .. Len(rest) -> Seq(S)] :
             Flattens(g, rest) /\ FlattenSeq(rest) = g[Len(rest)]
      BY <1>1, <2>1, FlattenFunction
    <3> QED BY <1>1, <3>1
  <2>11. /\ f[1] = seqs[1] /\ \A i \in 1 .. n : i # 1 => f[i] = f[i - 1] \o seqs[i]
    BY <1>2 DEF Flattens
  <2>12. /\ g[1] = rest[1]
         /\ \A i \in 1 .. n - 1 : i # 1 => g[i] = g[i - 1] \o rest[i]
    <3> HIDE DEF rest
    <3> QED BY <1>1, <2>2 DEF Flattens
  <2> HIDE DEF n, rest
  <2> DEFINE T == {i \in 1 .. n - 1 : f[i + 1] # seqs[1] \o g[i]}
  <2>3. 1 \notin T
    <3>1. 1 \in 1 .. n - 1 /\ 2 \in 1 .. n /\ 1 \in 1 .. n
      BY <1>1, <2>1
    <3>2. g[1] = rest[1] /\ rest[1] = seqs[2]
      BY <1>1, <2>12, <3>1
    <3>3. f[2] = f[1] \o seqs[2] /\ f[1] = seqs[1]
      <4>1. 2 # 1 /\ 2 - 1 = 1
        OBVIOUS
      <4> QED BY <2>11, <3>1, <4>1
    <3>4. f[2] = seqs[1] \o g[1]
      BY <3>2, <3>3
    <3>5. 1 + 1 = 2
      OBVIOUS
    <3> QED BY <3>4, <3>5
  <2>4. ASSUME NEW m \in 1 .. n - 1, m # 1, m - 1 \notin T
        PROVE  m \notin T
    <3>1. /\ m - 1 \in 1 .. n - 1 /\ (m - 1) + 1 = m
          /\ m \in 1 .. n /\ m + 1 \in 1 .. n /\ m + 1 # 1 /\ (m + 1) - 1 = m
      BY <1>1, <2>1, <2>4
    <3>2. f[m] = seqs[1] \o g[m - 1]
      BY <2>4, <3>1
    <3>3. f[m + 1] = f[m] \o seqs[m + 1]
      BY <2>11, <3>1
    <3>4. g[m] = g[m - 1] \o rest[m] /\ rest[m] = seqs[m + 1]
      BY <1>1, <2>12, <2>4
    <3>5. seqs[1] \in Seq(S) /\ g[m - 1] \in Seq(S) /\ seqs[m + 1] \in Seq(S)
      BY <1>1, <2>2, <3>1
    <3>6. (seqs[1] \o g[m - 1]) \o seqs[m + 1] = seqs[1] \o (g[m - 1] \o seqs[m + 1])
      BY <1>0, <3>5 DEF IsAssociative
    <3> QED BY <3>2, <3>3, <3>4, <3>6
  <2>5. T = {}
    <3>1. T \subseteq 1 .. n - 1
      OBVIOUS
    <3> HIDE DEF T
    <3> QED BY <2>1, <2>3, <2>4, <3>1, NoCounterexample
  <2>6. n - 1 \in 1 .. n - 1 /\ (n - 1) + 1 = n
    BY <2>1, <1>1
  <2>7. f[n] = seqs[1] \o g[n - 1]
    BY <2>5, <2>6
  <2>8. rest = Tail(seqs)
    BY DEF rest
  <2> QED BY <1>1, <1>2, <2>2, <2>7, <2>8
<1> QED BY <1>3, <1>4

\* What is behind the front of a sequence.
LEMMA BehindFront ==
    ASSUME NEW S, NEW h \in Seq(S), NEW c \in Seq(S)
    PROVE  SubSeq(h \o c, Len(h) + 1, Len(h \o c)) = c
<1>1. /\ h \o c \in Seq(S) /\ Len(h \o c) = Len(h) + Len(c)
      /\ \A i \in 1 .. Len(h) + Len(c) :
            (h \o c)[i] = IF i <= Len(h) THEN h[i] ELSE c[i - Len(h)]
      /\ Len(h) \in Nat /\ Len(c) \in Nat
  BY ConcatProperties, LenProperties
<1>2. \A i \in Len(h) + 1 .. Len(h) + Len(c) : (h \o c)[i] \in S
  BY <1>1, ElementOfSeq
<1> DEFINE s == SubSeq(h \o c, Len(h) + 1, Len(h) + Len(c))
<1>3. /\ s \in Seq(S)
      /\ Len(s) = IF Len(h) + 1 <= Len(h) + Len(c)
                  THEN Len(h) + Len(c) - (Len(h) + 1) + 1 ELSE 0
      /\ \A i \in 1 .. Len(h) + Len(c) - (Len(h) + 1) + 1 :
            s[i] = (h \o c)[Len(h) + 1 + i - 1]
  BY <1>1, <1>2, SubSeqProperties
<1>4. Len(s) = Len(c)
  BY <1>1, <1>3
<1>5. \A i \in 1 .. Len(c) : s[i] = c[i]
  BY <1>1, <1>3
<1>6. s = c
  BY <1>3, <1>4, <1>5, SeqEqual
<1> QED BY <1>1, <1>6
=============================================================================
