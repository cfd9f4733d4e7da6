--------------------------- MODULE UsbSendProofs ---------------------------
(***************************************************************************)
(* Proofs about sending over USB, for every endpoint size, number of banks *)
(* and data: whatever the handlers do between two steps of a call, the     *)
(* streams stay apart, a transfer ends where it should, and                *)
(* HID().SendReport() is the pipe of module ReportPipe.  Then about the    *)
(* keyboard, the pipe's user, for every number of slots, every set of keys *)
(* and modifiers and every depth of the pipe.                              *)
(***************************************************************************)
EXTENDS UsbSend, Keyboard, DataLemmas

-----------------------------------------------------------------------------
\* The inductive invariant, part by part.

\* What a bank holds.
Byte == Nat

InSend == pc \in {"space", "lock", "fill"}

UsbFlags ==
    /\ conf \in BOOLEAN /\ open \in BOOLEAN /\ enabled \in BOOLEAN /\ eorst \in BOOLEAN
    /\ sendZlp \in BOOLEAN /\ release \in BOOLEAN
    /\ full \in [Ins -> BOOLEAN] /\ refused \in [Ins -> BOOLEAN]

UsbData ==
    /\ uenum \in Ins \cup {"ep0"}
    /\ bank \in [Ins -> Seq(Byte)] /\ queue \in [Ins -> Seq(Seq(Byte))]
    /\ pc \in {"idle", "space", "lock", "fill", "count", "release"}
    /\ ep \in Ins /\ left \in Seq(Byte) /\ n \in Nat /\ body \in Seq(Byte)
    /\ pending \in [Ins -> Seq(Byte)]

UsbTypeOK == UsbFlags /\ UsbData

\* A bank that fills up is released at once; without endpoints there are no
\* banks; they are only there while the device is configured.
UsbBanks ==
    /\ \A e \in Ins : Len(bank[e]) < EpSize
    /\ ~enabled => bank = Nothing
    /\ enabled => conf /\ ~eorst

\* LockEP keeps the endpoint selected; a flush never finds the HID endpoint.
UsbSelected ==
    /\ pc = "fill" => uenum = ep
    /\ pc \in {"count", "release"} => uenum # "hid"

\* The locals of a call: what a round may write fits in the bank, and something
\* is left to do.
UsbRound ==
    /\ sendZlp => left = <<>>
    /\ InSend => left # <<>> \/ sendZlp
    /\ ~InSend => left = <<>> /\ ~sendZlp /\ ~release /\ body = <<>> /\ ep = "cdc"
    /\ pc \in {"lock", "fill"} =>
         /\ n <= Len(left) /\ Len(bank[ep]) + n <= EpSize
         /\ left # <<>> => n >= 1

\* A report on its way: the identifier is in the bank while the body is sent.
UsbReports ==
    /\ ep # "hid" => ~release /\ body = <<>>
    /\ InSend /\ ep = "hid" =>
         /\ ~sendZlp
         /\ release => /\ left \in ReportBodies /\ body = <<>>
                       /\ enabled => /\ bank["hid"] = <<ReportId>>
                                     /\ Len(queue["hid"]) < Banks["hid"]
         /\ ~release => left = <<ReportId>> /\ body \in ReportBodies
         /\ pc # "space" => n = Len(left)
    /\ ~release => bank["hid"] = <<>>

\* A full packet that ended what was released is followed by more.
UsbFull ==
    \A e \in Ins : (full[e] /\ bank[e] = <<>>) => refused[e] \/ (InSend /\ ep = e)

UsbInv ==
    /\ UsbTypeOK /\ UsbBanks /\ UsbSelected /\ UsbRound /\ UsbReports
    /\ StreamsKeptApart /\ UsbFull

-----------------------------------------------------------------------------
\* The streams: what the host and the banks do to packets in order.

\* Releasing a bank with more in it moves its bytes to the end of the queue.
LEMMA StreamRelease ==
    ASSUME NEW q \in Seq(Seq(Byte)), NEW b \in Seq(Byte), NEW more \in Seq(Byte)
    PROVE  /\ FlattenSeq(Append(q, b \o more)) \o <<>> = (FlattenSeq(q) \o b) \o more
           /\ FlattenSeq(q) \o (b \o more) = (FlattenSeq(q) \o b) \o more
<1>1. FlattenSeq(q) \in Seq(Byte) /\ b \o more \in Seq(Byte)
  BY FlattenType, ConcatProperties
<1>2. FlattenSeq(Append(q, b \o more)) = FlattenSeq(q) \o (b \o more)
  BY <1>1, FlattenAppend
<1>3. FlattenSeq(q) \o (b \o more) \in Seq(Byte)
  BY <1>1, ConcatProperties
<1>4. (FlattenSeq(q) \o (b \o more)) \o <<>> = FlattenSeq(q) \o (b \o more)
  BY <1>3, ConcatEmptySeq
<1>5. FlattenSeq(q) \o (b \o more) = (FlattenSeq(q) \o b) \o more
  <2>1. IsAssociative(Byte)
    BY Associates
  <2>2. PICK f \in Seq(Byte) : f = FlattenSeq(q)
    BY <1>1
  <2>3. f \o (b \o more) = (f \o b) \o more
    BY <2>1 DEF IsAssociative
  <2> QED BY <2>2, <2>3
<1> QED BY <1>2, <1>4, <1>5

\* The host takes the oldest packet: its bytes leave the front.
LEMMA StreamTake ==
    ASSUME NEW q \in Seq(Seq(Byte)), NEW b \in Seq(Byte), q # <<>>
    PROVE  SubSeq(FlattenSeq(q) \o b, Len(Head(q)) + 1, Len(FlattenSeq(q) \o b))
             = FlattenSeq(Tail(q)) \o b
<1>1. PICK h \in Seq(Byte), r \in Seq(Byte) : h = Head(q) /\ r = FlattenSeq(Tail(q))
  <2>1. Head(q) \in Seq(Byte) /\ Tail(q) \in Seq(Seq(Byte))
    BY HeadTailProperties
  <2>2. FlattenSeq(Tail(q)) \in Seq(Byte)
    BY <2>1, FlattenType
  <2> QED BY <2>1, <2>2
<1>2. FlattenSeq(q) = h \o r
  BY <1>1, FlattenHead
<1>3. (h \o r) \o b = h \o (r \o b) /\ r \o b \in Seq(Byte)
  <2>1. (h \o r) \o b = h \o (r \o b)
    BY ConcatAssociative
  <2>2. r \o b \in Seq(Byte)
    BY ConcatProperties
  <2> QED BY <2>1, <2>2
<1>4. SubSeq(h \o (r \o b), Len(h) + 1, Len(h \o (r \o b))) = r \o b
  BY <1>3, BehindFront
<1> QED BY <1>1, <1>2, <1>3, <1>4

\* The smaller of two numbers.
LEMMA MinOfTwo ==
    ASSUME NEW a \in Nat, NEW b \in Nat
    PROVE  Min({a, b}) = IF a <= b THEN a ELSE b
<1> DEFINE m == IF a <= b THEN a ELSE b
<1>1. m \in {a, b} /\ \A y \in {a, b} : m =< y
  OBVIOUS
<1>2. \A x \in {a, b} : (\A y \in {a, b} : x =< y) => x = m
  OBVIOUS
<1> HIDE DEF m
<1>3. Min({a, b}) = m
  BY <1>1, <1>2 DEF Min
<1> QED BY <1>3 DEF m

\* The front and the rest of what is left to send.
LEMMA FrontAndRest ==
    ASSUME NEW S, NEW s \in Seq(S), NEW k \in 0 .. Len(s)
    PROVE  /\ SubSeq(s, 1, k) \in Seq(S) /\ Len(SubSeq(s, 1, k)) = k
           /\ SubSeq(s, k + 1, Len(s)) \in Seq(S)
           /\ Len(SubSeq(s, k + 1, Len(s))) = Len(s) - k
           /\ k = Len(s) => /\ SubSeq(s, 1, k) = s
                            /\ SubSeq(s, k + 1, Len(s)) = <<>>
<1>1. Len(s) \in Nat /\ \A i \in 1 .. Len(s) : s[i] \in S
  BY LenProperties, ElementOfSeq
<1>2. /\ SubSeq(s, 1, k) \in Seq(S)
      /\ Len(SubSeq(s, 1, k)) = IF 1 <= k THEN k - 1 + 1 ELSE 0
  <2>1. \A i \in 1 .. k : s[i] \in S
    BY <1>1
  <2> QED BY <2>1, SubSeqProperties
<1>3. /\ SubSeq(s, k + 1, Len(s)) \in Seq(S)
      /\ Len(SubSeq(s, k + 1, Len(s))) = IF k + 1 <= Len(s) THEN Len(s) - (k + 1) + 1 ELSE 0
  <2>1. \A i \in k + 1 .. Len(s) : s[i] \in S
    BY <1>1
  <2>2. k + 1 \in Int /\ Len(s) \in Int
    BY <1>1
  <2> QED BY <2>1, <2>2, SubSeqProperties
<1>4. ASSUME k = Len(s)
      PROVE  SubSeq(s, 1, k) = s /\ SubSeq(s, k + 1, Len(s)) = <<>>
  BY <1>1, <1>4, SubSeqFull, SubSeqEmpty
<1> QED BY <1>1, <1>2, <1>3, <1>4

-----------------------------------------------------------------------------
\* One lemma for every action.

\* What the sketch sends are bytes, and a report fits in a bank with room left.
LEMMA SentData ==
    /\ \A d \in CdcTexts \cup MidiEvents \cup ReportBodies :
          d \in Seq(Byte) /\ d # <<>> /\ Len(d) \in Nat \ {0}
    /\ ReportId \in Byte /\ <<ReportId>> \in Seq(Byte)
    /\ \A d \in ReportBodies : Len(d) + 1 < EpSize /\ Whole(d) \in Seq(Byte)
<1>1. \A d \in CdcTexts \cup MidiEvents \cup ReportBodies :
          d \in Seq(Byte) /\ d # <<>> /\ Len(d) \in Nat \ {0}
  BY UsbDataAssumption, EmptySeq DEF Byte
<1>2. ReportId \in Byte /\ <<ReportId>> \in Seq(Byte) /\ Len(<<ReportId>>) = 1
  BY UsbDataAssumption DEF Byte
<1>3. ASSUME NEW d \in ReportBodies
      PROVE  Len(d) + 1 < EpSize /\ Whole(d) \in Seq(Byte)
  <2>1. /\ <<ReportId>> \o d \in Seq(Byte)
        /\ Len(<<ReportId>> \o d) = Len(<<ReportId>>) + Len(d)
    <3>1. d \in Seq(Byte) /\ <<ReportId>> \in Seq(Byte)
      BY <1>1, <1>2
    <3> QED BY <3>1, ConcatProperties
  <2>2. Len(<<ReportId>> \o d) < EpSize
    BY UsbDataAssumption DEF Whole
  <2> QED BY <1>1, <1>2, <2>1, <2>2 DEF Whole
<1> QED BY <1>1, <1>2, <1>3

\* The invariant holds before the first step.
LEMMA UsbInitInv == UsbInit => UsbInv
<1> SUFFICES ASSUME UsbInit PROVE UsbInv
  OBVIOUS
<1> USE UsbSizesAssumption DEF UsbInit, Nothing
<1>1. UsbTypeOK
  <2>1. UsbFlags
    BY DEF UsbFlags, Ins
  <2>2. UsbData
    BY DEF UsbData, Ins
  <2> QED BY <2>1, <2>2 DEF UsbTypeOK
<1>4. UsbSelected /\ UsbFull
  BY DEF UsbSelected, UsbFull, Ins
<1>2. UsbBanks /\ UsbRound /\ UsbReports
  BY DEF UsbBanks, UsbRound, UsbReports, InSend, Ins
<1>3. StreamsKeptApart
  <2>1. FlattenSeq(<<>>) = <<>> /\ <<>> \in Seq(Byte)
    BY FlattenEmpty, EmptySeq
  <2>2. <<>> \o <<>> = <<>>
    BY <2>1, ConcatEmptySeq
  <2> QED BY <2>1, <2>2 DEF StreamsKeptApart
<1> QED BY <1>1, <1>2, <1>3, <1>4 DEF UsbInv

\* A step that leaves the hardware alone keeps the streams.
LEMMA StreamsStay ==
    ASSUME UsbInv, UNCHANGED <<queue, bank, pending>>
    PROVE  StreamsKeptApart'
BY DEF UsbInv, StreamsKeptApart

\* A call begins: what it sends are bytes, and a report begins with its
\* identifier.
LEMMA StartSendInv ==
    ASSUME UsbInv, NEW e \in Ins, NEW data \in Seq(Byte), NEW next \in Seq(Byte),
           data # <<>>, StartSend(e, data, next),
           IF e = "hid" THEN data = <<ReportId>> /\ next \in ReportBodies
                        ELSE next = <<>>
    PROVE  UsbInv'
<1> USE DEF UsbInv, StartSend, hardware, call
<1>1. UsbTypeOK'
  BY DEF UsbTypeOK, UsbFlags, UsbData
<1>2. UsbBanks' /\ UsbSelected'
  BY DEF UsbBanks, UsbSelected
<1>3. UsbRound'
  BY DEF UsbRound, InSend, UsbTypeOK, UsbFlags, UsbData
<1>4. UsbReports'
  BY DEF UsbReports, UsbRound, InSend, UsbTypeOK, UsbFlags, UsbData
<1>5. UsbFull'
  BY DEF UsbFull, InSend, UsbTypeOK, UsbFlags, UsbData
<1> QED BY <1>1, <1>2, <1>3, <1>4, <1>5, StreamsStay

\* The first step of a round of USB_Send() keeps the invariant.
LEMMA SendSpaceInv ==
    ASSUME UsbInv, SendSpace
    PROVE  UsbInv'
<1> USE DEF UsbInv, SendSpace, hardware
<1> DEFINE room == EpSize - Len(bank[ep])
<1>1. /\ Len(bank[ep]) \in Nat /\ Len(left) \in Nat /\ EpSize \in Nat \ {0}
      /\ room \in Nat /\ room >= 1
  BY UsbSizesAssumption, LenProperties DEF UsbTypeOK, UsbFlags, UsbData, UsbBanks
<1>2. CASE Allowed(ep)
  <2>1. /\ pc' = "lock" /\ pc = "space" /\ uenum' = ep
        /\ n' = IF room <= Len(left) THEN room ELSE Len(left)
        /\ UNCHANGED <<ep, left, sendZlp, release, body, refused, conf, open, enabled,
                       eorst, bank, queue, pending, full>>
    BY <1>1, <1>2, MinOfTwo
  <2> HIDE DEF SendSpace
  <2>2. n' \in Nat /\ n' <= Len(left) /\ n' <= room
    <3> HIDE DEF room
    <3> QED BY <1>1, <2>1
  <2>9. Len(bank[ep]) + n' <= EpSize
    BY <1>1, <2>2
  <2>3. left # <<>> => n' >= 1
    BY <1>1, <2>1, EmptySeq DEF UsbTypeOK, UsbData
  <2> HIDE DEF room
  <2>4. UsbTypeOK'
    BY <2>1, <2>2 DEF UsbTypeOK, UsbFlags, UsbData
  <2>5. UsbBanks' /\ UsbSelected'
    BY <2>1 DEF UsbBanks, UsbSelected
  <2>6. UsbRound'
    BY <2>1, <2>2, <2>3, <2>9 DEF UsbRound, InSend
  <2>7. UsbReports'
    <3>1. ASSUME ep = "hid" PROVE n' = Len(left)
      <4>1. CASE release
        <5>1. left \in ReportBodies /\ bank["hid"] = <<ReportId>> /\ Len(bank["hid"]) = 1
          BY <1>2, <2>1, <3>1, <4>1 DEF UsbReports, InSend, Allowed, BankFree
        <5>2. Len(left) + 1 < EpSize
          BY <5>1, SentData
        <5> QED BY <1>1, <2>1, <3>1, <5>1, <5>2 DEF room
      <4>2. CASE ~release
        <5>1. left = <<ReportId>>
          BY <2>1, <3>1, <4>2 DEF UsbReports, InSend
        <5>2. Len(left) = 1
          BY <5>1
        <5> QED BY <1>1, <2>1, <5>2
      <4> QED BY <4>1, <4>2
    <3> QED BY <2>1, <3>1 DEF UsbReports, InSend
  <2>8. UsbFull'
    BY <2>1 DEF UsbFull, InSend
  <2> QED BY <2>1, <2>4, <2>5, <2>6, <2>7, <2>8, StreamsStay
<1>3. CASE ~Allowed(ep)
  <2>1. /\ pc' = "idle" /\ left' = <<>> /\ n' = 0 /\ sendZlp' = FALSE
        /\ release' = FALSE /\ body' = <<>> /\ ep' = "cdc"
        /\ refused' = [refused EXCEPT ![ep] = TRUE]
        /\ pc = "space" /\ uenum' = ep
        /\ UNCHANGED <<conf, open, enabled, eorst, bank, queue, pending, full>>
    BY <1>3 DEF Return
  <2> HIDE DEF SendSpace
  <2>2. UsbTypeOK'
    <3>1. UsbFlags'
      BY <2>1 DEF UsbTypeOK, UsbFlags, Ins
    <3>2. UsbData'
      BY <2>1, EmptySeq DEF UsbTypeOK, UsbData, Ins
    <3> QED BY <3>1, <3>2 DEF UsbTypeOK
  <2>3. UsbBanks' /\ UsbSelected'
    BY <2>1 DEF UsbBanks, UsbSelected
  <2>4. UsbRound'
    BY <2>1 DEF UsbRound, InSend
  <2>5. UsbReports'
    <3>1. bank["hid"] = <<>>
      BY <1>1, <1>3, <2>1
      DEF UsbReports, UsbBanks, InSend, Allowed, BankFree, Nothing, UsbTypeOK, UsbFlags, UsbData, Ins
    <3> QED BY <2>1, <3>1 DEF UsbReports, InSend
  <2>6. UsbFull'
    BY <2>1 DEF UsbFull, InSend, UsbTypeOK, UsbFlags, UsbData
  <2> QED BY <2>1, <2>2, <2>3, <2>4, <2>5, <2>6, StreamsStay
<1> QED BY <1>2, <1>3

\* A round of USB_Send() in the lock: what it does to the endpoint and to the
\* locals, in terms of the endpoint of the call.
LEMMA FillSteps ==
    ASSUME UsbInv, Fill, Allowed(uenum), NEW more, NEW rest, NEW fills, NEW last,
           more = SubSeq(left, 1, n), rest = SubSeq(left, n + 1, Len(left)),
           fills = (Len(bank[ep]) + n >= EpSize), last = (n = Len(left))
    PROVE  /\ uenum = ep /\ enabled /\ conf /\ Len(queue[ep]) < Banks[ep]
           /\ more \in Seq(Byte) /\ Len(more) = n
           /\ rest \in Seq(Byte) /\ Len(rest) = Len(left) - n
           /\ n = Len(left) => more = left /\ rest = <<>>
           /\ pending' = [pending EXCEPT ![ep] = @ \o more]
           /\ IF Releases(fills, last)
              THEN /\ queue' = [queue EXCEPT ![ep] = Append(@, bank[ep] \o more)]
                   /\ bank' = [bank EXCEPT ![ep] = <<>>]
                   /\ full' = [full EXCEPT ![ep] = Len(bank[ep] \o more) = EpSize]
              ELSE /\ bank' = [bank EXCEPT ![ep] = @ \o more]
                   /\ UNCHANGED <<queue, full>>
           /\ Continue(rest, NeedsZlp(fills, last))
           /\ UNCHANGED <<conf, open, enabled, eorst, uenum>>
<1>1. uenum = ep /\ ep \in Ins /\ left \in Seq(Byte) /\ n \in 0 .. Len(left)
  BY LenProperties DEF UsbInv, UsbSelected, UsbRound, UsbTypeOK, UsbData, Fill
<1>2. BankFree(ep) /\ enabled /\ Len(queue[ep]) < Banks[ep]
  BY <1>1 DEF Allowed, BankFree
<1>3. conf
  BY <1>2 DEF UsbInv, UsbBanks
<1>4. /\ WriteBank(Releases(fills, last))
      /\ pending' = [pending EXCEPT ![ep] = @ \o more]
      /\ Continue(rest, NeedsZlp(fills, last))
      /\ UNCHANGED <<conf, open, enabled, eorst, uenum>>
  BY <1>1 DEF Fill, StillAllowed
<1>5. IF Releases(fills, last)
      THEN Release(ep, more)
      ELSE /\ bank' = [bank EXCEPT ![ep] = @ \o more]
           /\ UNCHANGED <<queue, full>>
  BY <1>1, <1>4 DEF WriteBank
<1>6. /\ more \in Seq(Byte) /\ Len(more) = n
      /\ rest \in Seq(Byte) /\ Len(rest) = Len(left) - n
      /\ n = Len(left) => more = left /\ rest = <<>>
  BY <1>1, FrontAndRest
<1> QED BY <1>1, <1>2, <1>3, <1>4, <1>5, <1>6 DEF Release

\* So does the step that writes to the bank, and releases it when it is full.
LEMMA FillInv ==
    ASSUME UsbInv, Fill
    PROVE  UsbInv'
<1>1. CASE ~Allowed(uenum)
  <2> USE <1>1 DEF Fill, StillAllowed, UsbInv
  <2>1. UsbTypeOK'
    BY DEF UsbTypeOK, UsbFlags, UsbData
  <2>2. UsbBanks' /\ UsbSelected' /\ UsbFull'
    BY DEF UsbBanks, UsbSelected, UsbFull, InSend
  <2>3. UsbRound' /\ UsbReports'
    BY DEF UsbRound, UsbReports, InSend
  <2>4. StreamsKeptApart'
    BY DEF StreamsKeptApart
  <2> QED BY <2>1, <2>2, <2>3, <2>4
<1>2. CASE Allowed(uenum)
  <2> DEFINE more == SubSeq(left, 1, n)
             rest == SubSeq(left, n + 1, Len(left))
             fills == Len(bank[ep]) + n >= EpSize
             last == n = Len(left)
             put == bank[ep] \o more
  <2>1. /\ uenum = ep /\ enabled /\ conf /\ Len(queue[ep]) < Banks[ep]
        /\ more \in Seq(Byte) /\ Len(more) = n
        /\ rest \in Seq(Byte) /\ Len(rest) = Len(left) - n
        /\ n = Len(left) => more = left /\ rest = <<>>
        /\ pending' = [pending EXCEPT ![ep] = @ \o more]
        /\ IF Releases(fills, last)
           THEN /\ queue' = [queue EXCEPT ![ep] = Append(@, put)]
                /\ bank' = [bank EXCEPT ![ep] = <<>>]
                /\ full' = [full EXCEPT ![ep] = Len(put) = EpSize]
           ELSE /\ bank' = [bank EXCEPT ![ep] = put]
                /\ UNCHANGED <<queue, full>>
        /\ Continue(rest, NeedsZlp(fills, last))
        /\ UNCHANGED <<conf, open, enabled, eorst, uenum>>
    BY <1>2, FillSteps
  <2> HIDE DEF more, rest
  <2>2. pc = "fill" /\ InSend
    BY DEF Fill, InSend
  <2>3. /\ ep \in Ins /\ bank[ep] \in Seq(Byte) /\ left \in Seq(Byte) /\ n \in Nat
        /\ queue[ep] \in Seq(Seq(Byte)) /\ pending[ep] \in Seq(Byte)
        /\ Len(bank[ep]) \in Nat /\ Len(left) \in Nat /\ EpSize \in Nat \ {0}
        /\ n <= Len(left) /\ Len(bank[ep]) + n <= EpSize
        /\ left # <<>> => n >= 1
        /\ left # <<>> \/ sendZlp
        /\ sendZlp => left = <<>>
        /\ Len(bank[ep]) < EpSize
    BY <2>2, UsbSizesAssumption, LenProperties
    DEF UsbInv, UsbTypeOK, UsbData, UsbRound, UsbBanks
  <2>4. put \in Seq(Byte) /\ Len(put) = Len(bank[ep]) + n
    <3>1. bank[ep] \in Seq(Byte) /\ more \in Seq(Byte) /\ Len(more) = n
      BY <2>1, <2>3
    <3> QED BY <3>1, ConcatProperties
  <2>5. put = <<>> => n = 0
    <3> HIDE DEF put
    <3>1. put = <<>> => Len(put) = 0
      OBVIOUS
    <3> QED BY <2>3, <2>4, <3>1
  <2>6. /\ fills <=> Len(put) >= EpSize
        /\ last <=> rest = <<>>
    <3> HIDE DEF put
    <3>1. rest = <<>> <=> Len(rest) = 0
      BY <2>1, EmptySeq
    <3>2. Len(rest) = Len(left) - n
      BY <2>1
    <3> QED BY <2>3, <2>4, <3>1, <3>2
  <2> HIDE DEF put, fills, last
  <2>7. \/ /\ rest # <<>> \/ NeedsZlp(fills, last)
           /\ pc' = "space" /\ left' = rest /\ sendZlp' = NeedsZlp(fills, last) /\ n' = 0
           /\ UNCHANGED <<ep, release, body, refused>>
        \/ /\ rest = <<>> /\ ~NeedsZlp(fills, last) /\ body # <<>>
           /\ pc' = "space" /\ left' = body /\ sendZlp' = FALSE /\ n' = 0
           /\ release' = TRUE /\ body' = <<>>
           /\ UNCHANGED <<ep, refused>>
        \/ /\ rest = <<>> /\ ~NeedsZlp(fills, last) /\ body = <<>>
           /\ pc' = "idle" /\ left' = <<>> /\ n' = 0 /\ sendZlp' = FALSE
           /\ release' = FALSE /\ body' = <<>> /\ ep' = "cdc"
           /\ refused' = [refused EXCEPT ![ep] = FALSE]
    BY <2>1 DEF Continue, Return
  <2>8. /\ bank' = [bank EXCEPT ![ep] = IF Releases(fills, last) THEN <<>> ELSE put]
        /\ bank' \in [Ins -> Seq(Byte)]
        /\ queue' \in [Ins -> Seq(Seq(Byte))]
        /\ pending' \in [Ins -> Seq(Byte)]
    <3>1. Append(queue[ep], put) \in Seq(Seq(Byte))
      BY <2>3, <2>4, AppendProperties
    <3>2. pending[ep] \o more \in Seq(Byte)
      <4>1. pending[ep] \in Seq(Byte) /\ more \in Seq(Byte)
        BY <2>1, <2>3
      <4> QED BY <4>1, ConcatProperties
    <3>3. /\ bank \in [Ins -> Seq(Byte)] /\ queue \in [Ins -> Seq(Seq(Byte))]
          /\ pending \in [Ins -> Seq(Byte)] /\ <<>> \in Seq(Byte)
      BY EmptySeq DEF UsbInv, UsbTypeOK, UsbData
    <3>4. bank' = [bank EXCEPT ![ep] = IF Releases(fills, last) THEN <<>> ELSE put]
      BY <2>1
    <3>5. bank' \in [Ins -> Seq(Byte)]
      BY <2>4, <3>3, <3>4
    <3>6. queue' \in [Ins -> Seq(Seq(Byte))]
      BY <2>1, <3>1, <3>3
    <3>7. pending' \in [Ins -> Seq(Byte)]
      BY <2>1, <3>2, <3>3
    <3> QED BY <3>4, <3>5, <3>6, <3>7
  <2>9. UsbTypeOK'
    <3>1. UsbFlags'
      <4>1. full' \in [Ins -> BOOLEAN]
        BY <2>1, <2>3 DEF UsbInv, UsbTypeOK, UsbFlags
      <4>2. refused' \in [Ins -> BOOLEAN]
        BY <2>3, <2>7 DEF UsbInv, UsbTypeOK, UsbFlags
      <4>3. NeedsZlp(fills, last) \in BOOLEAN
        BY DEF NeedsZlp
      <4>4. sendZlp' \in BOOLEAN /\ release' \in BOOLEAN
        BY <2>7, <4>3 DEF UsbInv, UsbTypeOK, UsbFlags
      <4> QED BY <2>1, <4>1, <4>2, <4>4 DEF UsbInv, UsbTypeOK, UsbFlags
    <3>2. UsbData'
      <4>1. /\ pc' \in {"idle", "space"} /\ ep' \in {ep, "cdc"} /\ n' = 0
            /\ left' \in {<<>>, rest, body} /\ body' \in {<<>>, body}
        BY <2>7
      <4>2. <<>> \in Seq(Byte) /\ rest \in Seq(Byte) /\ uenum' = uenum
        BY <2>1, EmptySeq
      <4> QED BY <2>8, <4>1, <4>2 DEF UsbInv, UsbTypeOK, UsbData, Ins
    <3> QED BY <3>1, <3>2 DEF UsbTypeOK
  <2>10. UsbBanks'
    <3>1. Len(bank'[ep]) < EpSize
      BY <2>3, <2>6, <2>8, EmptySeq DEF UsbInv, UsbTypeOK, UsbData, Releases
    <3> QED BY <2>1, <2>8, <3>1 DEF UsbInv, UsbBanks, UsbTypeOK, UsbData
  <2>11. UsbSelected'
    BY <2>7 DEF UsbSelected
  <2>12. UsbRound'
    BY <2>1, <2>3, <2>6, <2>7 DEF UsbInv, UsbRound, InSend, NeedsZlp, UsbTypeOK, UsbFlags
  <2>13. StreamsKeptApart'
    <3> SUFFICES ASSUME NEW e \in Ins
                 PROVE  FlattenSeq(queue'[e]) \o bank'[e] = pending'[e]
      BY DEF StreamsKeptApart
    <3>1. FlattenSeq(queue[e]) \o bank[e] = pending[e]
      BY DEF UsbInv, StreamsKeptApart
    <3>2. CASE e # ep
      BY <2>1, <3>1, <3>2 DEF UsbInv, UsbTypeOK, UsbData
    <3>3. CASE e = ep
      <4>1. /\ FlattenSeq(Append(queue[ep], put)) \o <<>> = pending[ep] \o more
            /\ FlattenSeq(queue[ep]) \o put = pending[ep] \o more
        <5>1. more \in Seq(Byte) /\ FlattenSeq(queue[ep]) \o bank[ep] = pending[ep]
          BY <2>1, <3>1, <3>3
        <5>2. PICK q \in Seq(Seq(Byte)), b \in Seq(Byte), m \in Seq(Byte) :
                  q = queue[ep] /\ b = bank[ep] /\ m = more
          BY <2>3, <5>1
        <5>3. /\ FlattenSeq(Append(q, b \o m)) \o <<>> = (FlattenSeq(q) \o b) \o m
              /\ FlattenSeq(q) \o (b \o m) = (FlattenSeq(q) \o b) \o m
          BY StreamRelease
        <5> QED BY <5>1, <5>2, <5>3 DEF put
      <4> QED BY <2>1, <2>3, <3>3, <4>1 DEF UsbInv, UsbTypeOK, UsbData
    <3> QED BY <3>2, <3>3
  <2>14. UsbReports'
    <3>1. CASE ep # "hid"
      <4>1. bank'["hid"] = bank["hid"] /\ body = <<>> /\ ~release
        BY <2>1, <3>1 DEF UsbInv, UsbReports, UsbTypeOK, UsbData, Ins
      <4>2. bank["hid"] = <<>>
        BY <4>1 DEF UsbInv, UsbReports
      <4> QED BY <2>7, <3>1, <4>1, <4>2 DEF UsbReports, InSend
    <3>2. CASE ep = "hid" /\ ~release
      <4>1. left = <<ReportId>> /\ body \in ReportBodies /\ ~sendZlp /\ n = Len(left)
        BY <2>2, <3>2 DEF UsbInv, UsbReports
      <4>2. body # <<>> /\ body \in Seq(Byte) /\ Len(body) \in Nat /\ Len(body) # 0
        BY <4>1, SentData
      <4>3. EpSize > 2
        <5>1. Len(body) + 1 < EpSize
          BY <4>1, SentData
        <5> QED BY <2>3, <4>2, <5>1
      <4>4. bank["hid"] = <<>> /\ Len(bank[ep]) = 0 /\ n = 1
        BY <3>2, <4>1 DEF UsbInv, UsbReports
      <4>5. ~fills /\ put = <<ReportId>>
        <5>1. more = left
          BY <2>1, <4>1
        <5>2. <<>> \o <<ReportId>> = <<ReportId>>
          BY SentData, ConcatEmptySeq
        <5> QED BY <2>3, <3>2, <4>1, <4>3, <4>4, <5>1, <5>2 DEF put, fills
      <4>6. ~Releases(fills, last) /\ ~NeedsZlp(fills, last) /\ rest = <<>>
        BY <2>1, <3>2, <4>1, <4>5 DEF Releases, NeedsZlp
      <4>7. bank'["hid"] = <<ReportId>> /\ queue' = queue
        BY <2>1, <2>3, <3>2, <4>5, <4>6 DEF UsbInv, UsbTypeOK, UsbData
      <4>8. /\ pc' = "space" /\ left' = body /\ sendZlp' = FALSE
            /\ release' = TRUE /\ body' = <<>> /\ ep' = "hid"
        BY <2>7, <3>2, <4>2, <4>6
      <4> QED BY <2>1, <3>2, <4>1, <4>7, <4>8 DEF UsbReports, InSend
    <3>3. CASE ep = "hid" /\ release
      <4>1. /\ left \in ReportBodies /\ body = <<>> /\ ~sendZlp /\ n = Len(left)
            /\ bank["hid"] = <<ReportId>> /\ Len(bank["hid"]) = 1
        BY <2>1, <2>2, <3>3 DEF UsbInv, UsbReports
      <4>2. ~fills
        <5>1. Len(left) + 1 < EpSize
          BY <4>1, SentData
        <5> QED BY <2>3, <3>3, <4>1, <5>1 DEF fills
      <4>3. Releases(fills, last) /\ ~NeedsZlp(fills, last) /\ rest = <<>>
        BY <2>1, <2>6, <3>3, <4>1, <4>2 DEF Releases, NeedsZlp
      <4>4. bank'["hid"] = <<>>
        BY <2>1, <2>3, <3>3, <4>3 DEF UsbInv, UsbTypeOK, UsbData
      <4> QED BY <2>7, <4>1, <4>3, <4>4 DEF UsbReports, InSend
    <3> QED BY <3>1, <3>2, <3>3
  <2>15. UsbFull'
    <3> SUFFICES ASSUME NEW e \in Ins, full'[e], bank'[e] = <<>>
                 PROVE  refused'[e] \/ (InSend' /\ ep' = e)
      BY DEF UsbFull
    <3>1. CASE e # ep
      <4>1. full[e] /\ bank[e] = <<>>
        BY <2>1, <2>3, <3>1 DEF UsbInv, UsbTypeOK, UsbFlags, UsbData
      <4>2. refused[e]
        BY <3>1, <4>1 DEF UsbInv, UsbFull
      <4> QED BY <2>7, <3>1, <4>2 DEF UsbInv, UsbTypeOK, UsbFlags
    <3>2. CASE e = ep /\ pc' = "space"
      BY <2>7, <3>2 DEF InSend
    <3>3. CASE e = ep /\ pc' # "space"
      <4>1. rest = <<>> /\ ~NeedsZlp(fills, last) /\ body = <<>>
        BY <2>7, <3>3
      <4>2. CASE Releases(fills, last)
        <5>1. full'[e] = (Len(put) = EpSize)
          BY <2>1, <3>3, <4>2 DEF UsbInv, UsbTypeOK, UsbFlags
        <5>2. fills
          <6>1. Len(put) = EpSize
            BY <5>1
          <6> QED BY <2>3, <2>6, <6>1
        <5>3. sendZlp
          BY <2>6, <4>1, <5>2 DEF NeedsZlp
        <5>4. n = 0 /\ Len(bank[ep]) >= EpSize
          BY <2>3, <5>2, <5>3 DEF fills
        <5> QED BY <2>3, <5>4
      <4>3. CASE ~Releases(fills, last)
        <5>1. put = <<>>
          BY <2>3, <2>8, <3>3, <4>3 DEF UsbInv, UsbTypeOK, UsbData
        <5>2. left = <<>> /\ sendZlp
          BY <2>3, <2>5, <5>1
        <5> QED BY <4>3, <5>2 DEF Releases
      <4> QED BY <4>2, <4>3
    <3> QED BY <3>1, <3>2, <3>3
  <2> QED BY <2>9, <2>10, <2>11, <2>12, <2>13, <2>14, <2>15 DEF UsbInv
<1> QED BY <1>1, <1>2

\* What a step that at most releases a bank does to the hardware.
Kept ==
    /\ bank' \in [Ins -> Seq(Byte)] /\ queue' \in [Ins -> Seq(Seq(Byte))]
    /\ full' \in [Ins -> BOOLEAN]
    /\ StreamsKeptApart'
    /\ \A x \in Ins : Len(bank'[x]) <= Len(bank[x])
    /\ bank'["hid"] = bank["hid"] /\ queue'["hid"] = queue["hid"]
    /\ ~enabled => bank' = bank
    /\ \A x \in Ins : full'[x] /\ bank'[x] = <<>> => full[x] /\ bank[x] = <<>>

\* A bank of the serial or the MIDI endpoint released as it is: its bytes are in
\* the queue now, and the packet is not a full one.
LEMMA ReleaseKeeps ==
    ASSUME UsbInv, NEW e \in {"cdc", "midi"},
           Release(e, <<>>) \/ UNCHANGED <<queue, bank, full>>,
           UNCHANGED pending
    PROVE  Kept
<1> USE DEF Kept
<1>1. /\ e \in Ins /\ e # "hid" /\ "hid" \in Ins
      /\ bank \in [Ins -> Seq(Byte)] /\ queue \in [Ins -> Seq(Seq(Byte))]
      /\ full \in [Ins -> BOOLEAN] /\ pending \in [Ins -> Seq(Byte)]
      /\ \A x \in Ins : Len(bank[x]) \in Nat
  BY LenProperties DEF UsbInv, UsbTypeOK, UsbData, UsbFlags, Ins
<1>2. CASE UNCHANGED <<queue, bank, full>>
  <2>1. /\ bank' \in [Ins -> Seq(Byte)] /\ queue' \in [Ins -> Seq(Seq(Byte))]
        /\ full' \in [Ins -> BOOLEAN]
    BY <1>1, <1>2
  <2>2. StreamsKeptApart'
    BY <1>2 DEF UsbInv, StreamsKeptApart
  <2>3. \A x \in Ins : Len(bank'[x]) <= Len(bank[x])
    BY <1>1, <1>2
  <2>4. /\ bank' = bank /\ queue'["hid"] = queue["hid"]
        /\ \A x \in Ins : full'[x] /\ bank'[x] = <<>> => full[x] /\ bank[x] = <<>>
    BY <1>2
  <2> QED BY <2>1, <2>2, <2>3, <2>4
<1>3. CASE /\ BankFree(e)
           /\ queue' = [queue EXCEPT ![e] = Append(@, bank[e] \o <<>>)]
           /\ bank' = [bank EXCEPT ![e] = <<>>]
           /\ full' = [full EXCEPT ![e] = Len(bank[e] \o <<>>) = EpSize]
  <2>1. bank[e] \in Seq(Byte) /\ queue[e] \in Seq(Seq(Byte)) /\ pending[e] \in Seq(Byte)
    BY <1>1
  <2>2. bank[e] \o <<>> = bank[e]
    BY <2>1, ConcatEmptySeq
  <2>3. Append(queue[e], bank[e]) \in Seq(Seq(Byte)) /\ <<>> \in Seq(Byte) /\ Len(<<>>) = 0
    BY <2>1, AppendProperties, EmptySeq
  <2>4. /\ bank' \in [Ins -> Seq(Byte)] /\ queue' \in [Ins -> Seq(Seq(Byte))]
    BY <1>1, <1>3, <2>2, <2>3
  <2>5. full' \in [Ins -> BOOLEAN]
    BY <1>1, <1>3
  <2>6. /\ \A x \in Ins : Len(bank'[x]) <= Len(bank[x])
        /\ bank'["hid"] = bank["hid"] /\ queue'["hid"] = queue["hid"]
    BY <1>1, <1>3, <2>3
  <2>7. enabled
    BY <1>3 DEF BankFree
  <2>8. Len(bank[e]) # EpSize
    BY <1>1, UsbSizesAssumption DEF UsbInv, UsbBanks
  <2>9. ~full'[e]
    BY <1>1, <1>3, <2>2, <2>8
  <2>10. \A x \in Ins : full'[x] /\ bank'[x] = <<>> => full[x] /\ bank[x] = <<>>
    BY <1>1, <1>3, <2>9
  <2>11. StreamsKeptApart'
    <3> SUFFICES ASSUME NEW x \in Ins
                 PROVE  FlattenSeq(queue'[x]) \o bank'[x] = pending[x]
      BY DEF StreamsKeptApart
    <3>1. FlattenSeq(queue[x]) \o bank[x] = pending[x]
      BY DEF UsbInv, StreamsKeptApart
    <3>2. CASE x # e
      BY <1>1, <1>3, <3>1, <3>2
    <3>3. CASE x = e
      <4>1. FlattenSeq(queue'[x]) \o bank'[x] = FlattenSeq(Append(queue[e], bank[e])) \o <<>>
        BY <1>1, <1>3, <2>2, <3>3
      <4>2. PICK q \in Seq(Seq(Byte)), b \in Seq(Byte) : q = queue[e] /\ b = bank[e]
        BY <2>1
      <4>3. FlattenSeq(Append(q, b \o <<>>)) \o <<>> = (FlattenSeq(q) \o b) \o <<>>
        BY <2>3, StreamRelease
      <4>4. pending[e] \o <<>> = pending[e]
        BY <2>1, ConcatEmptySeq
      <4> QED BY <2>2, <3>1, <3>3, <4>1, <4>2, <4>3, <4>4
    <3> QED BY <3>2, <3>3
  <2> QED BY <2>4, <2>5, <2>6, <2>7, <2>10, <2>11
<1> QED BY <1>1, <1>2, <1>3 DEF Release

\* So does the step that releases the bank.
LEMMA FlushReleaseInv ==
    ASSUME UsbInv, FlushRelease
    PROVE  UsbInv'
<1>1. /\ pc = "release" /\ pc' = "idle"
      /\ UNCHANGED <<conf, open, enabled, eorst, uenum, ep, left, n, sendZlp, release,
                     body, pending, refused>>
  BY DEF FlushRelease
<1>2. PICK e \in {"cdc", "midi"} : Release(e, <<>>) \/ UNCHANGED <<queue, bank, full>>
  BY DEF FlushRelease, Release, UsbInv, UsbTypeOK, UsbData, UsbSelected, Ins
<1>3. Kept
  BY <1>1, <1>2, ReleaseKeeps
<1>4. UsbTypeOK'
  BY <1>1, <1>3 DEF Kept, UsbInv, UsbTypeOK, UsbFlags, UsbData
<1>9. \A x \in Ins : Len(bank[x]) \in Nat /\ Len(bank'[x]) \in Nat
  BY <1>3, LenProperties DEF Kept, UsbInv, UsbTypeOK, UsbData
<1>5. UsbBanks'
  <2>1. ASSUME NEW x \in Ins PROVE Len(bank'[x]) < EpSize
    <3>1. Len(bank'[x]) <= Len(bank[x])
      BY <1>3 DEF Kept
    <3>2. Len(bank[x]) < EpSize
      BY DEF UsbInv, UsbBanks
    <3> QED BY <1>9, <3>1, <3>2, UsbSizesAssumption
  <2> QED BY <1>1, <1>3, <2>1 DEF Kept, UsbInv, UsbBanks
<1>6. UsbSelected' /\ UsbRound'
  BY <1>1 DEF UsbInv, UsbSelected, UsbRound, InSend
<1>7. UsbReports'
  BY <1>1, <1>3 DEF Kept, UsbInv, UsbReports, InSend
<1>8. UsbFull'
  BY <1>1, <1>3 DEF Kept, UsbInv, UsbFull, InSend
<1> QED BY <1>3, <1>4, <1>5, <1>6, <1>7, <1>8 DEF Kept, UsbInv

\* So does the start of frame, which flushes what Serial has left.
LEMMA StartOfFrameInv ==
    ASSUME UsbInv, StartOfFrame
    PROVE  UsbInv'
<1>1. /\ pc # "fill" /\ uenum' = "cdc"
      /\ UNCHANGED <<conf, open, enabled, eorst, pc, ep, left, n, sendZlp, release,
                     body, pending, refused>>
  BY DEF StartOfFrame, InLock, call
<1>2. Release("cdc", <<>>) \/ UNCHANGED <<queue, bank, full>>
  BY DEF StartOfFrame
<1>3. Kept
  BY <1>1, <1>2, ReleaseKeeps
<1>4. UsbTypeOK'
  BY <1>1, <1>3 DEF Kept, UsbInv, UsbTypeOK, UsbFlags, UsbData, Ins
<1>9. \A x \in Ins : Len(bank[x]) \in Nat /\ Len(bank'[x]) \in Nat
  BY <1>3, LenProperties DEF Kept, UsbInv, UsbTypeOK, UsbData
<1>5. UsbBanks'
  <2>1. ASSUME NEW x \in Ins PROVE Len(bank'[x]) < EpSize
    <3>1. Len(bank'[x]) <= Len(bank[x])
      BY <1>3 DEF Kept
    <3>2. Len(bank[x]) < EpSize
      BY DEF UsbInv, UsbBanks
    <3> QED BY <1>9, <3>1, <3>2, UsbSizesAssumption
  <2> QED BY <1>1, <1>3, <2>1 DEF Kept, UsbInv, UsbBanks
<1>6. UsbSelected'
  BY <1>1 DEF UsbInv, UsbSelected
<1>10. UsbRound'
  BY <1>1, <1>3, <1>9, UsbSizesAssumption DEF Kept, UsbInv, UsbRound, InSend, UsbTypeOK, UsbData
<1>7. UsbReports'
  BY <1>1, <1>3 DEF Kept, UsbInv, UsbReports, InSend
<1>8. UsbFull'
  BY <1>1, <1>3 DEF Kept, UsbInv, UsbFull, InSend
<1> QED BY <1>3, <1>4, <1>5, <1>6, <1>7, <1>8, <1>10 DEF Kept, UsbInv

\* The steps that leave the banks and the queues alone.
LEMMA QuietInv ==
    ASSUME UsbInv,
           Lock \/ StartFlush \/ FlushCount \/ EndOfReset \/ ControlRequest
    PROVE  UsbInv'
<1>1. UNCHANGED <<enabled, bank, queue, pending, full, ep, left, n, sendZlp, release,
                  body, refused>>
  BY DEF Lock, StartFlush, FlushCount, EndOfReset, ControlRequest, hardware, call
<1>2. UsbTypeOK'
  <2>1. conf' \in BOOLEAN /\ open' \in BOOLEAN /\ eorst' \in BOOLEAN
    BY DEF Lock, StartFlush, FlushCount, EndOfReset, ControlRequest, hardware,
           UsbInv, UsbTypeOK, UsbFlags
  <2>2. /\ uenum' \in Ins \cup {"ep0"}
        /\ pc' \in {"idle", "space", "lock", "fill", "count", "release"}
    BY DEF Lock, StartFlush, FlushCount, EndOfReset, ControlRequest, call,
           UsbInv, UsbTypeOK, UsbData, Ins
  <2> QED BY <1>1, <2>1, <2>2 DEF UsbInv, UsbTypeOK, UsbFlags, UsbData
<1>3. UsbBanks'
  BY <1>1 DEF Lock, StartFlush, FlushCount, EndOfReset, ControlRequest, hardware,
              UsbInv, UsbBanks
<1>4. UsbSelected'
  BY <1>1 DEF Lock, StartFlush, FlushCount, EndOfReset, ControlRequest, call, InLock,
              UsbInv, UsbSelected
<1>5. InSend' = InSend /\ (pc' = pc \/ (pc = "lock" /\ pc' = "fill") \/ (~InSend /\ ~InSend'))
  BY DEF Lock, StartFlush, FlushCount, EndOfReset, ControlRequest, call, InSend
<1>6. UsbRound'
  BY <1>1, <1>5 DEF UsbInv, UsbRound, InSend
<1>7. UsbReports'
  BY <1>1, <1>5 DEF UsbInv, UsbReports, InSend
<1>8. UsbFull'
  BY <1>1, <1>5 DEF UsbInv, UsbFull
<1> QED BY <1>1, <1>2, <1>3, <1>4, <1>6, <1>7, <1>8, StreamsStay DEF UsbInv

\* A reset of the bus and the configuration after it start the endpoints anew.
LEMMA AfreshInv ==
    ASSUME UsbInv, SetConfiguration \/ BusReset
    PROVE  UsbInv'
<1>1. /\ bank' = Nothing /\ queue' = Nothing /\ pending' = Nothing
      /\ full' = [e \in Ins |-> FALSE]
      /\ UNCHANGED <<open, pc, ep, left, n, sendZlp, release, body, refused>>
  BY DEF SetConfiguration, BusReset, call
<1>2. /\ \/ pc = "idle" /\ enabled' = TRUE /\ conf' = TRUE /\ eorst' = FALSE /\ uenum' = "hid"
         \/ enabled' = FALSE /\ eorst' = TRUE /\ conf' = conf /\ uenum' = uenum
  BY DEF SetConfiguration, BusReset, UsbInv, UsbTypeOK, UsbFlags
<1>3. <<>> \in Seq(Byte) /\ <<>> \in Seq(Seq(Byte)) /\ Len(<<>>) = 0 /\ \A e \in Ins : Nothing[e] = <<>>
  BY EmptySeq DEF Nothing
<1>4. UsbTypeOK'
  <2>1. UsbFlags'
    <3>1. enabled' \in BOOLEAN /\ eorst' \in BOOLEAN /\ conf' \in BOOLEAN
      BY <1>2 DEF UsbInv, UsbTypeOK, UsbFlags
    <3> QED BY <1>1, <3>1 DEF UsbInv, UsbTypeOK, UsbFlags
  <2>2. UsbData'
    BY <1>1, <1>2, <1>3 DEF UsbInv, UsbTypeOK, UsbData, Nothing, Ins
  <2> QED BY <2>1, <2>2 DEF UsbTypeOK
<1>5. UsbBanks'
  BY <1>1, <1>2, <1>3, UsbSizesAssumption DEF UsbInv, UsbBanks
<1>6. UsbSelected'
  BY <1>1, <1>2 DEF UsbInv, UsbSelected
<1>7. UsbRound'
  <2>1. \A e \in Ins : Len(bank'[e]) = 0
    BY <1>1, <1>3
  <2>2. Len(bank[ep]) \in Nat /\ ep \in Ins /\ n \in Nat
    BY LenProperties DEF UsbInv, UsbTypeOK, UsbData
  <2> QED BY <1>1, <2>1, <2>2, UsbSizesAssumption DEF UsbInv, UsbRound, InSend
<1>8. UsbReports'
  <2>1. bank'["hid"] = <<>>
    BY <1>1, <1>3 DEF Ins
  <2> QED BY <1>1, <1>2, <2>1 DEF UsbInv, UsbReports, UsbRound, InSend
<1>9. UsbFull'
  BY <1>1 DEF UsbFull
<1>10. StreamsKeptApart'
  <2>1. FlattenSeq(<<>>) = <<>> /\ <<>> \o <<>> = <<>>
    BY <1>3, FlattenEmpty, ConcatEmptySeq
  <2> QED BY <1>1, <1>3, <2>1 DEF StreamsKeptApart
<1> QED BY <1>4, <1>5, <1>6, <1>7, <1>8, <1>9, <1>10 DEF UsbInv

\* So does the host.
LEMMA HostTakesInv ==
    ASSUME UsbInv, NEW e \in Ins, HostTakes(e)
    PROVE  UsbInv'
<1>1. /\ queue[e] # <<>>
      /\ queue' = [queue EXCEPT ![e] = Tail(@)]
      /\ pending' = [pending EXCEPT ![e] = SubSeq(@, Len(Head(queue[e])) + 1, Len(@))]
      /\ UNCHANGED <<conf, open, enabled, eorst, uenum, bank, full, pc, ep, left, n,
                     sendZlp, release, body, refused>>
  BY DEF HostTakes, call
<1>2. PICK q \in Seq(Seq(Byte)), b \in Seq(Byte) : q = queue[e] /\ b = bank[e]
  BY DEF UsbInv, UsbTypeOK, UsbData
<1>3. FlattenSeq(q) \o b = pending[e]
  BY <1>2 DEF UsbInv, StreamsKeptApart
<1>4. Tail(q) \in Seq(Seq(Byte)) /\ Len(Tail(q)) = Len(q) - 1 /\ Len(q) \in Nat
  BY <1>1, <1>2, HeadTailProperties, LenProperties
<1>5. FlattenSeq(Tail(q)) \in Seq(Byte)
  BY <1>4, FlattenType
<1>6. FlattenSeq(Tail(q)) \o b \in Seq(Byte)
  BY <1>5, ConcatProperties
<1>7. SubSeq(FlattenSeq(q) \o b, Len(Head(q)) + 1, Len(FlattenSeq(q) \o b))
        = FlattenSeq(Tail(q)) \o b
  BY <1>1, <1>2, StreamTake
<1>8. pending' = [pending EXCEPT ![e] = FlattenSeq(Tail(q)) \o b]
  BY <1>1, <1>2, <1>3, <1>7
<1>9. queue' = [queue EXCEPT ![e] = Tail(q)]
  BY <1>1, <1>2
<1>10. UsbTypeOK'
  <2>1. queue' \in [Ins -> Seq(Seq(Byte))] /\ pending' \in [Ins -> Seq(Byte)]
    BY <1>4, <1>6, <1>8, <1>9 DEF UsbInv, UsbTypeOK, UsbData
  <2> QED BY <1>1, <2>1 DEF UsbInv, UsbTypeOK, UsbData, UsbFlags
<1>11. UsbBanks' /\ UsbSelected' /\ UsbFull'
  BY <1>1 DEF UsbInv, UsbBanks, UsbSelected, UsbFull, InSend
<1>12. UsbRound'
  BY <1>1 DEF UsbInv, UsbRound, InSend
<1>13. UsbReports'
  <2>1. Len(queue["hid"]) < Banks["hid"] => Len(queue'["hid"]) < Banks["hid"]
    <3>1. queue'["hid"] = IF e = "hid" THEN Tail(q) ELSE queue["hid"]
      BY <1>9 DEF UsbInv, UsbTypeOK, UsbData, Ins
    <3>2. Banks["hid"] \in Nat
      BY UsbSizesAssumption DEF Ins
    <3> QED BY <1>2, <1>4, <3>1, <3>2
  <2> QED BY <1>1, <2>1 DEF UsbInv, UsbReports, InSend
<1>14. StreamsKeptApart'
  <2> SUFFICES ASSUME NEW x \in Ins
               PROVE  FlattenSeq(queue'[x]) \o bank'[x] = pending'[x]
    BY DEF StreamsKeptApart
  <2>1. CASE x # e
    BY <1>1, <1>8, <1>9, <2>1 DEF UsbInv, UsbTypeOK, UsbData, StreamsKeptApart
  <2>2. CASE x = e
    BY <1>1, <1>2, <1>8, <1>9, <2>2 DEF UsbInv, UsbTypeOK, UsbData
  <2> QED BY <2>1, <2>2
<1> QED BY <1>10, <1>11, <1>12, <1>13, <1>14 DEF UsbInv

\* Nothing happens.
LEMMA UsbStutters ==
    ASSUME UsbInv, UNCHANGED vars
    PROVE  UsbInv'
<1> USE DEF UsbInv, vars
<1>1. UsbFlags'
  BY DEF UsbTypeOK, UsbFlags
<1>2. UsbData'
  BY DEF UsbTypeOK, UsbData
<1>3. UsbBanks' /\ UsbSelected'
  BY DEF UsbBanks, UsbSelected
<1>4. UsbRound'
  BY DEF UsbRound, InSend
<1>5. UsbReports'
  BY DEF UsbReports, InSend
<1>6. StreamsKeptApart' /\ UsbFull'
  BY DEF StreamsKeptApart, UsbFull, InSend
<1> QED BY <1>1, <1>2, <1>3, <1>4, <1>5, <1>6 DEF UsbTypeOK

\* So does every step.
LEMMA UsbNextInv == UsbInv /\ [Next]_vars => UsbInv'
<1> SUFFICES ASSUME UsbInv, [Next]_vars PROVE UsbInv'
  OBVIOUS
<1>1. CASE SerialWrite
  <2>1. PICK d \in CdcTexts : StartSend("cdc", d, <<>>)
    BY <1>1 DEF SerialWrite
  <2> QED BY <2>1, SentData, EmptySeq, StartSendInv DEF Ins
<1>2. CASE SendMidi
  <2>1. PICK d \in MidiEvents : StartSend("midi", d, <<>>)
    BY <1>2 DEF SendMidi
  <2> QED BY <2>1, SentData, EmptySeq, StartSendInv DEF Ins
<1>3. CASE SendReport
  <2>1. PICK d \in ReportBodies : StartSend("hid", <<ReportId>>, d)
    BY <1>3 DEF SendReport
  <2>2. /\ "hid" \in Ins /\ <<ReportId>> \in Seq(Byte) /\ <<ReportId>> # <<>>
        /\ d \in Seq(Byte)
    BY SentData DEF Ins
  <2> QED BY <2>1, <2>2, StartSendInv
<1>4. CASE Lock \/ StartFlush \/ FlushCount \/ EndOfReset \/ ControlRequest
  BY <1>4, QuietInv
<1>5. CASE SetConfiguration \/ BusReset
  BY <1>5, AfreshInv
<1>6. CASE \E e \in Ins : HostTakes(e)
  BY <1>6, HostTakesInv
<1>7. CASE UNCHANGED vars
  BY <1>7, UsbStutters
<1> QED BY <1>1, <1>2, <1>3, <1>4, <1>5, <1>6, <1>7, SendSpaceInv, FillInv,
           FlushReleaseInv, StartOfFrameInv DEF Next, Sketch

\* The invariant holds in every state.
LEMMA UsbSafety == Spec => []UsbInv
<1>1. UsbInit => UsbInv
  BY UsbInitInv
<1>2. UsbInv /\ [Next]_vars => UsbInv'
  BY UsbNextInv
<1> QED BY <1>1, <1>2, PTL DEF Spec

-----------------------------------------------------------------------------
\* The theorems.

\* The model is well typed.
THEOREM UsbTypeCorrect == Spec => []UsbTypeOK
<1>1. UsbInv => UsbTypeOK
  BY DEF UsbInv
<1> QED BY <1>1, UsbSafety, PTL

\* Whatever the handlers select between two steps of USB_Send() and USB_Flush(),
\* the bytes of a stream stay in order and on their own endpoint.
THEOREM StreamsStayApart == Spec => []StreamsKeptApart
<1>1. UsbInv => StreamsKeptApart
  BY DEF UsbInv
<1> QED BY <1>1, UsbSafety, PTL

\* A transfer that USB_Send() reports as sent ends with a short packet.
THEOREM TransfersAreEnded == Spec => []TransfersEnd
<1>1. UsbInv => TransfersEnd
  BY DEF UsbInv, UsbFull, TransfersEnd, InSend
<1> QED BY <1>1, UsbSafety, PTL

\* Every step of the device does to the HID queue what the pipe allows.
LEMMA PipeStep ==
    ASSUME UsbInv, UsbInv', [Next]_vars
    PROVE  [HidPipe!PipeNext]_(queue["hid"])
<1> SUFFICES ASSUME queue'["hid"] # queue["hid"]
             PROVE  HidPipe!PipeNext
  OBVIOUS
<1> DEFINE reports == {Whole(b) : b \in ReportBodies}
<1>1. "hid" \in Ins /\ queue \in [Ins -> Seq(Seq(Byte))]
  BY DEF UsbInv, UsbTypeOK, UsbData, Ins
<1>2. CASE Fill
  <2>1. Allowed(uenum)
    BY <1>2 DEF Fill, StillAllowed
  <2> DEFINE more == SubSeq(left, 1, n)
             rest == SubSeq(left, n + 1, Len(left))
             fills == Len(bank[ep]) + n >= EpSize
             last == n = Len(left)
  <2>2. /\ Len(queue[ep]) < Banks[ep]
        /\ n = Len(left) => more = left
        /\ IF Releases(fills, last)
           THEN queue' = [queue EXCEPT ![ep] = Append(@, bank[ep] \o more)]
           ELSE UNCHANGED queue
    BY <1>2, <2>1, FillSteps
  <2> HIDE DEF more, rest
  <2>3. /\ ep = "hid" /\ Releases(fills, last)
        /\ queue'["hid"] = Append(queue["hid"], bank["hid"] \o more)
    BY <1>1, <2>2
  <2>4. InSend /\ pc = "fill"
    BY <1>2 DEF Fill, InSend
  <2>5. CASE ~release
    <3>1. left = <<ReportId>> /\ body \in ReportBodies /\ ~sendZlp /\ n = Len(left)
          /\ bank["hid"] = <<>>
      BY <2>3, <2>4, <2>5 DEF UsbInv, UsbReports
    <3>2. Len(body) + 1 < EpSize /\ Len(body) \in Nat \ {0}
      BY <3>1, SentData
    <3>3. Len(left) = 1 /\ Len(bank["hid"]) = 0
      BY <3>1
    <3>4. ~fills
      BY <2>3, <3>1, <3>2, <3>3, UsbSizesAssumption
    <3> QED BY <2>3, <2>5, <3>1, <3>4 DEF Releases
  <2>6. CASE release
    <3>1. left \in ReportBodies /\ n = Len(left) /\ enabled
      BY <1>2, <2>1, <2>3, <2>4, <2>6 DEF UsbInv, UsbReports, Allowed, BankFree
    <3>2. bank["hid"] = <<ReportId>>
      BY <2>3, <2>4, <2>6, <3>1 DEF UsbInv, UsbReports
    <3>3. queue'["hid"] = Append(queue["hid"], Whole(left))
      BY <2>2, <2>3, <3>1, <3>2 DEF Whole
    <3> QED BY <2>2, <2>3, <3>1, <3>3 DEF HidPipe!PipeNext, HidPipe!Put, HidPipe!HasRoom
  <2> QED BY <2>5, <2>6
<1>3. CASE \E e \in Ins : HostTakes(e)
  <2>1. PICK e \in Ins : HostTakes(e)
    BY <1>3
  <2>2. e = "hid" /\ queue["hid"] # <<>> /\ queue'["hid"] = Tail(queue["hid"])
    BY <1>1, <2>1 DEF HostTakes
  <2> QED BY <2>2 DEF HidPipe!PipeNext, HidPipe!Take
<1>4. CASE SetConfiguration \/ BusReset
  <2>1. queue'["hid"] = <<>>
    BY <1>1, <1>4 DEF SetConfiguration, BusReset, Nothing
  <2> QED BY <2>1 DEF HidPipe!PipeNext, HidPipe!Drop
<1>5. CASE FlushRelease \/ StartOfFrame
  BY <1>1, <1>5 DEF FlushRelease, StartOfFrame, Release, UsbInv, UsbSelected
<1>6. CASE \/ SerialWrite \/ SendMidi \/ SendReport \/ SendSpace \/ Lock \/ StartFlush
           \/ FlushCount \/ EndOfReset \/ ControlRequest \/ UNCHANGED vars
  <2>1. UNCHANGED queue
    BY <1>6 DEF SerialWrite, SendMidi, SendReport, StartSend, SendSpace, Lock, StartFlush,
                FlushCount, EndOfReset, ControlRequest, vars, hardware
  <2> QED BY <2>1
<1> QED BY <1>2, <1>3, <1>4, <1>5, <1>6 DEF Next, Sketch

\* HID().SendReport() implements the report pipe: a report is queued whole or not
\* at all, never more than the endpoint has banks, and leaves in order.
THEOREM SendReportImplementsPipe == Spec => ImplementsReportPipe
<1>1. UsbInit => HidPipe!PipeInit
  BY DEF UsbInit, Nothing, Ins, HidPipe!PipeInit
<1>2. UsbInv /\ UsbInv' /\ [Next]_vars => [HidPipe!PipeNext]_(queue["hid"])
  BY PipeStep
<1> QED BY <1>1, <1>2, UsbSafety, PTL DEF Spec, ImplementsReportPipe, HidPipe!PipeSpec

-----------------------------------------------------------------------------
\* The keyboard.

\* What a report looks like and where reports are; write() remembers its key.
KbTypeInv ==
    /\ report \in KeyReport /\ host \in KeyReport
    /\ pipe \in Seq(KeyReport)
    /\ writing = <<>> \/ \E k \in Keys : writing = <<k>>
    /\ up \in BOOLEAN /\ sent \in BOOLEAN

\* HostFollows is not inductive as it stands: that the last report put into the
\* pipe is still the last, or with the host, needs a pipe of reports.
KbInv == KbTypeInv /\ HostFollows

\* The reports of press(), with and without a slot for the key.
LEMMA ReportPressed ==
    ASSUME KbTypeInv, NEW k \in Keys, NEW slot
    PROVE  /\ [keys |-> report.keys, mods |-> report.mods \cup k.mods] \in KeyReport
           /\ [keys |-> [report.keys EXCEPT ![slot] = k.scan],
               mods |-> report.mods \cup k.mods] \in KeyReport
<1>1. report.keys \in [1 .. Slots -> Scan \cup {0}] /\ report.mods \subseteq Modifiers
  BY DEF KbTypeInv, KeyReport
<1>2. k.scan \in Scan \cup {0} /\ k.mods \subseteq Modifiers
  BY KbKeysAssumption DEF Keys
<1>3. [report.keys EXCEPT ![slot] = k.scan] \in [1 .. Slots -> Scan \cup {0}]
  BY <1>1, <1>2
<1> QED BY <1>1, <1>2, <1>3 DEF KeyReport

\* The report of release().
LEMMA ReportReleased ==
    ASSUME KbTypeInv, NEW k \in Keys
    PROVE  [keys |-> [i \in 1 .. Slots |->
                          IF report.keys[i] = k.scan THEN 0 ELSE report.keys[i]],
            mods |-> report.mods \ k.mods] \in KeyReport
BY DEF KbTypeInv, KeyReport

\* The empty report is a report.
LEMMA NoKeysIs == NoKeys \in KeyReport
BY DEF NoKeys, KeyReport

\* The pipe's own operations, on a pipe of reports.
LEMMA PipeIs ==
    ASSUME NEW S, NEW s \in Seq(S)
    PROVE  /\ \A x \in S : Append(s, x) \in Seq(S) /\ Append(s, x) # <<>>
                             /\ Last(Append(s, x)) = x
           /\ s # <<>> => /\ Head(s) \in S /\ Tail(s) \in Seq(S)
                          /\ Tail(s) = <<>> => Head(s) = Last(s)
                          /\ Tail(s) # <<>> => Last(Tail(s)) = Last(s)
<1>1. ASSUME NEW x \in S
      PROVE  Append(s, x) \in Seq(S) /\ Append(s, x) # <<>> /\ Last(Append(s, x)) = x
  BY <1>1 DEF Last
<1>2. ASSUME s # <<>>
      PROVE  /\ Head(s) \in S /\ Tail(s) \in Seq(S)
             /\ Tail(s) = <<>> => Head(s) = Last(s)
             /\ Tail(s) # <<>> => Last(Tail(s)) = Last(s)
  <2>1. /\ Head(s) \in S /\ Tail(s) \in Seq(S) /\ Len(Tail(s)) = Len(s) - 1
        /\ \A i \in 1 .. Len(Tail(s)) : Tail(s)[i] = s[i + 1]
    BY <1>2, HeadTailProperties
  <2>2. Len(s) \in Nat \ {0} /\ Head(s) = s[1]
    BY <1>2, EmptySeq
  <2>3. CASE Tail(s) = <<>>
    <3>1. Len(<<>>) = 0
      BY EmptySeq
    <3>2. Len(Tail(s)) = 0
      BY <2>3, <3>1, Zenon
    <3>3. 0 = Len(s) - 1
      BY <2>1, <3>2, Zenon
    <3>4. Len(s) = 1
      BY <2>2, <3>3
    <3> QED BY <2>1, <2>2, <2>3, <3>4 DEF Last
  <2>4. CASE Tail(s) # <<>>
    <3>1. Len(Tail(s)) \in Nat \ {0}
      BY <2>1, <2>4, EmptySeq
    <3>2. Tail(s)[Len(Tail(s))] = s[Len(s)]
      BY <2>1, <2>2, <3>1
    <3> QED BY <2>1, <2>4, <3>2 DEF Last
  <2> QED BY <2>1, <2>3, <2>4
<1> QED BY <1>1, <1>2

\* A report that is sent, or refused.
LEMMA SendKeysInv ==
    ASSUME KbInv, NEW r \in KeyReport, SendKeys(r)
    PROVE  /\ report' \in KeyReport /\ pipe' \in Seq(KeyReport) /\ sent' \in BOOLEAN
           /\ HostFollows'
<1>1. CASE up /\ Pipe!HasRoom
  <2>1. pipe' = Append(pipe, r) /\ sent' = TRUE /\ report' = r
    BY <1>1 DEF SendKeys, Pipe!Put, Pipe!HasRoom
  <2>2. pipe \in Seq(KeyReport)
    BY DEF KbInv, KbTypeInv
  <2> QED BY <2>1, <2>2, PipeIs DEF HostFollows
<1>2. CASE ~(up /\ Pipe!HasRoom)
  BY <1>2 DEF SendKeys, KbInv, KbTypeInv, HostFollows
<1> QED BY <1>1, <1>2

\* press(), with and without a slot left.
LEMMA DoPressInv ==
    ASSUME KbInv, NEW k \in Keys, DoPress(k)
    PROVE  /\ report' \in KeyReport /\ pipe' \in Seq(KeyReport) /\ sent' \in BOOLEAN
           /\ HostFollows'
<1> DEFINE mods == report.mods \cup k.mods
<1>1. KbTypeInv
  BY DEF KbInv
<1>2. CASE Present(k.scan)
  <2>1. SendKeys([keys |-> report.keys, mods |-> mods])
    BY <1>2 DEF DoPress
  <2> QED BY <2>1, <1>1, ReportPressed, SendKeysInv
<1>3. CASE ~Present(k.scan) /\ Free # {}
  <2>1. SendKeys([keys |-> [report.keys EXCEPT ![Min(Free)] = k.scan], mods |-> mods])
    BY <1>3 DEF DoPress
  <2> QED BY <2>1, <1>1, ReportPressed, SendKeysInv
<1>4. CASE ~Present(k.scan) /\ Free = {}
  <2>1. report' = [keys |-> report.keys, mods |-> mods] /\ sent' = FALSE /\ pipe' = pipe
    BY <1>4 DEF DoPress
  <2> QED BY <2>1, <1>1, ReportPressed DEF KbTypeInv, HostFollows
<1> QED BY <1>2, <1>3, <1>4

\* release() and its report.
LEMMA DoReleaseInv ==
    ASSUME KbInv, NEW k \in Keys, DoRelease(k)
    PROVE  /\ report' \in KeyReport /\ pipe' \in Seq(KeyReport) /\ sent' \in BOOLEAN
           /\ HostFollows'
<1>1. KbTypeInv
  BY DEF KbInv
<1> QED BY <1>1, ReportReleased, SendKeysInv DEF DoRelease

\* Every step of the keyboard, of the host and of the pipe.
LEMMA KbStep == KbInv /\ [KbNext]_kbVars => KbInv'
<1> SUFFICES ASSUME KbInv, [KbNext]_kbVars PROVE KbInv'
  OBVIOUS
<1>1. KbTypeInv /\ HostFollows
  BY DEF KbInv
<1>2. CASE PressKey
  <2>1. PICK k \in Keys : DoPress(k)
    BY <1>2 DEF PressKey
  <2> QED BY <1>1, <1>2, <2>1, DoPressInv DEF PressKey, KbInv, KbTypeInv
<1>3. CASE ReleaseKey
  <2>1. PICK k \in Keys : DoRelease(k)
    BY <1>3 DEF ReleaseKey
  <2> QED BY <1>1, <1>3, <2>1, DoReleaseInv DEF ReleaseKey, KbInv, KbTypeInv
<1>4. CASE ReleaseAll
  BY <1>1, <1>4, NoKeysIs, SendKeysInv DEF ReleaseAll, KbInv, KbTypeInv
<1>5. CASE WriteDown
  <2>1. PICK k \in Keys : writing' = <<k>> /\ DoPress(k)
    BY <1>5 DEF WriteDown
  <2> QED BY <1>1, <1>5, <2>1, DoPressInv DEF WriteDown, KbInv, KbTypeInv
<1>6. CASE WriteUp
  <2>1. PICK k \in Keys : writing = <<k>>
    BY <1>1, <1>6 DEF WriteUp, KbTypeInv
  <2>2. DoRelease(k) /\ writing' = <<>> /\ up' = up /\ host' = host
    BY <1>6, <2>1 DEF WriteUp
  <2> QED BY <1>1, <2>2, DoReleaseInv DEF KbInv, KbTypeInv
<1>7. CASE HostPolls
  <2>1. pipe # <<>> /\ pipe' = Tail(pipe) /\ host' = Head(pipe)
        /\ report' = report /\ writing' = writing /\ up' = up /\ sent' = sent
    BY <1>7 DEF HostPolls, Pipe!Take
  <2>2. pipe \in Seq(KeyReport)
    BY <1>1 DEF KbTypeInv
  <2>3. /\ Head(pipe) \in KeyReport /\ Tail(pipe) \in Seq(KeyReport)
        /\ Tail(pipe) = <<>> => Head(pipe) = Last(pipe)
        /\ Tail(pipe) # <<>> => Last(Tail(pipe)) = Last(pipe)
    BY <2>1, <2>2, PipeIs
  <2>4. KbTypeInv'
    BY <1>1, <2>1, <2>3 DEF KbTypeInv
  <2>5. HostFollows'
    BY <1>1, <2>1, <2>3 DEF HostFollows
  <2> QED BY <2>4, <2>5 DEF KbInv
<1>8. CASE KbReset
  <2>1. << >> \in Seq(KeyReport)
    OBVIOUS
  <2> QED BY <1>1, <1>8, <2>1, NoKeysIs DEF KbReset, KbInv, KbTypeInv, HostFollows
<1>9. CASE Configure
  BY <1>1, <1>9 DEF Configure, KbInv, KbTypeInv, HostFollows
<1>10. CASE UNCHANGED kbVars
  BY <1>1, <1>10 DEF kbVars, KbInv, KbTypeInv, HostFollows
<1> QED BY <1>2, <1>3, <1>4, <1>5, <1>6, <1>7, <1>8, <1>9, <1>10 DEF KbNext

\* KbInv holds in every state.
LEMMA KbInvariant == KbSpec => []KbInv
<1>1. KbInit => KbInv
  <2>1. << >> \in Seq(KeyReport)
    OBVIOUS
  <2> QED BY <2>1, NoKeysIs DEF KbInit, KbInv, KbTypeInv, HostFollows, Pipe!PipeInit
<1> QED BY <1>1, KbStep, PTL DEF KbSpec

\* If the last change of the report was sent, the last report in the pipe, or with the
\* host, is the sketch's, whatever was pressed, released and refused before.
THEOREM HostFollowsSketch == KbSpec => []HostFollows
<1>1. KbInv => HostFollows
  BY DEF KbInv
<1> QED BY <1>1, KbInvariant, PTL
=============================================================================
