-------------------------- MODULE UsbReceiveProofs --------------------------
(***************************************************************************)
(* Proofs about receiving over USB, for every number of banks, every size  *)
(* of packets and of the MIDI ring, and every bound on what the host       *)
(* sends: read() and peek() return what came, in order, and what           *)
(* available() promised is still there, with handlers and resets of the    *)
(* bus between any two steps.                                              *)
(***************************************************************************)
EXTENDS UsbReceive, DataLemmas

-----------------------------------------------------------------------------
\* The inductive invariant, part by part.

\* What a packet and the ring hold.
Unit == Nat

RecvFlags ==
    /\ cli \in BOOLEAN /\ configured \in BOOLEAN
    /\ struck \in BOOLEAN /\ stale \in BOOLEAN
    /\ promised \in [Endpoints -> BOOLEAN]

RecvData ==
    /\ bank \in [Endpoints -> Seq(Seq(Unit))] /\ due \in [Endpoints -> Seq(Unit)]
    /\ uenum \in Endpoints \cup {"other"}
    /\ peek_buffer \in Unit \cup {None} /\ value \in Unit \cup {None}
    /\ midiEvent \in [Slots -> Unit \cup {None}] /\ head \in Slots /\ tail \in Slots
    /\ pc \in {"idle", "recv", "take", "release", "received", "return", "accept",
               "load", "midi_return"}
    /\ call \in {"cdc_read", "cdc_peek", "midi_read"}
    /\ sent \in [Endpoints -> Nat]

RecvTypeOK == RecvFlags /\ RecvData

\* The endpoint is the one the call means while its registers are used.
LockInv == pc \in {"take", "release"} => cli /\ uenum = From

\* Only a configured endpoint holds packets.  Between RecvTake and RecvRelease the
\* packet that is read may be used up; no other is empty.
BankInv ==
    /\ \A ep \in Endpoints : bank[ep] # <<>> => configured
    /\ \A ep \in Endpoints : \A i \in 1 .. Len(bank[ep]) :
          bank[ep][i] = <<>> => i = 1 /\ ep = From /\ pc = "release" /\ value # None

\* USB_Recv() is called for CDC only without a byte that peek() took.
CdcInv ==
    ~OfMidi =>
      /\ pc \in {"recv", "take", "release", "received"} => peek_buffer = None
      /\ pc = "return" => peek_buffer = IF call = "cdc_peek" THEN value ELSE None
      /\ pc \notin {"accept", "load", "midi_return"}

\* accept() runs with something to accept or to return, unless a reset emptied the
\* endpoint, and stores into a free slot; what is loaded is the oldest event, or
\* stale.
MidiInv ==
    OfMidi =>
      /\ pc \in {"accept", "recv", "take"} => head # tail \/ bank["MIDI"] # <<>> \/ struck
      /\ pc \in {"recv", "take", "release", "received"} => RingSucc(RingSize, head) # tail
      /\ pc \in {"release", "received"} => head # tail \/ value # None \/ struck
      /\ pc = "load" => head # tail \/ struck
      /\ pc = "midi_return" /\ head # tail => ~stale /\ value = midiEvent[tail]
      /\ pc = "midi_return" /\ head = tail => stale \/ value = None

\* A reset strikes a call, and takes back what was promised; nothing else makes an
\* event stale.
StruckInv ==
    /\ struck => pc # "idle" /\ \A ep \in Endpoints : ~promised[ep]
    /\ stale => struck /\ OfMidi /\ pc \in {"midi_return", "return"}

\* What is due is what a call holds, then what the endpoint does.
DueInv ==
    /\ Ring \in Seq(Unit)
    /\ due["MIDI"] = HeldMidi \o FlattenSeq(bank["MIDI"])
    /\ due["CDC"] = HeldCdc \o FlattenSeq(bank["CDC"])

\* What was promised is due, and a call that has looked has found it.
PromiseInv ==
    /\ \A ep \in Endpoints : promised[ep] => due[ep] # <<>>
    /\ ~OfMidi /\ pc \in {"release", "received", "return"} /\ promised["CDC"] => value # None
    /\ OfMidi /\ pc \in {"midi_return", "return"} /\ promised["MIDI"] => value # None

RecvInv == /\ RecvTypeOK /\ LockInv /\ BankInv /\ CdcInv /\ MidiInv
           /\ StruckInv /\ DueInv /\ PromiseInv

-----------------------------------------------------------------------------
\* Units and sequences of them.

\* None is no unit.
LEMMA NoneIsNoUnit == None \notin Unit
BY ReceiveAssumption DEF Unit

\* A unit at the front of a sequence, and at the end of one that goes on.
LEMMA UnitFirst ==
    ASSUME NEW v \in Unit, NEW s \in Seq(Unit), NEW r \in Seq(Unit)
    PROVE  /\ <<v>> \o s \in Seq(Unit) /\ <<v>> \o s # <<>> /\ Head(<<v>> \o s) = v
           /\ SubSeq(<<v>> \o s, 2, Len(<<v>> \o s)) = s
           /\ (<<v>> \o r) \o s = <<v>> \o (r \o s)
           /\ Append(r, v) \o s = r \o (<<v>> \o s)
           /\ <<v>> \in Seq(Unit) /\ <<v>> # <<>>
<1>1. <<v>> \in Seq(Unit) /\ Len(<<v>>) = 1 /\ <<v>>[1] = v /\ <<v>> # <<>>
  OBVIOUS
<1>2. PICK h \in Seq(Unit) : h = <<v>>
  BY <1>1
<1>3. /\ h \o s \in Seq(Unit) /\ Len(h \o s) = Len(h) + Len(s) /\ Len(s) \in Nat
      /\ \A i \in 1 .. Len(h) + Len(s) : (h \o s)[i] = IF i <= Len(h) THEN h[i] ELSE s[i - Len(h)]
  BY ConcatProperties, LenProperties
<1>4. h \o s # <<>> /\ Head(h \o s) = v
  <2>1. Len(h \o s) >= 1 /\ (h \o s)[1] = v
    BY <1>1, <1>2, <1>3
  <2> QED BY <1>3, <2>1
<1>5. SubSeq(h \o s, Len(h) + 1, Len(h \o s)) = s
  BY BehindFront
<1>6. Len(h) + 1 = 2
  BY <1>1, <1>2
<1>7. (h \o r) \o s = h \o (r \o s)
  BY ConcatAssociative
<1>8. Append(r, v) = r \o h
  <2>1. r \o <<v>> = Append(r, v)
    BY AppendIsConcat
  <2> QED BY <1>2, <2>1
<1>9. (r \o h) \o s = r \o (h \o s)
  BY ConcatAssociative
<1>10. SubSeq(h \o s, 2, Len(h \o s)) = s
  BY <1>5, <1>6
<1>11. <<v>> \o s \in Seq(Unit) /\ <<v>> \o s # <<>> /\ Head(<<v>> \o s) = v
  BY <1>2, <1>3, <1>4
<1>12. SubSeq(<<v>> \o s, 2, Len(<<v>> \o s)) = s
  BY <1>2, <1>10
<1>13. (<<v>> \o r) \o s = <<v>> \o (r \o s) /\ Append(r, v) \o s = r \o (<<v>> \o s)
  BY <1>2, <1>7, <1>8, <1>9
<1> QED BY <1>1, <1>11, <1>12, <1>13

\* Nothing before a sequence.
LEMMA NothingFirst ==
    ASSUME NEW s \in Seq(Unit)
    PROVE  <<>> \o s = s /\ s \o <<>> = s
BY ConcatEmptySeq

\* The tests of the ring's count, and its slots.
LEMMA RingTests ==
    ASSUME RecvTypeOK
    PROVE  /\ RingSize \in Nat \ {0} /\ Slots = RingSlots(RingSize)
           /\ (RingSize + head - tail) % RingSize > 0 <=> head # tail
           /\ (RingSize + head - tail) % RingSize = 0 <=> head = tail
           /\ (head + 1) % RingSize = RingSucc(RingSize, head)
           /\ RingSucc(RingSize, head) \in Slots
           /\ Ring = RingContent(RingSize, head, tail, midiEvent)
           /\ midiEvent \in RingBuffers(RingSize, Unit \cup {None})
           /\ head # RingSucc(RingSize, head)
<1>1. RingSize \in Nat \ {0} /\ Slots = RingSlots(RingSize) /\ RingSize >= 2
  BY ReceiveAssumption DEF Slots, RingSlots
<1>2. head \in RingSlots(RingSize) /\ tail \in RingSlots(RingSize)
  BY <1>1 DEF RecvTypeOK, RecvData
<1>3. RingDistance(RingSize, head, tail) \in 0 .. RingSize - 1
  BY <1>1, <1>2, RingDistanceIs
<1>4. RingDistance(RingSize, head, tail) = 0 <=> head = tail
  BY <1>1, <1>2, RingDistanceSteps
<1>5. RingDistance(RingSize, head, tail) > 0 <=> head # tail
  BY <1>1, <1>3, <1>4
<1>6. RingSucc(RingSize, head) \in RingSlots(RingSize)
      /\ RingSucc(RingSize, head) = IF head = RingSize - 1 THEN 0 ELSE head + 1
  BY <1>1, <1>2, RingSuccWraps
<1>7. head # RingSucc(RingSize, head)
  BY <1>1, <1>2, <1>6 DEF RingSlots
<1>8. Ring = RingContent(RingSize, head, tail, midiEvent)
  BY DEF Ring, RingContent, RingDistance, RingPlace
<1>9. midiEvent \in RingBuffers(RingSize, Unit \cup {None})
  BY <1>1 DEF RingBuffers, RecvTypeOK, RecvData
<1>10. (RingSize + head - tail) % RingSize = RingDistance(RingSize, head, tail)
  BY DEF RingDistance
<1>11. (head + 1) % RingSize = RingSucc(RingSize, head)
  BY DEF RingSucc
<1> QED BY <1>1, <1>4, <1>5, <1>6, <1>7, <1>8, <1>9, <1>10, <1>11

\* What the parts of DueInv are made of.
LEMMA HeldTypes ==
    ASSUME RecvInv
    PROVE  /\ HeldMidi \in Seq(Unit) /\ HeldCdc \in Seq(Unit) /\ Ring \in Seq(Unit)
           /\ \A ep \in Endpoints : FlattenSeq(bank[ep]) \in Seq(Unit)
<1>1. Ring \in Seq(Unit) /\ value \in Unit \cup {None} /\ peek_buffer \in Unit \cup {None}
  BY DEF RecvInv, DueInv, RecvTypeOK, RecvData
<1>2. HeldMidi \in Seq(Unit)
  <2>1. CASE OfMidi /\ Returning
    BY <1>1, <2>1, UnitFirst DEF HeldMidi, Returning
  <2>2. CASE OfMidi /\ Taking /\ ~ Returning
    <3>1. value \in Unit
      BY <1>1, <2>2 DEF Taking
    <3>2. Append(Ring, value) \in Seq(Unit)
      BY <1>1, <3>1, AppendProperties
    <3> QED BY <2>2, <3>2 DEF HeldMidi
  <2>3. CASE ~ (OfMidi /\ Returning) /\ ~ (OfMidi /\ Taking)
    BY <1>1, <2>3 DEF HeldMidi
  <2> QED BY <2>1, <2>2, <2>3
<1>3. HeldCdc \in Seq(Unit)
  <2>1. <<>> \in Seq(Unit)
    OBVIOUS
  <2>2. CASE peek_buffer # None
    BY <1>1, <2>2, UnitFirst DEF HeldCdc
  <2>3. CASE peek_buffer = None /\ ~OfMidi /\ (Returning \/ Taking)
    <3>1. value \in Unit
      BY <1>1, <2>3 DEF Returning, Taking
    <3> QED BY <2>3, <3>1, <2>1, UnitFirst DEF HeldCdc
  <2>4. CASE peek_buffer = None /\ ~(~OfMidi /\ (Returning \/ Taking))
    BY <2>1, <2>4 DEF HeldCdc
  <2> QED BY <2>2, <2>3, <2>4
<1>4. ASSUME NEW ep \in Endpoints PROVE FlattenSeq(bank[ep]) \in Seq(Unit)
  <2>1. bank[ep] \in Seq(Seq(Unit))
    BY DEF RecvInv, RecvTypeOK, RecvData
  <2> QED BY <2>1, FlattenType
<1> QED BY <1>1, <1>2, <1>3, <1>4

\* The ring stays as long as its variables do.
LEMMA RingStays ==
    ASSUME UNCHANGED ringVars
    PROVE  Ring' = Ring
BY DEF ringVars, Ring

\* So does what is due, as long as calls and endpoints hold the same.
LEMMA DueStays ==
    ASSUME RecvInv, UNCHANGED <<bank, due>>, UNCHANGED ringVars,
           HeldMidi' = HeldMidi, HeldCdc' = HeldCdc
    PROVE  DueInv'
BY RingStays DEF RecvInv, DueInv

\* The board at reset.
LEMMA RecvInitInv == RecvInit => RecvInv
<1> SUFFICES ASSUME RecvInit PROVE RecvInv
  OBVIOUS
<1>1. RecvFlags
  BY DEF RecvInit, RecvFlags, Endpoints
<1>2. RecvData
  <2>1. 0 \in Slots
    BY ReceiveAssumption DEF Slots
  <2>2. <<>> \in Seq(Unit) /\ <<>> \in Seq(Seq(Unit))
    OBVIOUS
  <2>3. sent \in [Endpoints -> Nat]
    BY DEF RecvInit
  <2>4. midiEvent \in [Slots -> Unit \cup {None}]
    BY DEF RecvInit
  <2>5. bank \in [Endpoints -> Seq(Seq(Unit))] /\ due \in [Endpoints -> Seq(Unit)]
    BY <2>2 DEF RecvInit
  <2> QED BY <2>1, <2>3, <2>4, <2>5 DEF RecvInit, RecvData
<1>3. LockInv /\ CdcInv /\ MidiInv
  BY DEF RecvInit, LockInv, CdcInv, MidiInv, OfMidi
<1>4. BankInv
  <2>1. \A ep \in Endpoints : bank[ep] = <<>> /\ Len(bank[ep]) = 0
    BY DEF RecvInit
  <2> QED BY <2>1 DEF RecvInit, BankInv
<1>5. DueInv
  <2>1. RecvTypeOK
    BY <1>1, <1>2 DEF RecvTypeOK
  <2>2. Ring = <<>>
    <3>1. head = tail /\ head \in RingSlots(RingSize)
      BY <2>1, RingTests DEF RecvInit, RecvTypeOK, RecvData
    <3> QED BY <2>1, <3>1, RingTests, RingContentEmpty
  <2>3. HeldMidi = <<>> /\ HeldCdc = <<>>
    BY <2>2 DEF RecvInit, HeldMidi, HeldCdc, OfMidi, Taking, Returning
  <2>4. \A ep \in Endpoints : bank[ep] = <<>> /\ due[ep] = <<>>
    BY DEF RecvInit
  <2>5. <<>> \o FlattenSeq(<<>>) = <<>> /\ <<>> \in Seq(Unit)
    <3>1. <<>> \in Seq(Unit)
      OBVIOUS
    <3>2. FlattenSeq(<<>>) = <<>>
      BY FlattenEmpty
    <3>3. <<>> \o <<>> = <<>>
      BY <3>1, NothingFirst
    <3> QED BY <3>1, <3>2, <3>3, Zenon
  <2>6. "MIDI" \in Endpoints /\ "CDC" \in Endpoints
    BY DEF Endpoints
  <2>7. bank["MIDI"] = <<>> /\ due["MIDI"] = <<>> /\ bank["CDC"] = <<>> /\ due["CDC"] = <<>>
    BY <2>4, <2>6
  <2> QED BY <2>2, <2>3, <2>5, <2>7, Zenon DEF DueInv
<1>6. PromiseInv /\ StruckInv
  BY DEF RecvInit, PromiseInv, StruckInv, OfMidi, Endpoints
<1> QED BY <1>1, <1>2, <1>3, <1>4, <1>5, <1>6 DEF RecvInv, RecvTypeOK

\* The handlers select another endpoint, but not under the lock.
LEMMA HandlerInv ==
    ASSUME RecvInv, Handler
    PROVE  RecvInv'
<1> USE DEF RecvInv, Handler, seenVars
<1>1. RecvFlags' /\ RecvData'
  <2>1. RecvFlags'
    BY DEF RecvTypeOK, RecvFlags
  <2>2. RecvData'
    BY DEF RecvTypeOK, RecvData, ringVars
  <2> QED BY <2>1, <2>2
<1>2. LockInv'
  BY DEF LockInv
<1>3. BankInv'
  BY DEF BankInv, From
<1>4. CdcInv' /\ MidiInv'
  BY DEF CdcInv, MidiInv, OfMidi, ringVars
<1>5. DueInv'
  <2>1. HeldMidi' = HeldMidi /\ HeldCdc' = HeldCdc
    BY RingStays DEF HeldMidi, HeldCdc, OfMidi, Taking, Returning
  <2> QED BY <2>1, DueStays
<1>6. PromiseInv'
  BY DEF PromiseInv, OfMidi
<1>s. StruckInv'
  BY DEF StruckInv, OfMidi
<1> QED BY <1>1, <1>2, <1>3, <1>4, <1>5, <1>6, <1>s DEF RecvTypeOK

\* A call of the sketch that reads, peeks or looks, and what a call does after
\* USB_Recv(), leave the endpoints and what is due alone.
LEMMA CdcReadInv ==
    ASSUME RecvInv, CdcRead \/ CdcPeek
    PROVE  RecvInv'
<1> USE DEF RecvInv, CdcRead, CdcPeek, usbVars, seenVars
<1>0. ~ OfMidi' /\ pc = "idle" /\ ~ stale /\ ~ stale'
  BY DEF OfMidi, StruckInv
<1>1. RecvFlags'
  BY DEF RecvTypeOK, RecvFlags
<1>2. RecvData'
  BY DEF RecvTypeOK, RecvData, ringVars
<1>3. LockInv'
  BY DEF LockInv
<1>4. BankInv'
  BY <1>0 DEF BankInv
<1>5. CdcInv' /\ MidiInv'
  BY <1>0 DEF CdcInv, MidiInv
<1>6. DueInv'
  <2>1. HeldMidi' = HeldMidi
    BY <1>0, RingStays DEF HeldMidi, Taking, Returning
  <2>2. HeldCdc' = HeldCdc
    BY <1>0 DEF HeldCdc, Taking, Returning
  <2>3. UNCHANGED <<bank, due>> /\ UNCHANGED ringVars
    OBVIOUS
  <2> QED BY <2>1, <2>2, <2>3, DueStays
<1>7. PromiseInv'
  BY <1>0 DEF PromiseInv
<1>s. StruckInv'
  BY <1>0 DEF StruckInv, OfMidi
<1> QED BY <1>1, <1>2, <1>3, <1>4, <1>5, <1>6, <1>7, <1>s DEF RecvTypeOK

\* The front of an endpoint: its first packet holds something, unless it is the one
\* being read.
LEMMA BankFront ==
    ASSUME RecvInv, NEW ep \in Endpoints, bank[ep] # <<>>
    PROVE  /\ Head(bank[ep]) \in Seq(Unit) /\ Tail(bank[ep]) \in Seq(Seq(Unit))
           /\ Head(bank[ep]) = bank[ep][1]
           /\ FlattenSeq(bank[ep]) = Head(bank[ep]) \o FlattenSeq(Tail(bank[ep]))
           /\ FlattenSeq(Tail(bank[ep])) \in Seq(Unit)
           /\ ~ (pc = "release" /\ value # None) => Head(bank[ep]) # <<>>
           /\ configured
<1>1. bank[ep] \in Seq(Seq(Unit))
  BY DEF RecvInv, RecvTypeOK, RecvData
<1>2. Head(bank[ep]) \in Seq(Unit) /\ Tail(bank[ep]) \in Seq(Seq(Unit))
  BY <1>1, HeadTailProperties
<1>3. FlattenSeq(bank[ep]) = Head(bank[ep]) \o FlattenSeq(Tail(bank[ep]))
  BY <1>1, FlattenHead
<1>4. FlattenSeq(Tail(bank[ep])) \in Seq(Unit)
  BY <1>2, FlattenType
<1>5. Head(bank[ep]) = bank[ep][1] /\ 1 \in 1 .. Len(bank[ep])
  <2>1. Len(bank[ep]) \in Nat \ {0}
    BY <1>1, EmptySeq
  <2> QED BY <1>1, <2>1
<1>6. ~ (pc = "release" /\ value # None) => Head(bank[ep]) # <<>>
  BY <1>5 DEF RecvInv, BankInv
<1>7. configured
  BY DEF RecvInv, BankInv
<1> QED BY <1>2, <1>3, <1>4, <1>5, <1>6, <1>7

\* Sequences that are not empty make one that is not.
LEMMA SomethingFirst ==
    ASSUME NEW a \in Seq(Unit), NEW b \in Seq(Unit), a # <<>> \/ b # <<>>
    PROVE  a \o b # <<>>
<1>1. Len(a) \in Nat /\ Len(b) \in Nat /\ Len(a \o b) = Len(a) + Len(b)
  BY LenProperties, ConcatProperties
<1>2. Len(a) # 0 \/ Len(b) # 0
  BY EmptySeq
<1>3. Len(a \o b) # 0
  BY <1>1, <1>2
<1> QED BY <1>3

\* What an endpoint holds is due; with nothing in hand it is all that is.
LEMMA DueIs ==
    ASSUME RecvInv, NEW ep \in Endpoints, ~ (pc = "release" /\ value # None)
    PROVE  /\ bank[ep] # <<>> => FlattenSeq(bank[ep]) # <<>> /\ due[ep] # <<>>
           /\ bank[ep] = <<>> => due[ep] = IF ep = "MIDI" THEN HeldMidi ELSE HeldCdc
           /\ ep = "MIDI" /\ HeldMidi # <<>> => due[ep] # <<>>
           /\ ep = "CDC" /\ HeldCdc # <<>> => due[ep] # <<>>
<1> DEFINE H == IF ep = "MIDI" THEN HeldMidi ELSE HeldCdc
           F == FlattenSeq(bank[ep])
<1>1. H \in Seq(Unit) /\ F \in Seq(Unit)
  BY HeldTypes
<1>2. due[ep] = H \o F
  <2>1. ep = "MIDI" \/ ep = "CDC"
    BY DEF Endpoints
  <2> QED BY <2>1, Zenon DEF RecvInv, DueInv
<1>3. ASSUME bank[ep] # <<>> PROVE F # <<>>
  <2>1. /\ Head(bank[ep]) \in Seq(Unit) /\ FlattenSeq(Tail(bank[ep])) \in Seq(Unit)
        /\ F = Head(bank[ep]) \o FlattenSeq(Tail(bank[ep])) /\ Head(bank[ep]) # <<>>
    BY <1>3, BankFront
  <2> HIDE DEF F
  <2> QED BY <2>1, SomethingFirst
<1>4. ASSUME bank[ep] = <<>> PROVE F = <<>>
  BY <1>4, FlattenEmpty
<1> HIDE DEF H, F
<1>5. bank[ep] # <<>> => due[ep] # <<>>
  BY <1>1, <1>2, <1>3, SomethingFirst
<1>6. H # <<>> => due[ep] # <<>>
  BY <1>1, <1>2, SomethingFirst
<1>7. bank[ep] = <<>> => due[ep] = H
  BY <1>1, <1>2, <1>4, NothingFirst
<1>8. "MIDI" # "CDC"
  OBVIOUS
<1> QED BY <1>3, <1>5, <1>6, <1>7, <1>8 DEF H, F

\* The ring holds something as long as head and tail are apart.
LEMMA RingHolds ==
    ASSUME RecvInv
    PROVE  Ring # <<>> <=> head # tail
<1>0. RecvTypeOK
  BY DEF RecvInv
<1>1. head \in RingSlots(RingSize) /\ tail \in RingSlots(RingSize)
  BY <1>0, RingTests DEF RecvTypeOK, RecvData
<1>2. Len(Ring) = RingDistance(RingSize, head, tail) /\ Ring \in Seq(Unit \cup {None})
  BY <1>0, <1>1, RingTests, RingContentIs
<1>3. RingDistance(RingSize, head, tail) = 0 <=> head = tail
  BY <1>0, <1>1, RingTests, RingDistanceSteps
<1>4. Ring = <<>> <=> Len(Ring) = 0
  BY <1>2, EmptySeq
<1> QED BY <1>2, <1>3, <1>4

\* available(): what it promises is due.
LEMMA AvailableInv ==
    ASSUME RecvInv, CdcAvailable \/ MidiAvailable
    PROVE  RecvInv'
<1> USE DEF RecvInv, CdcAvailable, MidiAvailable, usbVars, seenVars
<1>0. pc = "idle" /\ pc' = "idle" /\ ~ Taking /\ ~ Returning
  BY DEF Taking, Returning
<1>1. RecvFlags'
  <2>1. cli' \in BOOLEAN /\ configured' \in BOOLEAN /\ struck' \in BOOLEAN /\ stale' \in BOOLEAN
    BY DEF RecvTypeOK, RecvFlags
  <2>2. promised' \in [Endpoints -> BOOLEAN]
    <3>1. promised \in [Endpoints -> BOOLEAN]
      BY DEF RecvTypeOK, RecvFlags
    <3>2. CASE CdcAvailable
      <4> DEFINE b == peek_buffer # None \/ Available("CDC") > 0
      <4>1. b \in BOOLEAN
        OBVIOUS
      <4>2. promised' = [promised EXCEPT !["CDC"] = b]
        BY <3>2
      <4> HIDE DEF b
      <4> QED BY <3>1, <4>1, <4>2
    <3>3. CASE MidiAvailable
      <4> DEFINE b == (RingSize + head - tail) % RingSize > 0
      <4>1. b \in BOOLEAN
        OBVIOUS
      <4>2. promised' = [promised EXCEPT !["MIDI"] = b]
        BY <3>3, Zenon
      <4> HIDE DEF b
      <4> QED BY <3>1, <4>1, <4>2
    <3> QED BY <3>2, <3>3
  <2> QED BY <2>1, <2>2 DEF RecvFlags
<1>2. RecvData'
  BY DEF RecvTypeOK, RecvData, ringVars, Endpoints
<1>3. LockInv' /\ CdcInv' /\ MidiInv'
  BY <1>0 DEF LockInv, CdcInv, MidiInv, OfMidi
<1>4. BankInv'
  BY <1>0 DEF BankInv
<1>5. DueInv'
  <2>1. UNCHANGED <<bank, due>> /\ UNCHANGED ringVars /\ UNCHANGED <<call, value, peek_buffer, pc>>
    BY <1>0
  <2>2. HeldMidi' = HeldMidi /\ HeldCdc' = HeldCdc
    BY <2>1, RingStays DEF HeldMidi, HeldCdc, Taking, Returning, OfMidi
  <2> QED BY <2>1, <2>2, DueStays
<1>6. PromiseInv'
  <2>1. due' = due
    OBVIOUS
  <2>2. ASSUME NEW ep \in Endpoints, promised'[ep] PROVE due[ep] # <<>>
    <3>0. promised \in [Endpoints -> BOOLEAN] /\ (promised[ep] => due[ep] # <<>>)
      BY DEF RecvTypeOK, RecvFlags, PromiseInv
    <3>1. CASE CdcAvailable /\ ep = "CDC"
      <4>1. peek_buffer # None \/ Available("CDC") > 0
        BY <2>2, <3>0, <3>1 DEF CdcAvailable
      <4>2. CASE peek_buffer # None
        <5>1. HeldCdc = <<peek_buffer>> /\ HeldCdc # <<>>
          BY <4>2 DEF HeldCdc
        <5> QED BY <1>0, <3>1, <5>1, DueIs
      <4>3. CASE Available("CDC") > 0
        <5>1. bank["CDC"] # <<>>
          BY <4>3 DEF Available
        <5> QED BY <1>0, <3>1, <5>1, DueIs
      <4> QED BY <4>1, <4>2, <4>3
    <3>2. CASE MidiAvailable /\ ep = "MIDI"
      <4>1. promised'["MIDI"] = ((RingSize + head - tail) % RingSize > 0)
        BY <3>0, <3>2, Zenon DEF MidiAvailable
      <4>2. (RingSize + head - tail) % RingSize > 0
        BY <2>2, <3>2, <4>1, Zenon
      <4>3. head # tail
        BY <4>2, RingTests
      <4>4. HeldMidi = Ring /\ Ring # <<>>
        BY <1>0, <4>3, RingHolds DEF HeldMidi
      <4> QED BY <1>0, <3>2, <4>4, DueIs
    <3>3. CASE ~(CdcAvailable /\ ep = "CDC") /\ ~(MidiAvailable /\ ep = "MIDI")
      <4>1. promised'[ep] = promised[ep]
        BY <3>0, <3>3
      <4> QED BY <2>2, <3>0, <4>1
    <3> QED BY <3>1, <3>2, <3>3
  <2> QED BY <1>0, <2>1, <2>2 DEF PromiseInv
<1>s. StruckInv'
  BY <1>0 DEF StruckInv, OfMidi
<1> QED BY <1>1, <1>2, <1>3, <1>4, <1>5, <1>6, <1>s DEF RecvTypeOK

\* The oldest event of the ring, and the rest.
LEMMA OldestEvent ==
    ASSUME RecvInv, head # tail
    PROVE  /\ midiEvent[tail] \in Unit
           /\ RingContent(RingSize, head, RingSucc(RingSize, tail), midiEvent) \in Seq(Unit)
           /\ Ring = <<midiEvent[tail]>>
                       \o RingContent(RingSize, head, RingSucc(RingSize, tail), midiEvent)
<1> DEFINE B == Unit \cup {None}
           rest == RingContent(RingSize, head, RingSucc(RingSize, tail), midiEvent)
<1>0. RecvTypeOK
  BY DEF RecvInv
<1>1. /\ RingSize \in Nat \ {0} /\ head \in RingSlots(RingSize) /\ tail \in RingSlots(RingSize)
      /\ midiEvent \in RingBuffers(RingSize, B) /\ Ring = RingContent(RingSize, head, tail, midiEvent)
  BY <1>0, RingTests DEF RecvTypeOK, RecvData
<1>2. RingSucc(RingSize, tail) \in RingSlots(RingSize)
  BY <1>1, RingSuccWraps
<1>3. rest \in Seq(B)
  BY <1>1, <1>2, RingContentIs
<1>4. Ring = <<midiEvent[tail]>> \o rest
  BY <1>1, RingContentFirst
<1>b. PICK e \in B : e = midiEvent[tail]
  BY <1>1 DEF RingBuffers
<1> HIDE DEF B, rest
<1>5. PICK h \in Seq(B) : h = <<midiEvent[tail]>> /\ Len(h) = 1 /\ h[1] = midiEvent[tail]
  <2>1. <<e>> \in Seq(B) /\ Len(<<e>>) = 1 /\ <<e>>[1] = e
    OBVIOUS
  <2> QED BY <1>b, <2>1
<1>6. /\ Ring \in Seq(Unit) /\ Ring = h \o rest
      /\ Len(h \o rest) = Len(h) + Len(rest) /\ Len(rest) \in Nat
      /\ (h \o rest)[1] = h[1]
  <2>1. Ring \in Seq(Unit)
    BY DEF RecvInv, DueInv
  <2>2. /\ Len(h \o rest) = Len(h) + Len(rest) /\ Len(rest) \in Nat
        /\ \A i \in 1 .. Len(h) + Len(rest) :
              (h \o rest)[i] = IF i <= Len(h) THEN h[i] ELSE rest[i - Len(h)]
    BY <1>3, ConcatProperties, LenProperties
  <2> QED BY <1>4, <1>5, <2>1, <2>2
<1>7. midiEvent[tail] \in Unit
  <2>1. 1 \in 1 .. Len(Ring)
    BY <1>5, <1>6
  <2>2. Ring[1] \in Unit
    BY <1>6, <2>1, ElementOfSeq
  <2> QED BY <1>5, <1>6, <2>2
<1>8. rest \in Seq(Unit)
  <2>1. SubSeq(h \o rest, Len(h) + 1, Len(h \o rest)) = rest
    BY <1>3, BehindFront
  <2>2. SubSeq(Ring, 2, Len(Ring)) = rest
    BY <1>5, <1>6, <2>1
  <2>3. Len(Ring) \in Nat /\ \A i \in 2 .. Len(Ring) : Ring[i] \in Unit
    BY <1>6, LenProperties, ElementOfSeq
  <2>4. SubSeq(Ring, 2, Len(Ring)) \in Seq(Unit)
    BY <1>6, <2>3, SubSeqProperties
  <2> QED BY <2>2, <2>4
<1> QED BY <1>4, <1>7, <1>8 DEF rest

\* read() of MIDI, with something in the ring, in the endpoint, or in neither.
LEMMA MidiReadInv ==
    ASSUME RecvInv, MidiRead
    PROVE  RecvInv'
<1> USE DEF RecvInv, MidiRead, seenVars
<1>0. /\ pc = "idle" /\ pc' \in {"load", "accept", "midi_return"} /\ OfMidi'
      /\ ~ Taking /\ ~ Returning /\ ~ Taking' /\ ~ Returning'
  BY DEF OfMidi, Taking, Returning
<1>t. /\ (RingSize + head - tail) % RingSize > 0 <=> head # tail
      /\ (RingSize + head - tail) % RingSize = 0 <=> head = tail
  BY RingTests
<1>b. /\ UNCHANGED <<bank, cli, configured, peek_buffer, due, sent, struck, stale, promised>>
      /\ UNCHANGED ringVars /\ value' = None
  OBVIOUS
<1>c. \/ head # tail /\ pc' = "load" /\ uenum' = uenum
      \/ /\ head = tail /\ uenum' = "MIDI"
         /\ pc' = IF Available("MIDI") > 0 THEN "accept" ELSE "midi_return"
  BY <1>t, Zenon
<1>d. pc' = "midi_return" => bank["MIDI"] = <<>>
  <2> SUFFICES ASSUME pc' = "midi_return", bank["MIDI"] # <<>> PROVE FALSE
    OBVIOUS
  <2>1. "MIDI" \in Endpoints
    BY DEF Endpoints
  <2>2. Head(bank["MIDI"]) \in Seq(Unit) /\ Head(bank["MIDI"]) # <<>>
    BY <1>0, <2>1, BankFront
  <2>3. Len(Head(bank["MIDI"])) \in Nat /\ Len(Head(bank["MIDI"])) # 0
    BY <2>2, LenProperties, EmptySeq
  <2>4. ~ (Available("MIDI") > 0)
    BY <1>c
  <2> QED BY <2>3, <2>4 DEF Available
<1> USE <1>0, <1>b, <1>c, <1>d
<1>1. RecvFlags'
  BY DEF RecvTypeOK, RecvFlags
<1>2. RecvData'
  BY DEF RecvTypeOK, RecvData, ringVars, Endpoints
<1>3. LockInv' /\ CdcInv'
  BY DEF LockInv, CdcInv
<1>4. MidiInv'
  BY DEF MidiInv, ringVars, Available
<1>5. BankInv'
  BY DEF BankInv
<1>6. DueInv'
  <2>1. HeldMidi' = HeldMidi /\ HeldCdc' = HeldCdc
    BY RingStays DEF HeldMidi, HeldCdc
  <2> QED BY <2>1, DueStays
<1>7. PromiseInv'
  <2>1. ASSUME pc' = "midi_return", promised["MIDI"] PROVE FALSE
    <3>1. due["MIDI"] # <<>> /\ "MIDI" \in Endpoints
      BY <2>1 DEF PromiseInv, Endpoints
    <3>2. due["MIDI"] = HeldMidi
      BY <2>1, <3>1, DueIs
    <3>3. HeldMidi = Ring
      BY DEF HeldMidi
    <3>4. Ring = <<>>
      BY <2>1, RingHolds
    <3> QED BY <3>1, <3>2, <3>3, <3>4
  <2> QED BY <2>1 DEF PromiseInv
<1>s. StruckInv'
  BY DEF StruckInv, OfMidi
<1> QED BY <1>1, <1>2, <1>3, <1>4, <1>5, <1>6, <1>7, <1>s DEF RecvTypeOK

\* USB_Recv() begins: the endpoint is selected and locked, or there is none.
LEMMA RecvLockInv ==
    ASSUME RecvInv, RecvLock
    PROVE  RecvInv'
<1> USE DEF RecvInv, RecvLock, seenVars
<1>0. /\ pc = "recv" /\ pc' \in {"take", "received"} /\ value' = None
      /\ pc' = "take" => cli' = TRUE /\ uenum' = From
      /\ pc' = "received" => ~configured /\ cli' = cli /\ uenum' = uenum
      /\ UNCHANGED <<bank, configured, peek_buffer, call, due, sent, struck, stale, promised>>
      /\ UNCHANGED ringVars
  BY DEF SetEP, From
<1>a. From \in Endpoints /\ From' = From /\ OfMidi' = OfMidi
  BY <1>0 DEF From, OfMidi, Endpoints
<1>b. ASSUME pc' = "received" PROVE \A ep \in Endpoints : bank[ep] = <<>>
  BY <1>0, <1>b DEF BankInv
<1> USE <1>0, <1>a, <1>b
<1>1. RecvFlags'
  BY DEF RecvTypeOK, RecvFlags
<1>2. RecvData'
  BY DEF RecvTypeOK, RecvData, ringVars
<1>3. LockInv' /\ CdcInv'
  BY DEF LockInv, CdcInv
<1>4. MidiInv'
  BY DEF MidiInv, ringVars, Endpoints
<1>5. BankInv'
  BY DEF BankInv
<1>6. DueInv'
  <2>1. HeldMidi' = HeldMidi /\ HeldCdc' = HeldCdc
    BY RingStays DEF HeldMidi, HeldCdc, Taking, Returning
  <2> QED BY <2>1, DueStays
<1>7. PromiseInv'
  <2>1. ASSUME pc' = "received", ~OfMidi, promised["CDC"] PROVE FALSE
    <3>1. due["CDC"] # <<>> /\ bank["CDC"] = <<>> /\ "CDC" \in Endpoints
      BY <2>1 DEF PromiseInv, Endpoints
    <3>2. due["CDC"] = HeldCdc
      <4>1. "CDC" # "MIDI"
        OBVIOUS
      <4> QED BY <3>1, <4>1, DueIs
    <3>3. HeldCdc = <<>>
      BY <2>1 DEF HeldCdc, CdcInv, Taking, Returning
    <3> QED BY <3>1, <3>2, <3>3
  <2> QED BY <2>1 DEF PromiseInv
<1>s. StruckInv'
  BY DEF StruckInv, OfMidi
<1> QED BY <1>1, <1>2, <1>3, <1>4, <1>5, <1>6, <1>7, <1>s DEF RecvTypeOK

\* read() and peek() of CDC after USB_Recv().
LEMMA CdcReceivedInv ==
    ASSUME RecvInv, CdcReceived
    PROVE  RecvInv'
<1> USE DEF RecvInv, CdcReceived, usbVars, seenVars
<1>0. pc = "received" /\ pc' = "return" /\ ~ OfMidi /\ ~ OfMidi' /\ peek_buffer = None
      /\ ~ stale /\ ~ stale'
  BY DEF OfMidi, CdcInv, StruckInv
<1>1. RecvFlags'
  BY DEF RecvTypeOK, RecvFlags
<1>2. RecvData'
  BY DEF RecvTypeOK, RecvData, ringVars
<1>3. LockInv' /\ CdcInv' /\ MidiInv'
  BY <1>0 DEF LockInv, CdcInv, MidiInv
<1>4. BankInv'
  BY <1>0 DEF BankInv
<1>5. DueInv'
  <2>1. HeldMidi' = HeldMidi
    BY <1>0, RingStays DEF HeldMidi
  <2>2. HeldCdc' = HeldCdc
    BY <1>0 DEF HeldCdc, Taking, Returning
  <2> QED BY <2>1, <2>2, DueStays
<1>6. PromiseInv'
  BY <1>0 DEF PromiseInv
<1>s. StruckInv'
  BY <1>0 DEF StruckInv, OfMidi
<1> QED BY <1>1, <1>2, <1>3, <1>4, <1>5, <1>6, <1>s DEF RecvTypeOK

\* accept() goes on or ends, and the oldest event is loaded.
LEMMA AcceptInv ==
    ASSUME RecvInv, Accept \/ MidiLoad
    PROVE  RecvInv'
<1> USE DEF RecvInv, Accept, MidiLoad, usbVars, seenVars
<1>0. /\ pc \in {"accept", "load"} /\ pc' \in {"recv", "load", "midi_return"}
      /\ UNCHANGED <<bank, uenum, cli, configured, peek_buffer, call, due, sent, struck, promised>>
      /\ UNCHANGED ringVars /\ UNCHANGED <<midiEvent, head, tail>>
  BY DEF ringVars
<1>a. OfMidi /\ OfMidi' /\ ~ Taking /\ ~ Returning /\ ~ Taking' /\ ~ Returning'
  BY <1>0 DEF CdcInv, OfMidi, Taking, Returning
<1>b. pc' = "midi_return" =>
         /\ pc = "load" /\ value' = midiEvent[tail] /\ stale' = (head = tail)
         /\ value' \in Unit \cup {None}
         /\ head # tail => value' \in Unit
         /\ head = tail => struck
  <2>1. pc' = "midi_return" => pc = "load" /\ value' = midiEvent[tail] /\ stale' = (head = tail)
    OBVIOUS
  <2>2. midiEvent[tail] \in Unit \cup {None}
    BY DEF RecvTypeOK, RecvData
  <2> QED BY <1>a, <2>1, <2>2, OldestEvent DEF MidiInv
<1>c. pc' # "midi_return" => value' = value /\ stale' = stale
  OBVIOUS
<1>d. /\ pc' \in {"recv", "load"} => pc = "accept"
      /\ pc' = "recv" => RingSucc(RingSize, head) # tail
      /\ pc' = "load" => head # tail \/ struck
  BY RingTests
<1> USE <1>0, <1>a, <1>b, <1>c, <1>d
<1>1. RecvFlags'
  BY DEF RecvTypeOK, RecvFlags
<1>2. RecvData'
  BY DEF RecvTypeOK, RecvData
<1>3. LockInv' /\ CdcInv'
  BY DEF LockInv, CdcInv
<1>4. MidiInv'
  BY DEF MidiInv
<1>5. BankInv'
  BY DEF BankInv
<1>6. DueInv'
  <2>1. HeldMidi' = HeldMidi /\ HeldCdc' = HeldCdc
    BY RingStays DEF HeldMidi, HeldCdc
  <2> QED BY <2>1, DueStays
<1>7. PromiseInv'
  <2>1. struck => ~ promised["MIDI"]
    BY DEF StruckInv, Endpoints
  <2> QED BY <2>1, NoneIsNoUnit DEF PromiseInv
<1>s. StruckInv'
  <2>1. struck' => struck /\ pc' # "idle" /\ \A ep \in Endpoints : ~promised'[ep]
    BY DEF StruckInv
  <2>2. stale' => struck' /\ pc' = "midi_return"
    <3>1. pc' # "midi_return" => ~ stale'
      <4>1. pc # "midi_return" /\ pc # "return"
        OBVIOUS
      <4> QED BY <4>1 DEF StruckInv
    <3>2. stale' /\ pc' = "midi_return" => head = tail
      BY <1>b, Zenon
    <3> QED BY <3>1, <3>2
  <2> QED BY <2>1, <2>2 DEF StruckInv
<1> QED BY <1>1, <1>2, <1>3, <1>4, <1>5, <1>6, <1>7, <1>s DEF RecvTypeOK

\* A packet of units, numbered on from the last.
LEMMA PacketIs ==
    ASSUME NEW k \in Nat, NEW n \in Nat, n >= 1
    PROVE  /\ [i \in 1 .. n |-> k + i] \in Seq(Unit)
           /\ [i \in 1 .. n |-> k + i] # <<>>
<1>1. [i \in 1 .. n |-> k + i] \in Seq(Nat) /\ Len([i \in 1 .. n |-> k + i]) = n
  OBVIOUS
<1> QED BY <1>1 DEF Unit

\* A packet goes behind the others.
LEMMA PacketLast ==
    ASSUME NEW s \in Seq(Seq(Unit)), NEW p \in Seq(Unit)
    PROVE  /\ Append(s, p) \in Seq(Seq(Unit)) /\ Append(s, p) # <<>>
           /\ Len(Append(s, p)) = Len(s) + 1 /\ Len(s) \in Nat
           /\ Append(s, p)[Len(s) + 1] = p
           /\ \A i \in 1 .. Len(s) : Append(s, p)[i] = s[i]
<1>1. Len(s) \in Nat
  BY LenProperties
<1>2. /\ Append(s, p) \in Seq(Seq(Unit)) /\ Append(s, p) # <<>>
      /\ Len(Append(s, p)) = Len(s) + 1
      /\ Append(s, p)[Len(s) + 1] = p
      /\ \A i \in 1 .. Len(s) : Append(s, p)[i] = s[i]
  BY AppendProperties
<1> QED BY <1>1, <1>2

\* The host sends: what is due grows at its end, as the endpoint does.
LEMMA HostSendsInv ==
    ASSUME RecvInv, NEW ep \in Endpoints, HostSends(ep)
    PROVE  RecvInv'
<1> USE DEF RecvInv
<1>1. PICK n \in 1 .. PacketSize :
          /\ bank' = [bank EXCEPT ![ep] = Append(@, [k \in 1 .. n |-> sent[ep] + k])]
          /\ due' = [due EXCEPT ![ep] = @ \o [k \in 1 .. n |-> sent[ep] + k]]
          /\ sent' = [sent EXCEPT ![ep] = @ + n]
  BY DEF HostSends
<1>2. n \in Nat /\ n >= 1
  BY ReceiveAssumption
<1>3. sent[ep] \in Nat
  BY DEF RecvTypeOK, RecvData
<1>4. PICK p \in Seq(Unit) : p = [k \in 1 .. n |-> sent[ep] + k] /\ p # <<>>
  BY <1>2, <1>3, PacketIs
<1>5. /\ bank' = [bank EXCEPT ![ep] = Append(@, p)]
      /\ due' = [due EXCEPT ![ep] = @ \o p]
      /\ configured /\ configured' = configured
      /\ UNCHANGED <<uenum, cli, peek_buffer, pc, call, value, struck, stale, promised>>
      /\ UNCHANGED ringVars
  BY <1>1, <1>4 DEF HostSends
<1>6. bank \in [Endpoints -> Seq(Seq(Unit))] /\ due \in [Endpoints -> Seq(Unit)]
  BY DEF RecvTypeOK, RecvData
<1>7. bank[ep] \in Seq(Seq(Unit)) /\ due[ep] \in Seq(Unit)
  BY <1>6
<1>8. /\ Append(bank[ep], p) \in Seq(Seq(Unit)) /\ Append(bank[ep], p) # <<>>
      /\ Len(Append(bank[ep], p)) = Len(bank[ep]) + 1 /\ Len(bank[ep]) \in Nat
      /\ Append(bank[ep], p)[Len(bank[ep]) + 1] = p
      /\ \A i \in 1 .. Len(bank[ep]) : Append(bank[ep], p)[i] = bank[ep][i]
  BY <1>4, <1>7, PacketLast
<1>9. due[ep] \o p \in Seq(Unit)
  BY <1>4, <1>7, ConcatProperties
<1>10. /\ bank'[ep] = Append(bank[ep], p) /\ due'[ep] = due[ep] \o p
       /\ \A e \in Endpoints : e # ep => bank'[e] = bank[e] /\ due'[e] = due[e]
  BY <1>5, <1>6
<1>11. RecvFlags'
  BY <1>5 DEF RecvTypeOK, RecvFlags
<1>12. RecvData'
  <2>1. bank' \in [Endpoints -> Seq(Seq(Unit))] /\ due' \in [Endpoints -> Seq(Unit)]
    <3>1. PICK b \in Seq(Seq(Unit)) : b = Append(bank[ep], p)
      BY <1>8
    <3>2. PICK d \in Seq(Unit) : d = due[ep] \o p
      BY <1>9
    <3>3. bank' = [bank EXCEPT ![ep] = b] /\ due' = [due EXCEPT ![ep] = d]
      BY <1>5, <3>1, <3>2
    <3> QED BY <1>6, <3>3
  <2>2. sent' \in [Endpoints -> Nat]
    <3>1. sent \in [Endpoints -> Nat]
      BY DEF RecvTypeOK, RecvData
    <3> QED BY <1>1, <1>2, <3>1
  <2>3. (midiEvent \in [Slots -> Unit \cup {None}] /\ head \in Slots /\ tail \in Slots)'
    BY <1>5 DEF RecvTypeOK, RecvData, ringVars
  <2> QED BY <1>5, <2>1, <2>2, <2>3 DEF RecvTypeOK, RecvData
<1>13. LockInv' /\ CdcInv'
  BY <1>5 DEF LockInv, CdcInv, From, OfMidi
<1>14. MidiInv'
  <2>1. bank["MIDI"] # <<>> => bank'["MIDI"] # <<>>
    BY <1>8, <1>10 DEF Endpoints
  <2>2. UNCHANGED <<midiEvent, head, tail>>
    BY <1>5 DEF ringVars
  <2> QED BY <1>5, <2>1, <2>2 DEF MidiInv, OfMidi
<1>15. BankInv'
  <2>1. ASSUME NEW e \in Endpoints, NEW i \in 1 .. Len(bank'[e]), bank'[e][i] = <<>>
        PROVE  i = 1 /\ e = From /\ pc = "release" /\ value # None
    <3>1. CASE e = ep
      <4>1. PICK b : b = Append(bank[ep], p)
        OBVIOUS
      <4>2. PICK k \in Nat : k = Len(bank[ep])
        BY <1>8
      <4>3. /\ Len(b) = k + 1 /\ b[k + 1] = p
            /\ \A j \in 1 .. k : b[j] = bank[ep][j]
        BY <1>8, <4>1, <4>2
      <4>4. i \in 1 .. k + 1 /\ b[i] = <<>>
        BY <1>10, <2>1, <3>1, <4>1, <4>3
      <4>5. i # k + 1
        BY <1>4, <4>3, <4>4
      <4>6. i \in 1 .. k
        BY <4>4, <4>5
      <4>7. i \in 1 .. Len(bank[ep]) /\ bank[ep][i] = <<>>
        BY <4>2, <4>3, <4>4, <4>6
      <4> QED BY <3>1, <4>7 DEF BankInv
    <3>2. CASE e # ep
      BY <1>10, <2>1, <3>2 DEF BankInv
    <3> QED BY <3>1, <3>2
  <2>3. From' = From
    BY <1>5 DEF From
  <2> QED BY <1>5, <2>1, <2>3 DEF BankInv
<1>16. DueInv'
  <2>1. HeldMidi' = HeldMidi /\ HeldCdc' = HeldCdc /\ Ring' = Ring
    BY <1>5, RingStays DEF HeldMidi, HeldCdc, OfMidi, Taking, Returning
  <2>2. ASSUME NEW h \in Seq(Unit), due[ep] = h \o FlattenSeq(bank[ep])
        PROVE  due'[ep] = h \o FlattenSeq(bank'[ep])
    <3>1. PICK f \in Seq(Unit) : f = FlattenSeq(bank[ep])
      BY HeldTypes
    <3>2. FlattenSeq(Append(bank[ep], p)) = f \o p
      BY <1>4, <1>7, <3>1, FlattenAppend
    <3>3. (h \o f) \o p = h \o (f \o p)
      BY <1>4, <3>1, ConcatAssociative
    <3> QED BY <1>10, <2>2, <3>1, <3>2, <3>3
  <2>3. due'["MIDI"] = HeldMidi \o FlattenSeq(bank'["MIDI"])
    <3>1. CASE ep = "MIDI"
      BY <2>2, <3>1, HeldTypes, Zenon DEF DueInv
    <3>2. CASE ep # "MIDI"
      <4>1. "MIDI" \in Endpoints
        BY DEF Endpoints
      <4>2. bank'["MIDI"] = bank["MIDI"] /\ due'["MIDI"] = due["MIDI"]
        BY <1>10, <3>2, <4>1
      <4> QED BY <4>2 DEF DueInv
    <3> QED BY <3>1, <3>2
  <2>4. due'["CDC"] = HeldCdc \o FlattenSeq(bank'["CDC"])
    <3>1. CASE ep = "CDC"
      BY <2>2, <3>1, HeldTypes, Zenon DEF DueInv
    <3>2. CASE ep # "CDC"
      <4>1. "CDC" \in Endpoints
        BY DEF Endpoints
      <4>2. bank'["CDC"] = bank["CDC"] /\ due'["CDC"] = due["CDC"]
        BY <1>10, <3>2, <4>1
      <4> QED BY <4>2 DEF DueInv
    <3> QED BY <3>1, <3>2
  <2> QED BY <2>1, <2>3, <2>4 DEF DueInv
<1>17. PromiseInv'
  <2>1. ASSUME NEW e \in Endpoints, promised[e] PROVE due'[e] # <<>>
    <3>1. due[e] # <<>>
      BY <2>1 DEF PromiseInv
    <3>2. CASE e = ep
      <4>1. due[ep] \o p # <<>>
        BY <1>4, <1>7, SomethingFirst
      <4> QED BY <1>10, <3>2, <4>1
    <3>3. CASE e # ep
      BY <1>10, <3>1, <3>3
    <3> QED BY <3>2, <3>3
  <2>2. OfMidi' = OfMidi
    BY <1>5 DEF OfMidi
  <2> QED BY <1>5, <2>1, <2>2 DEF PromiseInv
<1>s. StruckInv'
  BY <1>5 DEF StruckInv, OfMidi
<1> QED BY <1>11, <1>12, <1>13, <1>14, <1>15, <1>16, <1>17, <1>s DEF RecvTypeOK

\* A reset of the bus, and the handlers that follow: what the board has taken out
\* stays due, wherever the call is.
LEMMA EmptiedInv ==
    ASSUME RecvInv, BusReset \/ Reconfigure
    PROVE  RecvInv'
<1> USE DEF RecvInv
<1>0. /\ UNCHANGED <<cli, peek_buffer, pc, call, value, sent, stale>>
      /\ UNCHANGED ringVars /\ UNCHANGED <<midiEvent, head, tail>>
      /\ bank' = [ep \in Endpoints |-> <<>>]
      /\ due' = [ep \in Endpoints |-> IF ep = "MIDI" THEN HeldMidi ELSE HeldCdc]
      /\ promised' = [ep \in Endpoints |-> FALSE]
      /\ struck' = (pc # "idle")
  BY DEF BusReset, Reconfigure, Emptied, ringVars
<1>a. /\ configured' \in BOOLEAN
      /\ cli => uenum' = uenum
      /\ uenum' \in {uenum, "other"}
  BY DEF BusReset, Reconfigure, RecvTypeOK, RecvFlags
<1>b. HeldMidi' = HeldMidi /\ HeldCdc' = HeldCdc /\ OfMidi' = OfMidi /\ From' = From
  BY <1>0, RingStays DEF HeldMidi, HeldCdc, OfMidi, Taking, Returning, From
<1>c. "MIDI" \in Endpoints /\ "CDC" \in Endpoints /\ "CDC" # "MIDI"
  BY DEF Endpoints
<1>d. \A ep \in Endpoints :
         /\ bank'[ep] = <<>> /\ promised'[ep] = FALSE
         /\ due'[ep] = IF ep = "MIDI" THEN HeldMidi ELSE HeldCdc
  BY <1>0
<1>1. RecvFlags'
  <2>1. promised' \in [Endpoints -> BOOLEAN]
    BY <1>0
  <2>2. struck' \in BOOLEAN
    BY <1>0
  <2> QED BY <1>0, <1>a, <2>1, <2>2 DEF RecvTypeOK, RecvFlags
<1>2. RecvData'
  <2>1. due' \in [Endpoints -> Seq(Unit)]
    <3>1. HeldMidi \in Seq(Unit) /\ HeldCdc \in Seq(Unit)
      BY HeldTypes
    <3> QED BY <1>0, <3>1
  <2>2. bank' \in [Endpoints -> Seq(Seq(Unit))]
    <3>1. <<>> \in Seq(Seq(Unit))
      OBVIOUS
    <3> QED BY <1>0, <3>1
  <2> QED BY <1>0, <1>a, <2>1, <2>2 DEF RecvTypeOK, RecvData
<1>3. LockInv' /\ CdcInv'
  BY <1>0, <1>a, <1>b DEF LockInv, CdcInv
<1>4. MidiInv'
  BY <1>0, <1>b DEF MidiInv
<1>5. BankInv'
  BY <1>d DEF BankInv
<1>6. DueInv'
  <2>1. \A h \in Seq(Unit) : h = h \o FlattenSeq(<<>>)
    BY FlattenEmpty, NothingFirst
  <2>2. HeldMidi = HeldMidi \o FlattenSeq(<<>>) /\ HeldCdc = HeldCdc \o FlattenSeq(<<>>)
    BY <2>1, HeldTypes
  <2>3. due'["MIDI"] = HeldMidi' \o FlattenSeq(bank'["MIDI"])
    BY <1>b, <1>c, <1>d, <2>2
  <2>4. due'["CDC"] = HeldCdc' \o FlattenSeq(bank'["CDC"])
    BY <1>b, <1>c, <1>d, <2>2
  <2>5. Ring' \in Seq(Unit)
    BY <1>0, RingStays DEF DueInv
  <2> QED BY <2>3, <2>4, <2>5 DEF DueInv
<1>7. PromiseInv'
  BY <1>c, <1>d DEF PromiseInv
<1>s. StruckInv'
  BY <1>0, <1>b, <1>d DEF StruckInv
<1> QED BY <1>1, <1>2, <1>3, <1>4, <1>5, <1>6, <1>7, <1>s DEF RecvTypeOK

\* begin() forgets the byte peek() took: it was the first that was due.
LEMMA CdcBeginInv ==
    ASSUME RecvInv, CdcBegin
    PROVE  RecvInv'
<1> USE DEF RecvInv
<1>0. /\ pc = "idle" /\ pc' = "idle" /\ peek_buffer' = None
      /\ UNCHANGED <<call, value, sent, struck, stale>> /\ UNCHANGED usbVars /\ UNCHANGED ringVars
      /\ UNCHANGED <<bank, uenum, cli, configured>>
      /\ due' = IF peek_buffer = None THEN due
                ELSE [due EXCEPT !["CDC"] = SubSeq(@, 2, Len(@))]
      /\ promised' = [promised EXCEPT !["CDC"] = FALSE]
  BY DEF CdcBegin, usbVars
<1>a. ~ Taking /\ ~ Returning /\ ~ Taking' /\ ~ Returning'
  BY <1>0 DEF Taking, Returning
<1>b. /\ HeldMidi' = HeldMidi /\ HeldCdc' = <<>>
      /\ HeldCdc = IF peek_buffer # None THEN <<peek_buffer>> ELSE <<>>
  BY <1>0, <1>a, RingStays DEF HeldMidi, HeldCdc, OfMidi
<1>c. "MIDI" \in Endpoints /\ "CDC" \in Endpoints /\ "CDC" # "MIDI"
  BY DEF Endpoints
<1>d. PICK f \in Seq(Unit) : f = FlattenSeq(bank["CDC"])
  BY <1>c, HeldTypes
<1>e. due \in [Endpoints -> Seq(Unit)] /\ peek_buffer \in Unit \cup {None}
  BY DEF RecvTypeOK, RecvData
<1>f. due' \in [Endpoints -> Seq(Unit)] /\ due'["CDC"] = f /\ due'["MIDI"] = due["MIDI"]
  <2>1. CASE peek_buffer = None
    <3>1. due["CDC"] = <<>> \o f
      BY <1>b, <1>d, <2>1 DEF DueInv
    <3> QED BY <1>0, <1>d, <1>e, <2>1, <3>1, NothingFirst
  <2>2. CASE peek_buffer # None
    <3>1. due["CDC"] = <<peek_buffer>> \o f /\ peek_buffer \in Unit
      BY <1>b, <1>d, <1>e, <2>2 DEF DueInv
    <3>2. SubSeq(due["CDC"], 2, Len(due["CDC"])) = f
      BY <1>d, <3>1, UnitFirst
    <3>3. due' = [due EXCEPT !["CDC"] = f]
      BY <1>0, <2>2, <3>2
    <3> QED BY <1>c, <1>d, <1>e, <3>3
  <2> QED BY <2>1, <2>2
<1>1. RecvFlags'
  <2>1. /\ cli \in BOOLEAN /\ configured \in BOOLEAN /\ promised \in [Endpoints -> BOOLEAN]
        /\ struck \in BOOLEAN /\ stale \in BOOLEAN
    BY DEF RecvTypeOK, RecvFlags
  <2>2. promised' \in [Endpoints -> BOOLEAN]
    BY <1>0, <2>1
  <2>3. cli' \in BOOLEAN /\ configured' \in BOOLEAN /\ struck' \in BOOLEAN /\ stale' \in BOOLEAN
    BY <1>0, <2>1
  <2> QED BY <2>2, <2>3 DEF RecvFlags
<1>2. RecvData'
  <2>1. (midiEvent \in [Slots -> Unit \cup {None}] /\ head \in Slots /\ tail \in Slots)'
    BY <1>0 DEF RecvTypeOK, RecvData, ringVars
  <2> QED BY <1>0, <1>f, <2>1 DEF RecvTypeOK, RecvData
<1>3. LockInv' /\ CdcInv' /\ MidiInv'
  BY <1>0 DEF LockInv, CdcInv, MidiInv, OfMidi
<1>4. BankInv'
  BY <1>0 DEF BankInv
<1>5. DueInv'
  <2>1. <<>> \o f = f
    BY <1>d, NothingFirst
  <2>2. Ring' \in Seq(Unit)
    BY <1>0, RingStays DEF DueInv
  <2> QED BY <1>0, <1>b, <1>d, <1>f, <2>1, <2>2 DEF DueInv
<1>6. PromiseInv'
  <2>1. promised \in [Endpoints -> BOOLEAN]
    BY DEF RecvTypeOK, RecvFlags
  <2>2. ASSUME NEW ep \in Endpoints, promised'[ep] PROVE due'[ep] # <<>>
    <3>1. ep = "MIDI"
      BY <1>0, <2>1, <2>2 DEF Endpoints
    <3>2. promised["MIDI"]
      BY <1>0, <1>c, <2>1, <2>2, <3>1
    <3> QED BY <1>c, <1>f, <3>1, <3>2 DEF PromiseInv
  <2> QED BY <1>0, <2>2 DEF PromiseInv
<1>s. StruckInv'
  BY <1>0 DEF StruckInv, OfMidi
<1> QED BY <1>1, <1>2, <1>3, <1>4, <1>5, <1>6, <1>s DEF RecvTypeOK

\* A sequence is its first unit and the rest.
LEMMA FirstAndRest ==
    ASSUME NEW h \in Seq(Unit), h # <<>>
    PROVE  h = <<Head(h)>> \o Tail(h)
<1>1. /\ Len(h) \in Nat \ {0} /\ Tail(h) \in Seq(Unit) /\ Len(Tail(h)) = Len(h) - 1
      /\ \A i \in 1 .. Len(h) - 1 : Tail(h)[i] = h[i + 1]
      /\ Head(h) \in Unit /\ Head(h) = h[1]
  BY EmptySeq, HeadTailProperties
<1>2. PICK r \in Seq(Unit) : r = Tail(h)
  BY <1>1
<1>3. PICK v \in Unit : v = Head(h)
  BY <1>1
<1>4. PICK f \in Seq(Unit) : f = <<v>> /\ Len(f) = 1 /\ f[1] = v
  <2>1. <<v>> \in Seq(Unit) /\ Len(<<v>>) = 1 /\ <<v>>[1] = v
    OBVIOUS
  <2> QED BY <2>1
<1>5. PICK b \in Seq(Unit) : b = f \o r
  BY ConcatProperties
<1>6. /\ Len(b) = 1 + Len(r)
      /\ \A i \in 1 .. 1 + Len(r) : b[i] = IF i <= 1 THEN f[i] ELSE r[i - 1]
  BY <1>4, <1>5, ConcatProperties
<1>7. \A i \in 1 .. Len(h) : h[i] = b[i]
  <2> SUFFICES ASSUME NEW i \in 1 .. Len(h) PROVE h[i] = b[i]
    OBVIOUS
  <2>1. CASE i = 1
    BY <1>1, <1>2, <1>3, <1>4, <1>6, <2>1
  <2>2. CASE i # 1
    <3>1. i \in 1 .. 1 + Len(r) /\ ~ (i <= 1) /\ i - 1 \in 1 .. Len(h) - 1 /\ (i - 1) + 1 = i
      BY <1>1, <1>2, <2>2
    <3> QED BY <1>1, <1>2, <1>6, <3>1
  <2> QED BY <2>1, <2>2
<1>8. h = b
  BY <1>1, <1>2, <1>6, <1>7, SeqEqual
<1> QED BY <1>2, <1>3, <1>4, <1>5, <1>8

\* The first packet of an endpoint replaced.
LEMMA FirstReplaced ==
    ASSUME NEW s \in Seq(Seq(Unit)), s # <<>>, NEW t \in Seq(Unit)
    PROVE  /\ <<t>> \o Tail(s) \in Seq(Seq(Unit)) /\ <<t>> \o Tail(s) # <<>>
           /\ Len(<<t>> \o Tail(s)) = Len(s)
           /\ Head(<<t>> \o Tail(s)) = t /\ Tail(<<t>> \o Tail(s)) = Tail(s)
           /\ \A i \in 1 .. Len(s) : i # 1 => (<<t>> \o Tail(s))[i] = s[i]
<1>1. /\ Len(s) \in Nat \ {0} /\ Tail(s) \in Seq(Seq(Unit)) /\ Len(Tail(s)) = Len(s) - 1
      /\ \A i \in 1 .. Len(s) - 1 : Tail(s)[i] = s[i + 1]
  BY EmptySeq, HeadTailProperties
<1>2. PICK r \in Seq(Seq(Unit)) : r = Tail(s)
  BY <1>1
<1>3. PICK f \in Seq(Seq(Unit)) : f = <<t>> /\ Len(f) = 1 /\ f[1] = t
  <2>1. <<t>> \in Seq(Seq(Unit)) /\ Len(<<t>>) = 1 /\ <<t>>[1] = t
    OBVIOUS
  <2> QED BY <2>1
<1>4. PICK b \in Seq(Seq(Unit)) : b = f \o r
  BY ConcatProperties
<1>5. /\ Len(b) = 1 + Len(r)
      /\ \A i \in 1 .. 1 + Len(r) : b[i] = IF i <= 1 THEN f[i] ELSE r[i - 1]
  BY <1>3, <1>4, ConcatProperties
<1>6. Len(b) = Len(s) /\ b # <<>>
  <2>1. Len(b) = Len(s)
    BY <1>1, <1>2, <1>5
  <2> QED BY <1>1, <2>1, EmptySeq
<1>7. b[1] = t /\ \A i \in 1 .. Len(s) : i # 1 => b[i] = s[i]
  <2>1. b[1] = t
    BY <1>1, <1>3, <1>5, <1>6
  <2>2. ASSUME NEW i \in 1 .. Len(s), i # 1 PROVE b[i] = s[i]
    <3>1. i \in 1 .. 1 + Len(r) /\ ~ (i <= 1) /\ i - 1 \in 1 .. Len(s) - 1 /\ (i - 1) + 1 = i
      BY <1>1, <1>2, <2>2
    <3>2. b[i] = r[i - 1]
      BY <1>5, <3>1
    <3>3. r[i - 1] = s[i]
      BY <1>1, <1>2, <3>1
    <3> QED BY <3>2, <3>3
  <2> QED BY <2>1, <2>2
<1>8. Head(b) = t /\ Tail(b) = Tail(s)
  <2>1. Head(b) = b[1]
    BY <1>6, HeadTailProperties
  <2>2. Tail(b) = SubSeq(b, 2, Len(b))
    OBVIOUS
  <2>3. SubSeq(f \o r, Len(f) + 1, Len(f \o r)) = r
    BY BehindFront
  <2>4. Len(f) + 1 = 2
    BY <1>3
  <2> QED BY <1>2, <1>4, <1>7, <2>1, <2>2, <2>3, <2>4
<1> QED BY <1>2, <1>3, <1>4, <1>6, <1>7, <1>8

\* Sequences of units associate.
LEMMA UnitsAssociate ==
    ASSUME NEW x \in Seq(Unit), NEW y \in Seq(Unit), NEW z \in Seq(Unit)
    PROVE  (x \o y) \o z = x \o (y \o z)
BY ConcatAssociative

\* One unit is taken out of the first packet, and nothing else changes.
LEMMA UnitTaken ==
    ASSUME NEW s \in Seq(Seq(Unit)), s # <<>>, Head(s) # <<>>
    PROVE  /\ Head(Head(s)) \in Unit
           /\ <<Tail(Head(s))>> \o Tail(s) \in Seq(Seq(Unit))
           /\ <<Tail(Head(s))>> \o Tail(s) # <<>>
           /\ Len(<<Tail(Head(s))>> \o Tail(s)) = Len(s)
           /\ FlattenSeq(s) = <<Head(Head(s))>> \o FlattenSeq(<<Tail(Head(s))>> \o Tail(s))
           /\ \A i \in 1 .. Len(s) : i # 1 => (<<Tail(Head(s))>> \o Tail(s))[i] = s[i]
<1>1. Head(s) \in Seq(Unit) /\ Tail(s) \in Seq(Seq(Unit))
  BY HeadTailProperties
<1>2. PICK h \in Seq(Unit) : h = Head(s) /\ h # <<>>
  BY <1>1
<1>3. Head(h) \in Unit /\ Tail(h) \in Seq(Unit)
  BY <1>2, HeadTailProperties
<1>4. PICK v \in Unit : v = Head(h)
  BY <1>3
<1>5. PICK t \in Seq(Unit) : t = Tail(h)
  BY <1>3
<1>6. PICK b \in Seq(Seq(Unit)) : b = <<t>> \o Tail(s)
  BY FirstReplaced
<1>7. /\ b # <<>> /\ Len(b) = Len(s) /\ Head(b) = t /\ Tail(b) = Tail(s)
      /\ \A i \in 1 .. Len(s) : i # 1 => b[i] = s[i]
  BY <1>6, FirstReplaced
<1>8. h = <<v>> \o t
  BY <1>2, <1>4, <1>5, FirstAndRest
<1>9. PICK f \in Seq(Unit) : f = FlattenSeq(Tail(s))
  BY <1>1, FlattenType
<1>10. FlattenSeq(s) = h \o f /\ FlattenSeq(b) = t \o f
  BY <1>2, <1>7, <1>9, FlattenHead
<1>11. (<<v>> \o t) \o f = <<v>> \o (t \o f)
  <2>1. PICK g \in Seq(Unit) : g = <<v>>
    BY UnitFirst
  <2> QED BY <2>1, UnitsAssociate
<1>12. FlattenSeq(s) = <<v>> \o FlattenSeq(b)
  BY <1>8, <1>10, <1>11
<1> QED BY <1>2, <1>3, <1>4, <1>5, <1>6, <1>7, <1>12

\* USB_Recv() takes a unit, if there is one.
LEMMA RecvTakeInv ==
    ASSUME RecvInv, RecvTake
    PROVE  RecvInv'
<1> USE DEF RecvInv
<1>0. /\ pc = "take" /\ pc' = "release" /\ cli /\ uenum = From
      /\ UNCHANGED <<uenum, cli, configured, peek_buffer, call, sent, due, struck, stale, promised>>
      /\ UNCHANGED ringVars /\ UNCHANGED <<midiEvent, head, tail>>
  BY DEF RecvTake, LockInv, seenVars, ringVars
<1>a. /\ From \in Endpoints /\ From # "other" /\ From' = From /\ OfMidi' = OfMidi
      /\ From = IF OfMidi THEN "MIDI" ELSE "CDC"
      /\ ~ Taking /\ ~ Returning /\ ~ Returning'
  BY <1>0 DEF From, OfMidi, Endpoints, Taking, Returning
<1>b. bank \in [Endpoints -> Seq(Seq(Unit))] /\ bank[From] \in Seq(Seq(Unit))
  BY <1>a DEF RecvTypeOK, RecvData
<1>c. FifoByteCount = 0 <=> bank[From] = <<>>
  <2>1. CASE bank[From] = <<>>
    BY <1>0, <2>1 DEF FifoByteCount
  <2>2. CASE bank[From] # <<>>
    <3>1. Head(bank[From]) \in Seq(Unit) /\ Head(bank[From]) # <<>>
      BY <1>0, <1>a, <2>2, BankFront
    <3>2. Len(Head(bank[From])) # 0
      BY <3>1, EmptySeq
    <3> QED BY <1>0, <1>a, <2>2, <3>2 DEF FifoByteCount
  <2> QED BY <2>1, <2>2
<1>d. /\ bank[From] = <<>> => value' = None /\ bank' = bank
      /\ bank[From] # <<>> =>
            /\ value' = Head(Head(bank[From]))
            /\ bank' = [bank EXCEPT ![From] = <<Tail(Head(@))>> \o Tail(@)]
  BY <1>0, <1>c DEF RecvTake
<1>e. ASSUME bank[From] # <<>>
      PROVE  /\ value' \in Unit /\ bank' \in [Endpoints -> Seq(Seq(Unit))]
             /\ bank'[From] # <<>> /\ Len(bank'[From]) = Len(bank[From])
             /\ FlattenSeq(bank[From]) = <<value'>> \o FlattenSeq(bank'[From])
             /\ \A i \in 1 .. Len(bank[From]) : i # 1 => bank'[From][i] = bank[From][i]
             /\ \A e \in Endpoints : e # From => bank'[e] = bank[e]
             /\ configured
  <2>1. Head(bank[From]) # <<>> /\ configured
    BY <1>0, <1>a, <1>e, BankFront
  <2>2. PICK s \in Seq(Seq(Unit)) : s = bank[From]
    BY <1>b
  <2>3. PICK b \in Seq(Seq(Unit)) : b = <<Tail(Head(s))>> \o Tail(s)
    BY <1>e, <2>1, <2>2, UnitTaken
  <2>4. bank' = [bank EXCEPT ![From] = b] /\ value' = Head(Head(s))
    BY <1>d, <1>e, <2>2, <2>3
  <2>5. /\ Head(Head(s)) \in Unit /\ b # <<>> /\ Len(b) = Len(s)
        /\ FlattenSeq(s) = <<Head(Head(s))>> \o FlattenSeq(b)
        /\ \A i \in 1 .. Len(s) : i # 1 => b[i] = s[i]
    BY <1>e, <2>1, <2>2, <2>3, UnitTaken
  <2>6. bank'[From] = b /\ bank' \in [Endpoints -> Seq(Seq(Unit))]
        /\ \A e \in Endpoints : e # From => bank'[e] = bank[e]
    BY <1>a, <1>b, <2>4
  <2> QED BY <2>1, <2>2, <2>4, <2>5, <2>6
<1>1. RecvFlags'
  BY <1>0 DEF RecvTypeOK, RecvFlags
<1>2. RecvData'
  <2>1. bank' \in [Endpoints -> Seq(Seq(Unit))] /\ value' \in Unit \cup {None}
    BY <1>b, <1>d, <1>e
  <2> QED BY <1>0, <2>1 DEF RecvTypeOK, RecvData
<1>3. LockInv' /\ CdcInv'
  BY <1>0, <1>a DEF LockInv, CdcInv
<1>4. MidiInv'
  <2>1. OfMidi => head # tail \/ value' # None \/ struck
    BY <1>0, <1>a, <1>e, NoneIsNoUnit DEF MidiInv
  <2> QED BY <1>0, <1>a, <2>1 DEF MidiInv
<1>5. BankInv'
  <2>1. CASE bank[From] = <<>>
    BY <1>0, <1>a, <1>d, <2>1 DEF BankInv
  <2>2. CASE bank[From] # <<>>
    <3>1. \A e \in Endpoints : bank'[e] # <<>> => configured'
      BY <1>0, <1>e, <2>2
    <3>2. ASSUME NEW e \in Endpoints, NEW i \in 1 .. Len(bank'[e]), bank'[e][i] = <<>>
          PROVE  i = 1 /\ e = From
      <4>1. CASE e = From
        BY <1>0, <1>a, <1>e, <2>2, <3>2, <4>1 DEF BankInv
      <4>2. CASE e # From
        BY <1>0, <1>e, <2>2, <3>2, <4>2 DEF BankInv
      <4> QED BY <4>1, <4>2
    <3>3. value' # None
      BY <1>e, <2>2, NoneIsNoUnit
    <3> QED BY <1>0, <1>a, <1>e, <2>2, <3>1, <3>2, <3>3 DEF BankInv
  <2> QED BY <2>1, <2>2
<1>6. DueInv'
  <2>1. Ring' = Ring /\ Ring \in Seq(Unit)
    BY <1>0, RingStays DEF DueInv
  <2>2. HeldMidi = Ring /\ HeldMidi' = IF OfMidi /\ value' # None THEN Append(Ring, value') ELSE Ring
    BY <1>0, <1>a, <2>1 DEF HeldMidi, Taking
  <2>3. /\ HeldCdc = IF peek_buffer # None THEN <<peek_buffer>> ELSE <<>>
        /\ HeldCdc' = IF peek_buffer # None THEN <<peek_buffer>>
                      ELSE IF ~OfMidi /\ value' # None THEN <<value'>> ELSE <<>>
    BY <1>0, <1>a DEF HeldCdc, Taking
  <2>4. CASE bank[From] = <<>>
    <3>1. HeldMidi' = HeldMidi /\ HeldCdc' = HeldCdc
      BY <1>d, <2>2, <2>3, <2>4
    <3> QED BY <1>0, <1>d, <2>1, <2>4, <3>1 DEF DueInv
  <2>5. CASE bank[From] # <<>> /\ OfMidi
    <3>1. PICK v \in Unit : v = value'
      BY <1>e, <2>5
    <3>2. From = "MIDI" /\ bank'["CDC"] = bank["CDC"]
      BY <1>a, <1>e, <2>5 DEF Endpoints
    <3>3. PICK f \in Seq(Unit) : f = FlattenSeq(bank'["MIDI"])
      BY <1>a, <1>e, <2>5, <3>2, FlattenType
    <3>4. due["MIDI"] = Ring \o (<<v>> \o f)
      BY <1>e, <2>2, <2>5, <3>1, <3>2, <3>3 DEF DueInv
    <3>5. HeldMidi' = Append(Ring, v) /\ HeldCdc' = HeldCdc
      BY <2>2, <2>3, <2>5, <3>1, NoneIsNoUnit
    <3>6. Append(Ring, v) \o f = Ring \o (<<v>> \o f)
      <4>1. PICK r \in Seq(Unit) : r = Ring
        BY <2>1
      <4>2. Append(r, v) \o f = r \o (<<v>> \o f)
        BY UnitFirst
      <4> QED BY <4>1, <4>2
    <3> QED BY <1>0, <2>1, <3>2, <3>3, <3>4, <3>5, <3>6 DEF DueInv
  <2>6. CASE bank[From] # <<>> /\ ~OfMidi
    <3>1. PICK v \in Unit : v = value'
      BY <1>e, <2>6
    <3>2. From = "CDC" /\ bank'["MIDI"] = bank["MIDI"] /\ peek_buffer = None
      BY <1>0, <1>a, <1>e, <2>6 DEF Endpoints, CdcInv
    <3>3. PICK f \in Seq(Unit) : f = FlattenSeq(bank'["CDC"])
      BY <1>a, <1>e, <2>6, <3>2, FlattenType
    <3>4. <<v>> \o f \in Seq(Unit)
      BY UnitFirst
    <3>5. due["CDC"] = <<>> \o (<<v>> \o f)
      BY <1>e, <2>3, <2>6, <3>1, <3>2, <3>3 DEF DueInv
    <3>6. due["CDC"] = <<v>> \o f
      BY <3>4, <3>5, NothingFirst
    <3>7. HeldMidi' = HeldMidi /\ HeldCdc' = <<v>>
      BY <2>2, <2>3, <2>6, <3>1, <3>2, NoneIsNoUnit
    <3> QED BY <1>0, <2>1, <3>2, <3>3, <3>6, <3>7 DEF DueInv
  <2> QED BY <2>4, <2>5, <2>6
<1>7. PromiseInv'
  <2>1. ASSUME ~OfMidi, promised["CDC"] PROVE value' # None
    <3>1. SUFFICES ASSUME bank["CDC"] = <<>> PROVE FALSE
      BY <1>a, <1>e, <2>1, NoneIsNoUnit
    <3>2. due["CDC"] # <<>> /\ "CDC" \in Endpoints /\ "CDC" # "MIDI"
      BY <2>1 DEF PromiseInv, Endpoints
    <3>3. due["CDC"] = HeldCdc
      BY <1>0, <3>1, <3>2, DueIs
    <3>4. HeldCdc = <<>>
      BY <1>0, <1>a, <2>1 DEF HeldCdc, CdcInv
    <3> QED BY <3>2, <3>3, <3>4
  <2> QED BY <1>0, <1>a, <2>1 DEF PromiseInv
<1>s. StruckInv'
  BY <1>0, <1>a DEF StruckInv, OfMidi
<1> QED BY <1>1, <1>2, <1>3, <1>4, <1>5, <1>6, <1>7, <1>s DEF RecvTypeOK

\* ReleaseRX(): the packet that goes holds nothing more.
LEMMA RecvReleaseInv ==
    ASSUME RecvInv, RecvRelease
    PROVE  RecvInv'
<1> USE DEF RecvInv
<1>0. /\ pc = "release" /\ pc' = "received" /\ cli' = FALSE /\ uenum = From
      /\ UNCHANGED <<uenum, configured, peek_buffer, call, value, sent, due, struck, stale,
                     promised>>
      /\ UNCHANGED ringVars /\ UNCHANGED <<midiEvent, head, tail>>
  BY DEF RecvRelease, LockInv, seenVars, ringVars
<1>a. /\ From \in Endpoints /\ From # "other" /\ From' = From /\ OfMidi' = OfMidi
      /\ Taking' = Taking /\ Returning' = Returning
  BY <1>0 DEF From, OfMidi, Endpoints, Taking, Returning
<1>b. bank \in [Endpoints -> Seq(Seq(Unit))] /\ bank[From] \in Seq(Seq(Unit))
  BY <1>a DEF RecvTypeOK, RecvData
<1>c. bank[From] # <<>> => configured
  BY <1>a DEF BankInv
<1>d. ASSUME bank[From] # <<>>
      PROVE  FifoByteCount = 0 <=> Head(bank[From]) = <<>>
  <2>1. Head(bank[From]) \in Seq(Unit)
    BY <1>b, <1>d, HeadTailProperties
  <2>2. FifoByteCount = Len(Head(bank[From]))
    BY <1>0, <1>a, <1>d DEF FifoByteCount
  <2> QED BY <2>1, <2>2, EmptySeq
<1> DEFINE Empties == value # None /\ bank[From] # <<>> /\ Head(bank[From]) = <<>>
<1>e. /\ Empties => bank' = [bank EXCEPT ![From] = Tail(@)]
      /\ ~ Empties => bank' = bank
  <2>1. bank' = IF value # None /\ FifoByteCount = 0 /\ bank[uenum] # <<>>
               THEN [bank EXCEPT ![uenum] = Tail(@)] ELSE bank
    <3>1. uenum # "other"
      BY <1>0 DEF From
    <3>2. bank' = IF /\ value # None /\ FifoByteCount = 0
                     /\ uenum # "other" /\ bank[uenum] # <<>>
                  THEN [bank EXCEPT ![uenum] = Tail(@)] ELSE bank
      BY DEF RecvRelease
    <3> QED BY <3>1, <3>2
  <2>2. CASE Empties
    <3>1. bank' = [bank EXCEPT ![uenum] = Tail(@)]
      BY <1>0, <1>d, <2>1, <2>2
    <3> QED BY <1>0, <2>2, <3>1
  <2>3. CASE ~ Empties
    <3>1. ~ (value # None /\ FifoByteCount = 0 /\ bank[uenum] # <<>>)
      BY <1>0, <1>d, <2>3
    <3> QED BY <2>1, <2>3, <3>1
  <2> QED BY <2>2, <2>3
<1>f. /\ bank' \in [Endpoints -> Seq(Seq(Unit))]
      /\ \A ep \in Endpoints : FlattenSeq(bank'[ep]) = FlattenSeq(bank[ep])
      /\ \A ep \in Endpoints : bank'[ep] # <<>> => configured
      /\ \A ep \in Endpoints : \A i \in 1 .. Len(bank'[ep]) : bank'[ep][i] # <<>>
  <2>1. CASE Empties
    <3>1. bank[From] # <<>> /\ configured
      BY <1>c, <2>1
    <3>2. PICK t \in Seq(Seq(Unit)) : t = Tail(bank[From])
      BY <1>b, <3>1, HeadTailProperties
    <3>3. bank' = [bank EXCEPT ![From] = t]
      BY <1>e, <2>1, <3>2
    <3>4. /\ bank' \in [Endpoints -> Seq(Seq(Unit))] /\ bank'[From] = t
          /\ \A e \in Endpoints : e # From => bank'[e] = bank[e]
      BY <1>a, <1>b, <3>3
    <3>5. FlattenSeq(bank[From]) = FlattenSeq(t)
      <4>1. FlattenSeq(bank[From]) = Head(bank[From]) \o FlattenSeq(Tail(bank[From]))
        BY <1>b, <3>1, FlattenHead
      <4>2. PICK f \in Seq(Unit) : f = FlattenSeq(t)
        BY FlattenType
      <4>3. <<>> \o f = f
        BY NothingFirst
      <4> QED BY <2>1, <3>2, <4>1, <4>2, <4>3
    <3>6. \A i \in 1 .. Len(t) : t[i] # <<>>
      <4>1. PICK s \in Seq(Seq(Unit)) : s = bank[From] /\ s # <<>>
        BY <1>b, <3>1
      <4>2. /\ Len(s) \in Nat \ {0} /\ Len(t) = Len(s) - 1
            /\ \A i \in 1 .. Len(s) - 1 : t[i] = s[i + 1]
        BY <3>2, <4>1, EmptySeq, HeadTailProperties
      <4>3. \A i \in 1 .. Len(t) : i + 1 \in 1 .. Len(s) /\ i + 1 # 1 /\ t[i] = s[i + 1]
        BY <4>2
      <4>4. \A i \in 1 .. Len(s) : i # 1 => s[i] # <<>>
        BY <1>a, <4>1 DEF BankInv
      <4> QED BY <4>3, <4>4
    <3>7. ASSUME NEW e \in Endpoints, e # From
          PROVE  \A i \in 1 .. Len(bank[e]) : bank[e][i] # <<>>
      BY <3>7 DEF BankInv
    <3> QED BY <3>1, <3>4, <3>5, <3>6, <3>7
  <2>2. CASE ~ Empties
    <3>1. bank' = bank
      BY <1>e, <2>2
    <3>2. \A ep \in Endpoints : bank[ep] # <<>> => configured
      BY DEF BankInv
    <3>3. ASSUME NEW ep \in Endpoints, NEW i \in 1 .. Len(bank[ep])
          PROVE  bank[ep][i] # <<>>
      <4>1. SUFFICES ASSUME bank[ep][i] = <<>> PROVE FALSE
        OBVIOUS
      <4>2. i = 1 /\ ep = From /\ value # None
        BY <4>1 DEF BankInv
      <4>3. bank[From] # <<>>
        BY <1>b, <4>2
      <4>4. Head(bank[From]) = bank[From][1]
        BY <1>b, <4>3, HeadTailProperties
      <4> QED BY <2>2, <4>1, <4>2, <4>4
    <3> QED BY <1>b, <3>1, <3>2, <3>3
  <2> QED BY <2>1, <2>2
<1>1. RecvFlags'
  BY <1>0 DEF RecvTypeOK, RecvFlags
<1>2. RecvData'
  BY <1>0, <1>f DEF RecvTypeOK, RecvData
<1>3. LockInv' /\ CdcInv'
  BY <1>0, <1>a DEF LockInv, CdcInv
<1>4. MidiInv'
  BY <1>0, <1>a DEF MidiInv
<1>5. BankInv'
  BY <1>0, <1>f DEF BankInv
<1>6. DueInv'
  <2>1. HeldMidi' = HeldMidi /\ HeldCdc' = HeldCdc /\ Ring' = Ring
    BY <1>0, <1>a, RingStays DEF HeldMidi, HeldCdc
  <2> QED BY <1>0, <1>f, <2>1 DEF DueInv, Endpoints
<1>7. PromiseInv'
  BY <1>0, <1>a DEF PromiseInv
<1>s. StruckInv'
  BY <1>0, <1>a DEF StruckInv, OfMidi
<1> QED BY <1>1, <1>2, <1>3, <1>4, <1>5, <1>6, <1>7, <1>s DEF RecvTypeOK

\* accept() stores the event behind the others, or has none to store.
LEMMA AcceptStoreInv ==
    ASSUME RecvInv, AcceptStore
    PROVE  RecvInv'
<1> USE DEF RecvInv
<1>0. /\ pc = "received" /\ OfMidi /\ OfMidi' /\ pc' \in {"load", "accept"}
      /\ UNCHANGED <<bank, uenum, cli, configured, peek_buffer, call, value, sent, due, struck, stale, promised>>
      /\ tail' = tail
  BY DEF AcceptStore, OfMidi, usbVars, seenVars, ringVars
<1>a. ~ Returning /\ ~ Taking' /\ ~ Returning' /\ (Taking <=> value # None)
  BY <1>0 DEF Taking, Returning
<1>b. /\ RingSucc(RingSize, head) # tail
      /\ (head + 1) % RingSize = RingSucc(RingSize, head) /\ RingSucc(RingSize, head) \in Slots
      /\ RingSize \in Nat \ {0} /\ Slots = RingSlots(RingSize)
      /\ head \in Slots /\ tail \in Slots
  BY <1>0, RingTests DEF MidiInv, RecvTypeOK, RecvData
<1>c. value = None => pc' = "load" /\ UNCHANGED ringVars /\ UNCHANGED <<midiEvent, head>>
                   /\ (head # tail \/ struck)
  BY <1>0, <1>a DEF AcceptStore, ringVars, MidiInv
<1>d. value # None => /\ pc' = "accept" /\ midiEvent' = [midiEvent EXCEPT ![head] = value]
                      /\ head' = RingSucc(RingSize, head)
  BY <1>b DEF AcceptStore
<1>e. ASSUME value # None
      PROVE  /\ value \in Unit /\ midiEvent' \in [Slots -> Unit \cup {None}]
             /\ head' \in Slots
             /\ Ring' = Append(Ring, value)
  <2> DEFINE B == Unit \cup {None}
  <2>1. value \in Unit /\ value \in B /\ midiEvent \in [Slots -> B]
    BY <1>e DEF RecvTypeOK, RecvData
  <2>2. /\ midiEvent' \in [Slots -> B] /\ midiEvent'[head] = value
        /\ \A i \in Slots : i # head => midiEvent'[i] = midiEvent[i]
    BY <1>b, <1>d, <1>e, <2>1
  <2> HIDE DEF B
  <2>3. midiEvent' \in RingBuffers(RingSize, B)
    BY <1>b, <2>2 DEF RingBuffers
  <2>4. RingContent(RingSize, RingSucc(RingSize, head), tail, midiEvent')
          = Append(RingContent(RingSize, head, tail, midiEvent'), midiEvent'[head])
    BY <1>b, <2>3, RingContentAppends
  <2>5. RingContent(RingSize, head, tail, midiEvent') = RingContent(RingSize, head, tail, midiEvent)
    BY <1>b, <2>2, RingContentWithoutHead
  <2>6. Ring = RingContent(RingSize, head, tail, midiEvent)
    BY RingTests
  <2>7. Ring' = RingContent(RingSize, RingSucc(RingSize, head), tail, midiEvent')
    BY <1>0, <1>d, <1>e DEF Ring, RingContent, RingDistance, RingPlace
  <2> QED BY <1>b, <1>d, <1>e, <2>1, <2>2, <2>4, <2>5, <2>6, <2>7 DEF B
<1>f. value = None => Ring' = Ring
  BY <1>c, RingStays
<1>1. RecvFlags'
  BY <1>0 DEF RecvTypeOK, RecvFlags
<1>2. RecvData'
  <2>1. midiEvent' \in [Slots -> Unit \cup {None}] /\ head' \in Slots
    BY <1>c, <1>e DEF RecvTypeOK, RecvData
  <2> QED BY <1>0, <2>1 DEF RecvTypeOK, RecvData
<1>3. LockInv' /\ CdcInv'
  BY <1>0 DEF LockInv, CdcInv
<1>4. MidiInv'
  <2>1. value # None => head' # tail
    BY <1>b, <1>d
  <2> QED BY <1>0, <1>c, <1>d, <2>1 DEF MidiInv
<1>5. BankInv'
  BY <1>0 DEF BankInv
<1>6. DueInv'
  <2>1. HeldMidi' = Ring' /\ HeldMidi = IF value # None THEN Append(Ring, value) ELSE Ring
    BY <1>0, <1>a DEF HeldMidi
  <2>2. HeldMidi' = HeldMidi
    BY <1>e, <1>f, <2>1
  <2>3. HeldCdc' = HeldCdc
    BY <1>0 DEF HeldCdc
  <2>4. Ring' \in Seq(Unit)
    BY <2>1, <2>2, HeldTypes
  <2> QED BY <1>0, <2>2, <2>3, <2>4 DEF DueInv
<1>7. PromiseInv'
  BY <1>0 DEF PromiseInv
<1>s. StruckInv'
  BY <1>0 DEF StruckInv, OfMidi
<1> QED BY <1>1, <1>2, <1>3, <1>4, <1>5, <1>6, <1>7, <1>s DEF RecvTypeOK

\* read() of MIDI steps over the event it returns.
LEMMA MidiReturnInv ==
    ASSUME RecvInv, MidiReturn
    PROVE  RecvInv'
<1> USE DEF RecvInv
<1>0. /\ pc = "midi_return" /\ pc' = "return"
      /\ UNCHANGED <<bank, uenum, cli, configured, peek_buffer, call, value, sent, due, struck, stale, promised,
                     midiEvent, head>>
      /\ tail' = IF head # tail THEN (tail + 1) % RingSize ELSE tail
  BY DEF MidiReturn, usbVars, seenVars
<1>a. /\ OfMidi /\ OfMidi' /\ ~ Returning /\ ~ Taking /\ ~ Taking' /\ (Returning' <=> value # None /\ ~ stale)
      /\ head # tail => ~ stale /\ value = midiEvent[tail]
      /\ head = tail => stale \/ value = None
  BY <1>0 DEF Taking, Returning, CdcInv, OfMidi, MidiInv
<1>b. head \in Slots /\ tail \in Slots /\ Slots = RingSlots(RingSize) /\ RingSize \in Nat \ {0}
  BY RingTests DEF RecvTypeOK, RecvData
<1>c. ASSUME head # tail
      PROVE  /\ value \in Unit /\ tail' \in Slots /\ Ring' \in Seq(Unit)
             /\ Ring = <<value>> \o Ring'
  <2>1. tail' = RingSucc(RingSize, tail)
    BY <1>0, <1>c DEF RingSucc
  <2>2. tail' \in Slots
    BY <1>b, <2>1, RingSuccWraps
  <2>3. Ring' = RingContent(RingSize, head, RingSucc(RingSize, tail), midiEvent)
    BY <1>0, <2>1 DEF Ring, RingContent, RingDistance, RingPlace
  <2> QED BY <1>a, <1>c, <2>2, <2>3, OldestEvent
<1>d. head = tail => ~ Returning' /\ UNCHANGED ringVars /\ tail' = tail
  BY <1>0, <1>a DEF ringVars
<1>e. tail' \in Slots
  BY <1>b, <1>c, <1>d
<1>1. RecvFlags'
  BY <1>0 DEF RecvTypeOK, RecvFlags
<1>2. RecvData'
  BY <1>0, <1>e DEF RecvTypeOK, RecvData
<1>3. LockInv' /\ CdcInv' /\ MidiInv'
  BY <1>0, <1>a DEF LockInv, CdcInv, MidiInv
<1>4. BankInv'
  BY <1>0 DEF BankInv
<1>5. DueInv'
  <2>1. HeldMidi = Ring /\ HeldMidi' = IF Returning' THEN <<value>> \o Ring' ELSE Ring'
    BY <1>0, <1>a DEF HeldMidi
  <2>2. HeldMidi' = HeldMidi /\ Ring' \in Seq(Unit)
    <3>1. CASE head # tail
      BY <1>a, <1>c, <2>1, <3>1, NoneIsNoUnit
    <3>2. CASE head = tail
      BY <1>d, <2>1, <3>2, RingStays DEF DueInv
    <3> QED BY <3>1, <3>2
  <2>3. HeldCdc' = HeldCdc
    BY <1>0, <1>a DEF HeldCdc
  <2> QED BY <1>0, <2>2, <2>3 DEF DueInv
<1>6. PromiseInv'
  BY <1>0, <1>a DEF PromiseInv
<1>s. StruckInv'
  BY <1>0, <1>a DEF StruckInv, OfMidi
<1> QED BY <1>1, <1>2, <1>3, <1>4, <1>5, <1>6, <1>s DEF RecvTypeOK

\* What a call returns is the first that is due.
LEMMA ReturnsFirst ==
    ASSUME RecvInv, pc = "return", value # None, ~ stale
    PROVE  /\ due[From] # <<>> /\ value = Head(due[From])
           /\ call # "cdc_peek" =>
                \E s \in Seq(Unit) :
                   /\ SubSeq(due[From], 2, Len(due[From])) = s
                   /\ s = IF OfMidi THEN Ring \o FlattenSeq(bank["MIDI"])
                          ELSE FlattenSeq(bank["CDC"])
<1> USE DEF RecvInv
<1>1. Returning /\ ~ Taking
  BY DEF Returning, Taking
<1>2. PICK v \in Unit : v = value
  BY DEF RecvTypeOK, RecvData
<1>3. CASE OfMidi
  <2>1. PICK f \in Seq(Unit) : f = FlattenSeq(bank["MIDI"])
    BY HeldTypes DEF Endpoints
  <2>2. PICK r \in Seq(Unit) : r = Ring
    BY DEF DueInv
  <2>3. PICK s \in Seq(Unit) : s = r \o f
    BY ConcatProperties
  <2>4. From = "MIDI" /\ due["MIDI"] = (<<v>> \o r) \o f
    BY <1>1, <1>2, <1>3, <2>1, <2>2 DEF From, OfMidi, DueInv, HeldMidi
  <2>5. (<<v>> \o r) \o f = <<v>> \o (r \o f)
    BY UnitFirst
  <2>6. due[From] = <<v>> \o s
    BY <2>3, <2>4, <2>5
  <2>7. <<v>> \o s # <<>> /\ Head(<<v>> \o s) = v /\ SubSeq(<<v>> \o s, 2, Len(<<v>> \o s)) = s
    BY UnitFirst
  <2> QED BY <1>2, <1>3, <2>1, <2>2, <2>3, <2>6, <2>7
<1>4. CASE ~ OfMidi
  <2>1. PICK f \in Seq(Unit) : f = FlattenSeq(bank["CDC"])
    BY HeldTypes DEF Endpoints
  <2>2. peek_buffer = IF call = "cdc_peek" THEN value ELSE None
    BY <1>4 DEF CdcInv
  <2>3. HeldCdc = <<v>>
    BY <1>1, <1>2, <1>4, <2>2, NoneIsNoUnit DEF HeldCdc
  <2>4. From = "CDC" /\ due[From] = <<v>> \o f
    BY <1>4, <2>1, <2>3 DEF From, OfMidi, DueInv
  <2>5. <<v>> \o f # <<>> /\ Head(<<v>> \o f) = v /\ SubSeq(<<v>> \o f, 2, Len(<<v>> \o f)) = f
    BY UnitFirst
  <2> QED BY <1>2, <1>4, <2>1, <2>4, <2>5
<1> QED BY <1>3, <1>4

\* The call is over, and what it returned no longer due.
LEMMA ReturnInv ==
    ASSUME RecvInv, Return
    PROVE  RecvInv'
<1> USE DEF RecvInv
<1>0. /\ pc = "return" /\ pc' = "idle" /\ value' = None
      /\ UNCHANGED <<bank, uenum, cli, configured, peek_buffer, call, sent>>
      /\ UNCHANGED ringVars /\ UNCHANGED <<midiEvent, head, tail>>
      /\ struck' = FALSE /\ stale' = FALSE
      /\ due' = IF value = None \/ stale \/ call = "cdc_peek" THEN due
                ELSE [due EXCEPT ![From] = SubSeq(@, 2, Len(@))]
      /\ promised' = IF call = "cdc_peek" THEN promised
                     ELSE [promised EXCEPT ![From] = FALSE]
  BY DEF Return, usbVars, ringVars
<1>a. /\ ~ Taking /\ ~ Taking' /\ ~ Returning' /\ OfMidi' = OfMidi /\ Ring' = Ring
      /\ (Returning <=> value # None /\ ~stale) /\ From \in Endpoints
      /\ From = IF OfMidi THEN "MIDI" ELSE "CDC"
  BY <1>0, RingStays DEF Taking, Returning, OfMidi, From, Endpoints
<1>b. due \in [Endpoints -> Seq(Unit)] /\ Ring \in Seq(Unit)
      /\ "MIDI" \in Endpoints /\ "CDC" \in Endpoints /\ "CDC" # "MIDI"
  BY DEF RecvTypeOK, RecvData, DueInv, Endpoints
<1>c. HeldMidi' = Ring /\ HeldCdc' = IF peek_buffer # None THEN <<peek_buffer>> ELSE <<>>
  BY <1>0, <1>a DEF HeldMidi, HeldCdc
<1>d. /\ due' \in [Endpoints -> Seq(Unit)]
      /\ due'["MIDI"] = HeldMidi' \o FlattenSeq(bank["MIDI"])
      /\ due'["CDC"] = HeldCdc' \o FlattenSeq(bank["CDC"])
      /\ \A e \in Endpoints : e # From \/ call = "cdc_peek" => due'[e] = due[e]
  <2>0. ~ OfMidi => ~ stale
    BY DEF StruckInv
  <2>1. CASE value = None \/ stale \/ call = "cdc_peek"
    <3>1. HeldMidi = Ring
      BY <1>a, <2>1 DEF HeldMidi, OfMidi
    <3>2. HeldCdc = IF peek_buffer # None THEN <<peek_buffer>> ELSE <<>>
      <4>1. CASE value = None \/ stale
        BY <1>a, <2>0, <4>1 DEF HeldCdc
      <4>2. CASE value # None /\ call = "cdc_peek"
        <5>1. peek_buffer # None
          BY <1>0, <4>2 DEF CdcInv, OfMidi
        <5> QED BY <5>1 DEF HeldCdc
      <4> QED BY <2>1, <4>1, <4>2
    <3>3. due' = due
      BY <1>0, <2>1
    <3> QED BY <1>b, <1>c, <3>1, <3>2, <3>3 DEF DueInv
  <2>2. CASE value # None /\ ~ stale /\ call # "cdc_peek"
    <3>1. PICK s \in Seq(Unit) :
            /\ SubSeq(due[From], 2, Len(due[From])) = s
            /\ s = IF OfMidi THEN Ring \o FlattenSeq(bank["MIDI"]) ELSE FlattenSeq(bank["CDC"])
      BY <1>0, <2>2, ReturnsFirst
    <3>2. due' = [due EXCEPT ![From] = s]
      BY <1>0, <2>2, <3>1
    <3>3. /\ due' \in [Endpoints -> Seq(Unit)] /\ due'[From] = s
          /\ \A e \in Endpoints : e # From => due'[e] = due[e]
      BY <1>a, <1>b, <3>2
    <3>4. CASE OfMidi
      <4>1. due'["MIDI"] = Ring \o FlattenSeq(bank["MIDI"]) /\ due'["CDC"] = due["CDC"]
        BY <1>a, <1>b, <3>1, <3>3, <3>4
      <4>2. HeldCdc' = HeldCdc
        BY <1>c, <3>4 DEF HeldCdc
      <4> QED BY <1>c, <2>2, <3>3, <4>1, <4>2 DEF DueInv
    <3>5. CASE ~ OfMidi
      <4>1. due'["CDC"] = s /\ s = FlattenSeq(bank["CDC"]) /\ due'["MIDI"] = due["MIDI"]
        BY <1>a, <1>b, <3>1, <3>3, <3>5
      <4>2. HeldMidi' = HeldMidi
        BY <1>c, <3>5 DEF HeldMidi
      <4>3. HeldCdc' = <<>>
        BY <1>0, <1>c, <2>2, <3>5 DEF CdcInv
      <4>4. <<>> \o s = s
        BY NothingFirst
      <4> QED BY <2>2, <3>3, <4>1, <4>2, <4>3, <4>4 DEF DueInv
    <3> QED BY <3>4, <3>5
  <2> QED BY <2>1, <2>2
<1>1. RecvFlags'
  <2>1. cli' \in BOOLEAN /\ configured' \in BOOLEAN /\ struck' \in BOOLEAN /\ stale' \in BOOLEAN
    BY <1>0 DEF RecvTypeOK, RecvFlags
  <2>2. promised' \in [Endpoints -> BOOLEAN]
    <3>1. promised \in [Endpoints -> BOOLEAN]
      BY DEF RecvTypeOK, RecvFlags
    <3> QED BY <1>0, <3>1
  <2> QED BY <2>1, <2>2 DEF RecvFlags
<1>2. RecvData'
  BY <1>0, <1>d DEF RecvTypeOK, RecvData
<1>3. LockInv' /\ CdcInv' /\ MidiInv'
  BY <1>0 DEF LockInv, CdcInv, MidiInv
<1>4. BankInv'
  BY <1>0 DEF BankInv
<1>5. DueInv'
  BY <1>0, <1>a, <1>b, <1>d DEF DueInv
<1>6. PromiseInv'
  <2>1. promised \in [Endpoints -> BOOLEAN]
    BY DEF RecvTypeOK, RecvFlags
  <2>2. ASSUME NEW e \in Endpoints, promised'[e] PROVE due'[e] # <<>>
    <3>1. promised[e] /\ (e # From \/ call = "cdc_peek")
      BY <1>0, <1>a, <2>1, <2>2
    <3> QED BY <1>d, <3>1 DEF PromiseInv
  <2> QED BY <1>0, <2>2 DEF PromiseInv
<1>s. StruckInv'
  BY <1>0 DEF StruckInv, OfMidi
<1> QED BY <1>1, <1>2, <1>3, <1>4, <1>5, <1>6, <1>s DEF RecvTypeOK

\* Nothing happens.
LEMMA RecvStutters ==
    ASSUME RecvInv, UNCHANGED recvVars
    PROVE  RecvInv'
<1> USE DEF RecvInv, recvVars
<1>1. RecvFlags'
  BY DEF RecvTypeOK, RecvFlags
<1>2. RecvData'
  BY DEF RecvTypeOK, RecvData
<1>3. LockInv' /\ CdcInv' /\ MidiInv'
  BY DEF LockInv, CdcInv, MidiInv, OfMidi, From
<1>4. BankInv'
  BY DEF BankInv, From
<1>5. DueInv'
  <2>1. HeldMidi' = HeldMidi /\ HeldCdc' = HeldCdc
    BY DEF HeldMidi, HeldCdc, OfMidi, Taking, Returning, Ring
  <2> QED BY <2>1, DueStays DEF ringVars
<1>6. PromiseInv'
  BY DEF PromiseInv, OfMidi
<1>s. StruckInv'
  BY DEF StruckInv, OfMidi
<1> QED BY <1>1, <1>2, <1>3, <1>4, <1>5, <1>6, <1>s DEF RecvTypeOK

\* Every step keeps the invariant.
LEMMA RecvNextInv == RecvInv /\ [RecvNext]_recvVars => RecvInv'
<1> SUFFICES ASSUME RecvInv, [RecvNext]_recvVars PROVE RecvInv'
  OBVIOUS
<1>1. ASSUME NEW ep \in Endpoints, HostSends(ep) PROVE RecvInv'
  BY <1>1, HostSendsInv
<1>2. CASE Handler
  BY <1>2, HandlerInv
<1>3. CASE BusReset \/ Reconfigure
  BY <1>3, EmptiedInv
<1>4. CASE CdcAvailable \/ MidiAvailable
  BY <1>4, AvailableInv
<1>5. CASE CdcRead \/ CdcPeek
  BY <1>5, CdcReadInv
<1>6. CASE CdcBegin
  BY <1>6, CdcBeginInv
<1>7. CASE MidiRead
  BY <1>7, MidiReadInv
<1>8. CASE Proceed
  <2>1. CASE RecvLock
    BY <2>1, RecvLockInv
  <2>2. CASE RecvTake
    BY <2>2, RecvTakeInv
  <2>3. CASE RecvRelease
    BY <2>3, RecvReleaseInv
  <2>4. CASE CdcReceived
    BY <2>4, CdcReceivedInv
  <2>5. CASE Accept \/ MidiLoad
    BY <2>5, AcceptInv
  <2>6. CASE AcceptStore
    BY <2>6, AcceptStoreInv
  <2>7. CASE MidiReturn
    BY <2>7, MidiReturnInv
  <2>8. CASE Return
    BY <2>8, ReturnInv
  <2> QED BY <1>8, <2>1, <2>2, <2>3, <2>4, <2>5, <2>6, <2>7, <2>8 DEF Proceed
<1>9. CASE UNCHANGED recvVars
  BY <1>9, RecvStutters
<1> QED BY <1>1, <1>2, <1>3, <1>4, <1>5, <1>6, <1>7, <1>8, <1>9 DEF RecvNext

\* The invariant of receiving over USB.
LEMMA RecvSafety == RecvSpec => []RecvInv
<1>1. RecvInit => RecvInv
  BY RecvInitInv
<1>2. RecvInv /\ [RecvNext]_recvVars => RecvInv'
  BY RecvNextInv
<1> QED BY <1>1, <1>2, PTL DEF RecvSpec

-----------------------------------------------------------------------------
\* read() and peek() return what the host sent to their own interface, in order and
\* each unit once, whatever the handlers select in between and whenever the bus is
\* reset; only a MidiUSB.read() that a reset struck, with its ring empty, does not.
THEOREM UnitsAreReadInOrder == RecvSpec => []ReceivedInOrder
<1>1. RecvInv => ReceivedInOrder
  <2> SUFFICES ASSUME RecvInv, pc = "return", value # None
               PROVE  \/ due[From] # <<>> /\ value = Head(due[From])
                      \/ OfMidi /\ struck /\ stale
    BY DEF ReceivedInOrder
  <2>1. CASE stale
    BY <2>1 DEF RecvInv, StruckInv
  <2>2. CASE ~ stale
    BY <2>2, ReturnsFirst
  <2> QED BY <2>1, <2>2
<1> QED BY <1>1, RecvSafety, PTL

\* When available() has said there is something, read() does not return empty-handed.
THEOREM AvailablePromiseKept == RecvSpec => []AvailableIsKept
<1>1. RecvInv => AvailableIsKept
  BY DEF RecvInv, PromiseInv, AvailableIsKept, From, OfMidi
<1> QED BY <1>1, RecvSafety, PTL
=============================================================================
