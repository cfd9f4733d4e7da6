------------------------------ MODULE WireProofs ------------------------------
(***************************************************************************)
(* Proofs about Wire and the two-wire driver, for every size of buffers,   *)
(* every set of bytes, and any sketch, device and bus.                     *)
(*                                                                         *)
(* What a sketch reads of another master's messages holds on a bus with    *)
(* other masters.  What the driver reports of the sketch's own transfers,  *)
(* and that it gives the bus back, are theorems about a board that is the  *)
(* only master: with others they do not hold.                              *)
(***************************************************************************)
EXTENDS Wire, DataLemmas

-----------------------------------------------------------------------------
\* Types, and what ties the hardware's status to its phase.

Buffers == [BufferSlots -> Byte]

HwStates ==
    [phase: {"idle", "sla", "mt", "mr", "sr", "st", "restart"},
     twint: Statuses \cup {None}, twdr: Byte \cup {"W", "R", None},
     twsta: BOOLEAN, twea: BOOLEAN, twie: BOOLEAN, bus: {"free", "us", "other"}]

DriverTypeOK ==
    /\ twi_state \in States /\ twi_slarw \in {"W", "R"}
    /\ twi_sendStop \in BOOLEAN /\ twi_inRepStart \in BOOLEAN
    /\ twi_error \in {"none", "MT_SLA_NACK", "MT_DATA_NACK", "BUS_ERROR", "ARB_LOST"}

MasterTypeOK ==
    /\ masterBuffer \in Buffers /\ masterIndex \in Nat
    /\ masterLength \in 0 .. BufferLength

SlaveTypeOK ==
    /\ txBuffer \in Buffers /\ txIndex \in Nat /\ txLength \in Nat
    /\ rxBuffer \in Buffers /\ rxIndex \in 0 .. BufferLength

HwTypeOK ==
    /\ hw \in HwStates
    /\ hw.phase = "mt" /\ hw.twint = None => hw.twdr \in Byte
    /\ hw.twint \in {"MR_DATA_ACK", "MR_DATA_NACK", "SR_DATA_ACK"} => hw.twdr \in Byte

\* A read asks for something.
SketchTypeOK ==
    /\ pc \in {"idle", "ready", "claim", "setup", "go", "wait"}
    /\ call \in [op: {"none", "write", "read"}, length: Nat, stop: BOOLEAN]
    /\ pc # "idle" => call.length <= BufferLength /\ call.op # "none"
    /\ call.op = "read" => call.length # 0
    /\ result \in [code: Nat \cup {None}, data: Seq(Byte)]
    /\ result.code # None => result.code <= BufferLength \/ result.code <= 4

SeenTypeOK ==
    /\ peer \in Seq(Byte) /\ nacked \in {"none", "address", "data"}
    /\ heard \in Seq(Byte) /\ Len(heard) <= BufferLength

WireTypeOK ==
    /\ wireRx \in [buffer: Buffers, index: 0 .. BufferLength, length: 0 .. BufferLength]
    /\ wireTx \in [buffer: Buffers, length: 0 .. BufferLength]
    /\ transmitting \in BOOLEAN
    /\ step \in {"idle", "ending", "register", "request", "copied", "indexed", "advance"}
    /\ request \in [quantity: 0 .. BufferLength, stop: BOOLEAN, acked: BOOLEAN]
    /\ due \in Seq(Byte)

\* Where in Wire and where in the driver the sketch is.
PlaceInv ==
    /\ step \in {"idle", "copied", "indexed", "advance"} => pc = "idle"
    /\ step \in {"ending", "register"} /\ pc # "idle" => call.op = "write"
    /\ step = "request" => pc # "idle" /\ call.op = "read"
    /\ step \in {"copied", "indexed"} => result.code \in 0 .. BufferLength
    /\ step = "register" => request.quantity # 0
    /\ step = "advance" => Unread

\* The hardware keeps its interrupt to itself after a repeated start alone, and
\* the statuses of a slave receiver come in its phase.
StatusInv ==
    /\ hw.twie = ~ twi_inRepStart
    /\ twi_inRepStart => hw.phase = "restart" /\ hw.twint \in {None, "REP_START"}
    /\ hw.phase = "sr" => hw.twint \in {None, "SR_DATA_ACK", "SR_DATA_NACK", "SR_STOP", "BUS_ERROR"}
    /\ hw.twint \in {"SR_DATA_ACK", "SR_DATA_NACK", "SR_STOP"} => hw.phase = "sr"

TypeInv ==
    /\ DriverTypeOK /\ MasterTypeOK /\ SlaveTypeOK /\ HwTypeOK
    /\ SketchTypeOK /\ SeenTypeOK /\ WireTypeOK /\ PlaceInv /\ StatusInv

-----------------------------------------------------------------------------
\* A message of another master: what it sent is what the handler stored, and the
\* byte it is about to store.
HeardInv ==
    /\ hw.twint \in {"SR_SLA_ACK", "SR_ARB_LOST_SLA_ACK"} => heard = <<>>
    /\ hw.phase = "sr" =>
          heard = IF hw.twint = "SR_DATA_ACK" /\ rxIndex < BufferLength
                  THEN Append(Received, hw.twdr) ELSE Received

\* What the sketch has still to read.
Rest(buffer, from, to) == [k \in 1 .. to - from |-> buffer[from + k - 1]]

DueInv ==
    /\ step \notin {"copied", "indexed", "advance"} =>
          due = Rest(wireRx.buffer, wireRx.index, wireRx.length)
    /\ step = "advance" => due = Rest(wireRx.buffer, wireRx.index + 1, wireRx.length)

-----------------------------------------------------------------------------
\* The board as the only master.

MasterStatuses ==
    {"START", "REP_START", "MT_SLA_ACK", "MT_SLA_NACK", "MT_DATA_ACK", "MT_DATA_NACK",
     "MR_SLA_ACK", "MR_SLA_NACK", "MR_DATA_ACK", "MR_DATA_NACK", "BUS_ERROR"}

AloneInv ==
    /\ hw.bus # "other" /\ hw.phase \notin {"sr", "st"}
    /\ hw.twint \in MasterStatuses \cup {None}

Mine == IF call.op = "write" THEN "MTX" ELSE "MRX"

\* A transfer is under way.
Active == pc = "wait" /\ twi_state # "READY"

\* Where the sketch is in the call and what it has set up for the handler.
CallInv ==
    /\ pc \in {"idle", "ready", "claim"} => twi_state = "READY"
    /\ pc \in {"setup", "go"} => twi_state = Mine
    /\ pc = "wait" => twi_state \in {"READY", Mine}
    /\ pc \in {"go", "wait"} =>
          /\ twi_sendStop = call.stop
          /\ twi_slarw = IF call.op = "write" THEN "W" ELSE "R"
          /\ masterLength = IF call.op = "write" THEN call.length ELSE call.length - 1

\* Without a transfer the board has the bus only for a repeated start, which waits
\* for an address or is being sent.
RestInv ==
    ~ Active =>
       /\ ~ hw.twsta
       /\ hw.phase = IF twi_inRepStart THEN "restart" ELSE "idle"
       /\ hw.bus = IF twi_inRepStart THEN "us" ELSE "free"
       /\ ~ twi_inRepStart => hw.twint = None

\* The phases of a transfer and what the hardware reports in each: a START is asked
\* for, the device is addressed, bytes are sent, bytes are received.
Starting ==
    /\ hw.phase = "idle" /\ hw.twsta
    /\ \/ hw.twint = None /\ hw.bus = "free"
       \/ hw.twint = "START" /\ hw.bus = "us"

Addressing ==
    /\ hw.phase = "sla" /\ hw.bus = "us" /\ ~ hw.twsta /\ hw.twdr = twi_slarw
    /\ hw.twint \in {None, "BUS_ERROR"} \cup
          (IF call.op = "write" THEN {"MT_SLA_ACK", "MT_SLA_NACK"} ELSE {"MR_SLA_ACK", "MR_SLA_NACK"})

Sending ==
    /\ hw.phase = "mt" /\ hw.bus = "us" /\ ~ hw.twsta /\ call.op = "write"
    /\ hw.twint \in {None, "BUS_ERROR", "MT_DATA_ACK", "MT_DATA_NACK"}

Receiving ==
    /\ hw.phase = "mr" /\ hw.bus = "us" /\ ~ hw.twsta /\ call.op = "read"
    /\ hw.twint \in {None, "BUS_ERROR", "MR_DATA_ACK", "MR_DATA_NACK"}

ActiveInv ==
    Active => ~ twi_inRepStart /\ (Starting \/ Addressing \/ Sending \/ Receiving)

BusInv == AloneInv /\ CallInv /\ RestInv /\ ActiveInv

-----------------------------------------------------------------------------
\* The data of a transfer: the first n bytes that went over the bus are those of
\* the driver's buffer.
Carried(n) == Len(peer) = n /\ \A k \in 1 .. n : peer[k] = masterBuffer[k - 1]

Clean == peer = <<>> /\ nacked = "none"

\* Before the device has answered to its address.
FreshInv ==
    /\ pc \in {"ready", "claim", "setup", "go"} => Clean
    /\ pc = "go" => masterIndex = 0 /\ twi_error = "none"
    /\ Active => twi_error = "none"
    /\ Active /\ hw.phase \in {"idle", "sla"} =>
          /\ masterIndex = 0 /\ peer = <<>>
          /\ nacked = IF hw.twint \in {"MT_SLA_NACK", "MR_SLA_NACK"} THEN "address" ELSE "none"

\* Sending: the byte in the data register is the last taken from the buffer.
SendingInv ==
    Active /\ hw.phase = "mt" =>
       /\ masterIndex \in 1 .. masterLength
       /\ hw.twdr = masterBuffer[masterIndex - 1]
       /\ Carried(IF hw.twint = "MT_DATA_ACK" THEN masterIndex ELSE masterIndex - 1)
       /\ nacked = IF hw.twint = "MT_DATA_NACK" THEN "data" ELSE "none"

\* Receiving: the last byte alone is not acknowledged.
ReceivingInv ==
    Active /\ hw.phase = "mr" =>
       /\ masterIndex <= masterLength
       /\ hw.twint \in {None, "BUS_ERROR"} =>
             Carried(masterIndex) /\ hw.twea = (masterIndex < masterLength)
       /\ hw.twint \in {"MR_DATA_ACK", "MR_DATA_NACK"} =>
             /\ Len(peer) = masterIndex + 1 /\ peer[masterIndex + 1] = hw.twdr
             /\ \A k \in 1 .. masterIndex : peer[k] = masterBuffer[k - 1]
       /\ hw.twint = "MR_DATA_ACK" => masterIndex < masterLength
       /\ hw.twint = "MR_DATA_NACK" => masterIndex = masterLength

\* After the transfer, before the call returns.
DoneInv ==
    pc = "wait" /\ twi_state = "READY" =>
       /\ call.op = "write" =>
             /\ twi_error = "none" =>
                   Carried(masterLength) /\ nacked = "none" /\ twi_inRepStart = ~ call.stop
             /\ twi_error = "MT_SLA_NACK" => nacked = "address"
             /\ twi_error = "MT_DATA_NACK" => nacked = "data"
             /\ twi_error # "ARB_LOST"
       /\ call.op = "read" => Carried(masterIndex) /\ masterIndex <= call.length

TransferInv == FreshInv /\ SendingInv /\ ReceivingInv /\ DoneInv

-----------------------------------------------------------------------------
\* Wire over the driver: what is sent is what write() took, and what was received
\* is copied as it is.

\* What the driver was given is what Wire's buffer still holds.
GivenInv ==
    step \in {"ending", "register"} /\ pc # "idle" =>
       /\ call.length = wireTx.length
       /\ pc \in {"go", "wait"} =>
             \A k \in 0 .. wireTx.length - 1 : masterBuffer[k] = wireTx.buffer[k]

\* A register address keeps the bus for the read.
KeepInv ==
    /\ step = "register" /\ pc # "idle" => ~ call.stop
    /\ step = "register" /\ pc = "idle" /\ result.code = 0 => twi_inRepStart
    /\ step = "request" /\ request.acked /\ pc \in {"ready", "claim", "setup", "go"} =>
          twi_inRepStart

CopiedInv ==
    /\ step \in {"copied", "indexed"} =>
          /\ Len(peer) = result.code
          /\ \A k \in 1 .. result.code : peer[k] = wireRx.buffer[k - 1]
    /\ step = "indexed" => wireRx.index = 0

SketchInv == GivenInv /\ KeepInv /\ CopiedInv /\ ResultIsTrue

AloneWireInv == TypeInv /\ BusInv /\ TransferInv /\ SketchInv /\ DueInv

-----------------------------------------------------------------------------
\* The hardware's registers after each write of TWCR and after its own steps.

Has(h, phase, twint, twdr, twsta, twea, twie, bus) ==
    /\ h \in HwStates
    /\ h.phase = phase /\ h.twint = twint /\ h.twdr = twdr /\ h.twsta = twsta
    /\ h.twea = twea /\ h.twie = twie /\ h.bus = bus

\* The phase that follows a status is one.
LEMMA PhaseAfterIs ==
    ASSUME NEW s
    PROVE  PhaseAfter(s) \in {"idle", "sla", "mt", "mr", "sr", "st"}
BY DEF PhaseAfter

\* After TWDR is written.
LEMMA LoadedIs ==
    ASSUME NEW h \in HwStates, NEW b \in Byte \cup {"W", "R", None}
    PROVE  Has([h EXCEPT !.twdr = b], h.phase, h.twint, b, h.twsta, h.twea, h.twie, h.bus)
BY DEF Has, HwStates

\* After a write of TWCR that lets the hardware go on, with TWSTA, and with a byte
\* in TWDR.
LEMMA GoOnIs ==
    ASSUME NEW h \in HwStates, NEW ack \in BOOLEAN
    PROVE  Has(GoOn(h, ack), IF h.twint = None THEN h.phase ELSE PhaseAfter(h.twint),
               None, h.twdr, FALSE, ack, TRUE, h.bus)
BY PhaseAfterIs DEF GoOn, Has, HwStates

LEMMA AskForStartIs ==
    ASSUME NEW h \in HwStates
    PROVE  Has(AskForStart(h), IF h.twint = None THEN h.phase ELSE PhaseAfter(h.twint),
               None, h.twdr, TRUE, TRUE, TRUE, h.bus)
<1>1. ASSUME NEW g \in HwStates
      PROVE  Has([g EXCEPT !.twsta = TRUE], g.phase, g.twint, g.twdr, TRUE, g.twea, g.twie, g.bus)
  BY DEF Has, HwStates
<1>2. Has([GoOn(h, TRUE) EXCEPT !.twsta = TRUE], GoOn(h, TRUE).phase, GoOn(h, TRUE).twint,
          GoOn(h, TRUE).twdr, TRUE, GoOn(h, TRUE).twea, GoOn(h, TRUE).twie, GoOn(h, TRUE).bus)
  BY <1>1, GoOnIs DEF Has
<1> QED BY <1>2, GoOnIs DEF Has, AskForStart

LEMMA GoOnWithIs ==
    ASSUME NEW h \in HwStates, NEW ack \in BOOLEAN, NEW b \in Byte \cup {"W", "R", None}
    PROVE  Has([GoOn(h, ack) EXCEPT !.twdr = b],
               IF h.twint = None THEN h.phase ELSE PhaseAfter(h.twint),
               None, b, FALSE, ack, TRUE, h.bus)
<1>1. GoOn(h, ack) \in HwStates
  BY GoOnIs DEF Has
<1>2. Has([GoOn(h, ack) EXCEPT !.twdr = b], GoOn(h, ack).phase, GoOn(h, ack).twint, b,
          GoOn(h, ack).twsta, GoOn(h, ack).twea, GoOn(h, ack).twie, GoOn(h, ack).bus)
  BY <1>1, LoadedIs
<1> QED BY <1>2, GoOnIs DEF Has

\* After the START of the next transfer, and after a STOP.
LEMMA RepeatStartIs ==
    ASSUME NEW h \in HwStates
    PROVE  Has(RepeatStart(h), "restart", None, h.twdr, FALSE, FALSE, FALSE, h.bus)
BY DEF RepeatStart, Has, HwStates

LEMMA GiveUpIs ==
    ASSUME NEW h \in HwStates
    PROVE  Has(GiveUp(h), "idle", None, h.twdr, FALSE, TRUE, TRUE,
               IF h.bus = "us" THEN "free" ELSE h.bus)
BY DEF GiveUp, Has, HwStates

\* After the hardware has raised its interrupt, with a byte, or with the bus taken
\* or free; and after the bus alone has changed hands.
LEMMA RaisedIs ==
    ASSUME NEW h \in HwStates, NEW s \in Statuses, NEW b \in Byte, NEW o \in {"free", "us", "other"}
    PROVE  /\ Has([h EXCEPT !.twint = s], h.phase, s, h.twdr, h.twsta, h.twea, h.twie, h.bus)
           /\ Has([h EXCEPT !.twdr = b, !.twint = s], h.phase, s, b, h.twsta, h.twea, h.twie, h.bus)
           /\ Has([h EXCEPT !.twint = s, !.bus = o], h.phase, s, h.twdr, h.twsta, h.twea, h.twie, o)
           /\ Has([h EXCEPT !.bus = o], h.phase, h.twint, h.twdr, h.twsta, h.twea, h.twie, o)
<1>1. Has([h EXCEPT !.twint = s], h.phase, s, h.twdr, h.twsta, h.twea, h.twie, h.bus)
  BY DEF Has, HwStates
<1>2. Has([h EXCEPT !.twdr = b, !.twint = s], h.phase, s, b, h.twsta, h.twea, h.twie, h.bus)
  BY DEF Has, HwStates
<1>3. Has([h EXCEPT !.twint = s, !.bus = o], h.phase, s, h.twdr, h.twsta, h.twea, h.twie, o)
  BY DEF Has, HwStates
<1>4. Has([h EXCEPT !.bus = o], h.phase, h.twint, h.twdr, h.twsta, h.twea, h.twie, o)
  BY DEF Has, HwStates
<1> QED BY <1>1, <1>2, <1>3, <1>4

-----------------------------------------------------------------------------
\* What each step does to the hardware, and to what decides it.

Becomes(phase, twint, twdr, twsta, twea, twie, bus) ==
    Has(hw', phase, twint, twdr, twsta, twea, twie, bus)

\* The hardware goes on from a status, or has given back the bus.
GoesOn(phase, ack) == Becomes(phase, None, hw.twdr, FALSE, ack, TRUE, hw.bus)
GivesUp == Becomes("idle", None, hw.twdr, FALSE, TRUE, TRUE, IF hw.bus = "us" THEN "free" ELSE hw.bus)
Repeats == Becomes("restart", None, hw.twdr, FALSE, FALSE, FALSE, hw.bus)

\* The hardware raises its interrupt.
Raises(s, bus) == Becomes(hw.phase, s, hw.twdr, hw.twsta, hw.twea, hw.twie, bus)
RaisesWith(s, b) == Becomes(hw.phase, s, b, hw.twsta, hw.twea, hw.twie, hw.bus)

\* None is no status, no byte and no number.
LEMMA NoneIsApart == None \notin Statuses /\ None \notin Byte /\ None \notin Nat
BY BusAssumption

\* An interrupt is served with the status it was raised with.
LEMMA InterruptIs ==
    ASSUME NEW s \in Statuses, Interrupt(s)
    PROVE  hw.twint = s /\ hw.twint # None /\ hw.twie
BY NoneIsApart DEF Interrupt

\* The end of a transfer, with a STOP or with a START.
Ends ==
    /\ twi_state' = "READY"
    /\ \/ twi_sendStop /\ GivesUp /\ twi_inRepStart' = twi_inRepStart
       \/ ~ twi_sendStop /\ Repeats /\ twi_inRepStart' = TRUE

LEMMA EndTransferHw ==
    ASSUME TypeInv, EndTransfer
    PROVE  Ends
<1>1. hw \in HwStates
  BY DEF TypeInv, HwTypeOK
<1>2. CASE twi_sendStop
  BY <1>1, <1>2, GiveUpIs DEF EndTransfer, twi_stop, GivesUp, Becomes, Ends
<1>3. CASE ~ twi_sendStop
  BY <1>1, <1>3, RepeatStartIs DEF EndTransfer, Repeats, Becomes, Ends
<1> QED BY <1>2, <1>3

LEMMA IsrStartHw ==
    ASSUME TypeInv, IsrStart
    PROVE  /\ hw.twint \in {"START", "REP_START"} /\ hw.twie
           /\ Becomes("sla", None, twi_slarw, FALSE, TRUE, TRUE, hw.bus)
<1>1. hw \in HwStates /\ twi_slarw \in {"W", "R"}
  BY DEF TypeInv, HwTypeOK, DriverTypeOK
<1>2. /\ hw.twint \in {"START", "REP_START"} /\ hw.twie
      /\ hw' = [GoOn(hw, TRUE) EXCEPT !.twdr = twi_slarw]
  BY DEF IsrStart, Interrupt
<1>3. PhaseAfter(hw.twint) = "sla" /\ hw.twint # None
  BY <1>2, NoneIsApart DEF PhaseAfter, Statuses
<1> QED BY <1>1, <1>2, <1>3, GoOnWithIs DEF Becomes

LEMMA IsrMasterSendHw ==
    ASSUME TypeInv, IsrMasterSend
    PROVE  /\ hw.twint \in {"MT_SLA_ACK", "MT_DATA_ACK"} /\ hw.twie
           /\ \/ /\ masterIndex < masterLength /\ masterIndex' = masterIndex + 1
                 /\ masterBuffer[masterIndex] \in Byte
                 /\ Becomes("mt", None, masterBuffer[masterIndex], FALSE, TRUE, TRUE, hw.bus)
                 /\ UNCHANGED <<twi_state, twi_inRepStart>>
              \/ ~ (masterIndex < masterLength) /\ Ends /\ UNCHANGED masterIndex
<1>1. hw \in HwStates
  BY DEF TypeInv, HwTypeOK
<1>2. hw.twint \in {"MT_SLA_ACK", "MT_DATA_ACK"} /\ hw.twie
  BY DEF IsrMasterSend, Interrupt
<1>3. PhaseAfter(hw.twint) = "mt" /\ hw.twint # None
  BY <1>2, NoneIsApart DEF PhaseAfter, Statuses
<1>4. CASE masterIndex < masterLength
  <2>1. masterBuffer[masterIndex] \in Byte
    BY <1>4, BufferAssumption DEF TypeInv, MasterTypeOK, Buffers, BufferSlots
  <2>2. hw' = [GoOn(hw, TRUE) EXCEPT !.twdr = masterBuffer[masterIndex]]
    BY <1>4 DEF IsrMasterSend
  <2>3. Becomes("mt", None, masterBuffer[masterIndex], FALSE, TRUE, TRUE, hw.bus)
    BY <1>1, <1>3, <2>1, <2>2, GoOnWithIs DEF Becomes
  <2> QED BY <1>2, <1>4, <2>1, <2>3 DEF IsrMasterSend
<1>5. CASE ~ (masterIndex < masterLength)
  BY <1>2, <1>5, EndTransferHw DEF IsrMasterSend
<1> QED BY <1>4, <1>5

LEMMA IsrMasterFailHw ==
    ASSUME TypeInv, IsrMasterFail
    PROVE  /\ hw.twint \in {"MT_SLA_NACK", "MT_DATA_NACK", "MR_SLA_NACK", "BUS_ERROR", "ARB_LOST"}
           /\ hw.twie /\ twi_state' = "READY"
           /\ IF hw.twint = "ARB_LOST" THEN GoesOn("idle", TRUE) ELSE GivesUp
           /\ twi_error' = IF hw.twint = "MR_SLA_NACK" THEN twi_error ELSE hw.twint
<1>1. hw \in HwStates
  BY DEF TypeInv, HwTypeOK
<1>2. PhaseAfter("ARB_LOST") = "idle" /\ "ARB_LOST" # None
  BY NoneIsApart DEF PhaseAfter, Statuses
<1>3. CASE /\ \E s \in {"MT_SLA_NACK", "MT_DATA_NACK", "BUS_ERROR"} : Interrupt(s) /\ twi_error' = s
           /\ twi_stop
  BY <1>1, <1>3, GiveUpIs DEF Interrupt, twi_stop, GivesUp, Becomes
<1>4. CASE Interrupt("ARB_LOST") /\ twi_error' = "ARB_LOST" /\ twi_releaseBus
  BY <1>1, <1>2, <1>4, GoOnIs DEF Interrupt, twi_releaseBus, GoesOn, Becomes
<1>5. CASE Interrupt("MR_SLA_NACK") /\ twi_stop /\ UNCHANGED twi_error
  BY <1>1, <1>5, GiveUpIs DEF Interrupt, twi_stop, GivesUp, Becomes
<1> QED BY <1>3, <1>4, <1>5 DEF IsrMasterFail

LEMMA IsrMasterReceiveHw ==
    ASSUME TypeInv, IsrMasterReceive
    PROVE  /\ hw.twint \in {"MR_SLA_ACK", "MR_DATA_ACK"} /\ hw.twie
           /\ GoesOn("mr", masterIndex' < masterLength)
           /\ UNCHANGED twi_state
<1>1. hw \in HwStates
  BY DEF TypeInv, HwTypeOK
<1>2. hw.twint \in {"MR_SLA_ACK", "MR_DATA_ACK"} /\ hw.twie
  BY DEF IsrMasterReceive, Interrupt
<1>3. PhaseAfter(hw.twint) = "mr" /\ hw.twint # None
  BY <1>2, NoneIsApart DEF PhaseAfter, Statuses
<1>4. hw' = GoOn(hw, masterIndex' < masterLength) /\ UNCHANGED twi_state
  BY DEF IsrMasterReceive, twi_reply
<1>5. (masterIndex' < masterLength) \in BOOLEAN
  OBVIOUS
<1> QED BY <1>1, <1>2, <1>3, <1>4, <1>5, GoOnIs DEF GoesOn, Becomes

LEMMA IsrMasterLastHw ==
    ASSUME TypeInv, IsrMasterLast
    PROVE  hw.twint = "MR_DATA_NACK" /\ hw.twie /\ Ends
BY EndTransferHw DEF IsrMasterLast, Interrupt

\* What is stored of a byte the device sent.
LEMMA StoreReceivedIs ==
    ASSUME TypeInv, StoreReceived, hw.twdr \in Byte
    PROVE  /\ masterBuffer' \in Buffers /\ masterIndex' \in Nat
           /\ masterIndex < BufferLength =>
                 /\ masterIndex' = masterIndex + 1
                 /\ \A k \in BufferSlots :
                       masterBuffer'[k] = IF k = masterIndex THEN hw.twdr ELSE masterBuffer[k]
<1>1. masterBuffer \in Buffers /\ masterIndex \in Nat
  BY DEF TypeInv, MasterTypeOK
<1>2. masterIndex' \in Nat
  BY <1>1, BufferAssumption DEF StoreReceived
<1>3. CASE masterIndex < BufferLength
  <2>1. masterIndex + 1 < IndexRange \/ masterIndex + 1 = IndexRange
    BY <1>1, <1>3, BufferAssumption
  <2>2. masterIndex + 1 < IndexRange
    BY <1>1, <1>3, BufferAssumption
  <2>3. masterIndex' = masterIndex + 1
    BY <1>1, <2>2, BufferAssumption DEF StoreReceived
  <2>4. masterBuffer' = [masterBuffer EXCEPT ![masterIndex] = hw.twdr]
    BY <1>3 DEF StoreReceived
  <2> QED BY <1>1, <1>2, <1>3, <2>3, <2>4 DEF Buffers, BufferSlots
<1>4. CASE ~ (masterIndex < BufferLength)
  BY <1>1, <1>2, <1>4 DEF StoreReceived
<1> QED BY <1>3, <1>4

\* The branches that only let the hardware go on.
LEMMA SlaveHw ==
    ASSUME TypeInv, hw.twint \in Statuses, NEW ack \in BOOLEAN, hw' = GoOn(hw, ack)
    PROVE  GoesOn(PhaseAfter(hw.twint), ack)
<1>1. hw \in HwStates /\ hw.twint # None
  BY NoneIsApart DEF TypeInv, HwTypeOK
<1> QED BY <1>1, GoOnIs DEF GoesOn, Becomes

LEMMA IsrSlaveReceiveHw ==
    ASSUME TypeInv, IsrSlaveReceive
    PROVE  /\ hw.twint \in {"SR_SLA_ACK", "SR_ARB_LOST_SLA_ACK"} /\ hw.twie
           /\ GoesOn("sr", TRUE)
<1>1. hw.twint \in {"SR_SLA_ACK", "SR_ARB_LOST_SLA_ACK"} /\ hw.twie
  BY DEF IsrSlaveReceive, Interrupt
<1>2. PhaseAfter(hw.twint) = "sr" /\ hw.twint \in Statuses
  BY <1>1 DEF PhaseAfter, Statuses
<1> QED BY <1>1, <1>2, SlaveHw DEF IsrSlaveReceive

LEMMA IsrSlaveByteHw ==
    ASSUME TypeInv, IsrSlaveByte
    PROVE  /\ hw.twint = "SR_DATA_ACK" /\ hw.twie
           /\ IF rxIndex < BufferLength THEN GoesOn("sr", TRUE) ELSE GoesOn("sr", FALSE)
<1>1. hw.twint = "SR_DATA_ACK" /\ hw.twie
  BY DEF IsrSlaveByte, Interrupt
<1>2. PhaseAfter(hw.twint) = "sr" /\ hw.twint \in Statuses
  BY <1>1 DEF PhaseAfter, Statuses
<1>3. hw' = IF rxIndex < BufferLength THEN GoOn(hw, TRUE) ELSE GoOn(hw, FALSE)
  BY DEF IsrSlaveByte, twi_reply
<1> QED BY <1>1, <1>2, <1>3, SlaveHw

LEMMA IsrSlaveNackHw ==
    ASSUME TypeInv, IsrSlaveNack
    PROVE  hw.twint = "SR_DATA_NACK" /\ hw.twie /\ GoesOn("idle", FALSE)
<1>1. hw.twint = "SR_DATA_NACK" /\ hw.twie
  BY DEF IsrSlaveNack, Interrupt
<1>2. PhaseAfter(hw.twint) = "idle" /\ hw.twint \in Statuses
  BY <1>1 DEF PhaseAfter, Statuses
<1> QED BY <1>1, <1>2, SlaveHw DEF IsrSlaveNack, twi_reply

LEMMA IsrSlaveStopHw ==
    ASSUME TypeInv, IsrSlaveStop
    PROVE  hw.twint = "SR_STOP" /\ hw.twie /\ GoesOn("idle", TRUE) /\ twi_state' = "READY"
<1>1. hw.twint = "SR_STOP" /\ hw.twie
  BY DEF IsrSlaveStop, Interrupt
<1>2. PhaseAfter(hw.twint) = "idle" /\ hw.twint \in Statuses
  BY <1>1 DEF PhaseAfter, Statuses
<1> QED BY <1>1, <1>2, SlaveHw DEF IsrSlaveStop, twi_releaseBus

LEMMA IsrSlaveDoneHw ==
    ASSUME TypeInv, IsrSlaveDone
    PROVE  hw.twint \in {"ST_DATA_NACK", "ST_LAST_DATA"} /\ hw.twie /\ GoesOn("idle", TRUE)
<1>1. hw.twint \in {"ST_DATA_NACK", "ST_LAST_DATA"} /\ hw.twie
  BY DEF IsrSlaveDone, Interrupt
<1>2. PhaseAfter(hw.twint) = "idle" /\ hw.twint \in Statuses
  BY <1>1 DEF PhaseAfter, Statuses
<1> QED BY <1>1, <1>2, SlaveHw DEF IsrSlaveDone

\* A byte of an answer is sent, or one from beyond the buffer.
LEMMA AnswerHw ==
    ASSUME TypeInv, hw.twint \in Statuses, NEW buffer \in Buffers, NEW index \in Nat,
           NEW length \in Nat, Answer(buffer, index, length)
    PROVE  \E b \in Byte, ack \in BOOLEAN :
              Becomes(PhaseAfter(hw.twint), None, b, FALSE, ack, TRUE, hw.bus)
<1>1. hw \in HwStates /\ hw.twint # None
  BY NoneIsApart DEF TypeInv, HwTypeOK
<1>2. PICK b \in IF index < BufferLength THEN {buffer[index]} ELSE Byte :
          hw' = [GoOn(hw, index + 1 < length) EXCEPT !.twdr = b]
  BY DEF Answer
<1>3. b \in Byte
  BY <1>2, BufferAssumption DEF Buffers, BufferSlots
<1>4. (index + 1 < length) \in BOOLEAN
  OBVIOUS
<1>5. Becomes(PhaseAfter(hw.twint), None, b, FALSE, index + 1 < length, TRUE, hw.bus)
  BY <1>1, <1>2, <1>3, <1>4, GoOnWithIs DEF Becomes
<1> QED BY <1>3, <1>4, <1>5

LEMMA IsrSlaveSendHw ==
    ASSUME TypeInv, IsrSlaveSend
    PROVE  /\ hw.twint = "ST_DATA_ACK" /\ hw.twie
           /\ \E b \in Byte, ack \in BOOLEAN : Becomes("st", None, b, FALSE, ack, TRUE, hw.bus)
<1>1. hw.twint = "ST_DATA_ACK" /\ hw.twie /\ Answer(txBuffer, txIndex, txLength)
  BY DEF IsrSlaveSend, Interrupt
<1>2. PhaseAfter(hw.twint) = "st" /\ hw.twint \in Statuses
  BY <1>1 DEF PhaseAfter, Statuses
<1>3. txBuffer \in Buffers /\ txIndex \in Nat /\ txLength \in Nat
  BY DEF TypeInv, SlaveTypeOK
<1>4. \E b \in Byte, ack \in BOOLEAN :
         Becomes(PhaseAfter(hw.twint), None, b, FALSE, ack, TRUE, hw.bus)
  BY <1>1, <1>2, <1>3, AnswerHw
<1> QED BY <1>1, <1>2, <1>4

LEMMA IsrSlaveAnswerHw ==
    ASSUME TypeInv, NEW reply \in Seq(Byte), IsrSlaveAnswer(reply)
    PROVE  /\ hw.twint \in {"ST_SLA_ACK", "ST_ARB_LOST_SLA_ACK"} /\ hw.twie
           /\ \E b \in Byte, ack \in BOOLEAN : Becomes("st", None, b, FALSE, ack, TRUE, hw.bus)
           /\ txBuffer' \in Buffers /\ txIndex' \in Nat /\ txLength' \in Nat
<1> DEFINE data == IF Len(reply) \in 1 .. BufferLength THEN reply ELSE <<Zero>>
           buffer == [s \in BufferSlots |-> IF s < Len(data) THEN data[s + 1] ELSE txBuffer[s]]
<1>1. hw.twint \in {"ST_SLA_ACK", "ST_ARB_LOST_SLA_ACK"} /\ hw.twie /\ Answer(buffer, 0, Len(data))
  BY DEF IsrSlaveAnswer, Interrupt
<1>2. PhaseAfter(hw.twint) = "st" /\ hw.twint \in Statuses
  BY <1>1 DEF PhaseAfter, Statuses
<1>3. data \in Seq(Byte) /\ Len(data) \in Nat
  BY BusAssumption
<1>4. buffer \in Buffers
  <2>1. txBuffer \in Buffers
    BY DEF TypeInv, SlaveTypeOK
  <2>2. ASSUME NEW s \in BufferSlots
        PROVE  (IF s < Len(data) THEN data[s + 1] ELSE txBuffer[s]) \in Byte
    <3>1. s \in Nat
      BY BufferAssumption DEF BufferSlots
    <3>2. CASE s < Len(data)
      <4>1. s + 1 \in 1 .. Len(data)
        BY <1>3, <3>1, <3>2
      <4>2. data[s + 1] \in Byte
        BY <1>3, <4>1, ElementOfSeq
      <4> QED BY <3>2, <4>2
    <3>3. CASE ~ (s < Len(data))
      BY <2>1, <3>3 DEF Buffers
    <3> QED BY <3>2, <3>3
  <2> QED BY <2>2 DEF Buffers
<1> HIDE DEF data, buffer
<1>5. \E b \in Byte, ack \in BOOLEAN :
         Becomes(PhaseAfter(hw.twint), None, b, FALSE, ack, TRUE, hw.bus)
  BY <1>1, <1>2, <1>3, <1>4, AnswerHw
<1>6. txBuffer' \in Buffers /\ txIndex' \in Nat /\ txLength' \in Nat
  BY <1>1, <1>3, <1>4 DEF Answer
<1> QED BY <1>1, <1>2, <1>5, <1>6

\* The sketch takes over a repeated start, or asks for a START.
LEMMA GoHw ==
    ASSUME TypeInv, Go
    PROVE  IF twi_inRepStart
           THEN /\ hw.twint = "REP_START"
                /\ Becomes("sla", None, twi_slarw, FALSE, TRUE, TRUE, hw.bus)
           ELSE /\ hw.twint = None
                /\ Becomes(hw.phase, None, hw.twdr, TRUE, TRUE, TRUE, hw.bus)
<1>1. hw \in HwStates /\ twi_slarw \in {"W", "R"}
  BY DEF TypeInv, HwTypeOK, DriverTypeOK
<1>2. CASE twi_inRepStart
  <2>1. hw.twint = "REP_START" /\ hw.twint # None
    BY <1>2 DEF Go, TypeInv, StatusInv
  <2>2. PhaseAfter(hw.twint) = "sla"
    BY <2>1 DEF PhaseAfter
  <2> QED BY <1>1, <1>2, <2>1, <2>2, GoOnWithIs DEF Go, Becomes
<1>3. CASE ~ twi_inRepStart
  <2>1. hw.twint = None
    BY <1>3 DEF Go, At, TypeInv, StatusInv
  <2> QED BY <1>1, <1>3, <2>1, AskForStartIs DEF Go, Becomes
<1> QED BY <1>2, <1>3

\* The hardware's own steps, and those of the other masters.
LEMMA HwStartHw ==
    ASSUME TypeInv, HwStart
    PROVE  /\ hw.phase = "idle" /\ hw.twint = None /\ hw.twsta /\ hw.bus = "free"
           /\ Raises("START", "us")
<1>1. hw \in HwStates /\ "START" \in Statuses
  BY DEF TypeInv, HwTypeOK, Statuses
<1> QED BY <1>1, RaisedIs, BusAssumption DEF HwStart, Busy, Raises, Becomes

LEMMA HwRepeatedStartHw ==
    ASSUME TypeInv, HwRepeatedStart
    PROVE  hw.phase = "restart" /\ hw.twint = None /\ Raises("REP_START", hw.bus)
<1>1. hw \in HwStates /\ "REP_START" \in Statuses
  BY DEF TypeInv, HwTypeOK, Statuses
<1> QED BY <1>1, RaisedIs, BusAssumption DEF HwRepeatedStart, Busy, Raises, Becomes

LEMMA HwAddressHw ==
    ASSUME TypeInv, HwAddress
    PROVE  /\ hw.phase = "sla" /\ hw.twint = None
           /\ \/ nacked' = "none" /\ Raises(IF hw.twdr = "W" THEN "MT_SLA_ACK" ELSE "MR_SLA_ACK", hw.bus)
              \/ nacked' = "address" /\ Raises(IF hw.twdr = "W" THEN "MT_SLA_NACK" ELSE "MR_SLA_NACK", hw.bus)
<1> DEFINE ack == IF hw.twdr = "W" THEN "MT_SLA_ACK" ELSE "MR_SLA_ACK"
           nack == IF hw.twdr = "W" THEN "MT_SLA_NACK" ELSE "MR_SLA_NACK"
<1>1. hw \in HwStates /\ ack \in Statuses /\ nack \in Statuses
  BY DEF TypeInv, HwTypeOK, Statuses
<1>2. hw.phase = "sla" /\ hw.twint = None
  BY DEF HwAddress, Busy
<1>3. \/ hw' = [hw EXCEPT !.twint = ack] /\ nacked' = "none"
      \/ hw' = [hw EXCEPT !.twint = nack] /\ nacked' = "address"
  BY DEF HwAddress
<1> HIDE DEF ack, nack
<1>4. \/ Raises(ack, hw.bus) /\ nacked' = "none"
      \/ Raises(nack, hw.bus) /\ nacked' = "address"
  BY <1>1, <1>3, RaisedIs, BusAssumption DEF Raises, Becomes
<1> QED BY <1>2, <1>4 DEF ack, nack

LEMMA HwTransmitHw ==
    ASSUME TypeInv, HwTransmit
    PROVE  /\ hw.phase = "mt" /\ hw.twint = None /\ hw.twdr \in Byte
           /\ \/ Raises("MT_DATA_ACK", hw.bus) /\ peer' = Append(peer, hw.twdr) /\ nacked' = nacked
              \/ Raises("MT_DATA_NACK", hw.bus) /\ peer' = peer /\ nacked' = "data"
<1>1. hw \in HwStates /\ {"MT_DATA_ACK", "MT_DATA_NACK"} \subseteq Statuses
  BY DEF TypeInv, HwTypeOK, Statuses
<1>2. hw.phase = "mt" /\ hw.twint = None /\ hw.twdr \in Byte
  BY DEF HwTransmit, Busy, TypeInv, HwTypeOK
<1> QED BY <1>1, <1>2, RaisedIs, BusAssumption DEF HwTransmit, Raises, Becomes

LEMMA HwReceiveHw ==
    ASSUME TypeInv, HwReceive
    PROVE  /\ hw.phase = "mr" /\ hw.twint = None
           /\ \E b \in Byte :
                 /\ RaisesWith(IF hw.twea THEN "MR_DATA_ACK" ELSE "MR_DATA_NACK", b)
                 /\ peer' = Append(peer, b)
<1> DEFINE s == IF hw.twea THEN "MR_DATA_ACK" ELSE "MR_DATA_NACK"
<1>1. hw \in HwStates /\ s \in Statuses
  BY DEF TypeInv, HwTypeOK, Statuses
<1>2. PICK b \in Byte : hw' = [hw EXCEPT !.twdr = b, !.twint = s] /\ peer' = Append(peer, b)
  BY DEF HwReceive
<1> HIDE DEF s
<1>3. RaisesWith(s, b)
  BY <1>1, <1>2, RaisedIs DEF RaisesWith, Becomes
<1> QED BY <1>2, <1>3 DEF HwReceive, Busy, s

LEMMA HwBusErrorHw ==
    ASSUME TypeInv, HwBusError
    PROVE  /\ hw.phase \in {"sla", "mt", "mr", "sr", "st"} /\ hw.twint = None
           /\ Raises("BUS_ERROR", hw.bus)
<1>1. hw \in HwStates /\ "BUS_ERROR" \in Statuses
  BY DEF TypeInv, HwTypeOK, Statuses
<1> QED BY <1>1, RaisedIs, BusAssumption DEF HwBusError, Busy, Raises, Becomes

LEMMA ArbitrationLostHw ==
    ASSUME TypeInv, ArbitrationLost
    PROVE  /\ hw.phase \in {"sla", "mt"} /\ hw.twint = None
           /\ \/ Raises("ARB_LOST", "other") /\ heard' = heard
              \/ /\ \E s \in {"SR_ARB_LOST_SLA_ACK", "ST_ARB_LOST_SLA_ACK"} : Raises(s, "other")
                 /\ heard' = <<>>
<1>1. hw \in HwStates
      /\ {"ARB_LOST", "SR_ARB_LOST_SLA_ACK", "ST_ARB_LOST_SLA_ACK"} \subseteq Statuses
  BY DEF TypeInv, HwTypeOK, Statuses
<1>2. CASE /\ \E phase \in {"sla", "mt"} : Busy(phase)
           /\ hw' = [hw EXCEPT !.twint = "ARB_LOST", !.bus = "other"]
           /\ UNCHANGED heard
  BY <1>1, <1>2, RaisedIs, BusAssumption DEF Busy, Raises, Becomes
<1>3. CASE /\ Busy("sla")
           /\ \E s \in {"SR_ARB_LOST_SLA_ACK", "ST_ARB_LOST_SLA_ACK"} :
                 hw' = [hw EXCEPT !.twint = s, !.bus = "other"]
           /\ heard' = <<>>
  <2>1. PICK s \in {"SR_ARB_LOST_SLA_ACK", "ST_ARB_LOST_SLA_ACK"} :
            hw' = [hw EXCEPT !.twint = s, !.bus = "other"]
    BY <1>3
  <2>2. Raises(s, "other")
    BY <1>1, <2>1, RaisedIs, BusAssumption DEF Raises, Becomes
  <2> QED BY <1>3, <2>2 DEF Busy
<1> QED BY <1>2, <1>3 DEF ArbitrationLost

LEMMA OtherSeizesHw ==
    ASSUME TypeInv, OtherSeizes \/ OtherReleases
    PROVE  /\ hw.phase = "idle" /\ hw.twint = None
           /\ \E o \in {"free", "other"} : Raises(None, o)
<1>1. hw \in HwStates /\ "START" \in Statuses
  BY DEF TypeInv, HwTypeOK, Statuses
<1>2. PICK o \in {"free", "other"} : hw' = [hw EXCEPT !.bus = o]
  BY DEF OtherSeizes, OtherReleases
<1>3. hw.phase = "idle" /\ hw.twint = None
  BY DEF OtherSeizes, OtherReleases, Busy
<1>4. Raises(None, o)
  BY <1>1, <1>2, <1>3, RaisedIs, BusAssumption DEF Raises, Becomes
<1> QED BY <1>3, <1>4

LEMMA OtherAddressesHw ==
    ASSUME TypeInv, OtherAddresses
    PROVE  /\ hw.phase = "idle" /\ hw.twint = None
           /\ \E s \in {"SR_SLA_ACK", "ST_SLA_ACK"} : Raises(s, hw.bus)
           /\ heard' = <<>>
<1>1. hw \in HwStates /\ {"SR_SLA_ACK", "ST_SLA_ACK"} \subseteq Statuses
  BY DEF TypeInv, HwTypeOK, Statuses
<1> QED BY <1>1, RaisedIs, BusAssumption DEF OtherAddresses, Busy, Raises, Becomes

LEMMA OtherSendsHw ==
    ASSUME TypeInv, OtherSends
    PROVE  /\ hw.phase = "sr" /\ hw.twint = None
           /\ \E b \in Byte :
                 /\ RaisesWith(IF hw.twea THEN "SR_DATA_ACK" ELSE "SR_DATA_NACK", b)
                 /\ heard' = IF hw.twea /\ Len(heard) < BufferLength THEN Append(heard, b) ELSE heard
<1> DEFINE s == IF hw.twea THEN "SR_DATA_ACK" ELSE "SR_DATA_NACK"
<1>1. hw \in HwStates /\ s \in Statuses /\ Zero \in Byte
  BY BusAssumption DEF TypeInv, HwTypeOK, Statuses
<1>2. PICK b \in IF Len(heard) < BufferLength THEN Byte ELSE {Zero} :
          /\ hw' = [hw EXCEPT !.twdr = b, !.twint = s]
          /\ heard' = IF hw.twea /\ Len(heard) < BufferLength THEN Append(heard, b) ELSE heard
  BY DEF OtherSends
<1>3. b \in Byte
  BY <1>1, <1>2
<1> HIDE DEF s
<1>4. RaisesWith(s, b)
  BY <1>1, <1>2, <1>3, RaisedIs DEF RaisesWith, Becomes
<1> QED BY <1>2, <1>3, <1>4 DEF OtherSends, Busy, s

LEMMA OtherStopsHw ==
    ASSUME TypeInv, OtherStops
    PROVE  hw.phase = "sr" /\ hw.twint = None /\ Raises("SR_STOP", "free")
<1>1. hw \in HwStates /\ "SR_STOP" \in Statuses
  BY DEF TypeInv, HwTypeOK, Statuses
<1> QED BY <1>1, RaisedIs, BusAssumption DEF OtherStops, Busy, Raises, Becomes

LEMMA OtherTakesHw ==
    ASSUME TypeInv, OtherTakes
    PROVE  /\ hw.phase = "st" /\ hw.twint = None
           /\ \E s \in {"ST_DATA_NACK", "ST_DATA_ACK", "ST_LAST_DATA"} : Raises(s, hw.bus)
<1>1. hw \in HwStates /\ {"ST_DATA_NACK", "ST_DATA_ACK", "ST_LAST_DATA"} \subseteq Statuses
  BY DEF TypeInv, HwTypeOK, Statuses
<1>2. PICK s \in {"ST_DATA_NACK", "ST_DATA_ACK", "ST_LAST_DATA"} : hw' = [hw EXCEPT !.twint = s]
  BY DEF OtherTakes
<1>3. Raises(s, hw.bus)
  BY <1>1, <1>2, RaisedIs, BusAssumption DEF Raises, Becomes
<1> QED BY <1>3 DEF OtherTakes, Busy


-----------------------------------------------------------------------------
\* The types are kept.

LEMMA IsrStartTypes ==
    ASSUME TypeInv, IsrStart, UNCHANGED wireVars
    PROVE  TypeInv'
<1>1. DriverTypeOK' /\ MasterTypeOK' /\ SlaveTypeOK' /\ SketchTypeOK' /\ SeenTypeOK'
      /\ WireTypeOK' /\ PlaceInv'
  BY DEF TypeInv, IsrStart, driverVars, masterVars, slaveVars, sketchVars, seenVars, wireVars,
         DriverTypeOK, States, MasterTypeOK, Buffers, SlaveTypeOK, SketchTypeOK, SeenTypeOK,
         WireTypeOK, PlaceInv, Unread
<1>2. UNCHANGED twi_inRepStart
  BY DEF IsrStart, driverVars, masterVars, slaveVars, sketchVars, seenVars
<1>3. HwTypeOK' /\ StatusInv'
  BY <1>2, IsrStartHw, NoneIsApart
  DEF TypeInv, DriverTypeOK, HwTypeOK, StatusInv, Statuses, GoesOn, GivesUp, Repeats, Raises,
      RaisesWith, Becomes, Has
<1> QED BY <1>1, <1>3 DEF TypeInv

LEMMA IsrMasterSendTypes ==
    ASSUME TypeInv, IsrMasterSend, UNCHANGED wireVars
    PROVE  TypeInv'
<1>1. SlaveTypeOK' /\ SketchTypeOK' /\ SeenTypeOK' /\ WireTypeOK' /\ PlaceInv'
  BY DEF TypeInv, IsrMasterSend, slaveVars, sketchVars, seenVars, wireVars, SlaveTypeOK, Buffers,
         SketchTypeOK, SeenTypeOK, WireTypeOK, PlaceInv, Unread
<1>2. UNCHANGED <<twi_slarw, twi_sendStop, twi_error, masterBuffer, masterLength>>
  BY DEF IsrMasterSend
<1>3. DriverTypeOK'
  BY <1>2, IsrMasterSendHw DEF TypeInv, DriverTypeOK, States, Ends
<1>5. MasterTypeOK'
  <2>1. masterIndex' = masterIndex + 1 \/ masterIndex' = masterIndex
    BY IsrMasterSendHw
  <2> QED BY <1>2, <2>1 DEF TypeInv, MasterTypeOK, Buffers
<1>4. HwTypeOK' /\ StatusInv'
  BY IsrMasterSendHw, NoneIsApart
  DEF TypeInv, DriverTypeOK, HwTypeOK, StatusInv, Statuses, Ends, GivesUp, Repeats, Becomes, Has
<1> QED BY <1>1, <1>3, <1>4, <1>5 DEF TypeInv

LEMMA IsrMasterFailTypes ==
    ASSUME TypeInv, IsrMasterFail, UNCHANGED wireVars
    PROVE  TypeInv'
<1>1. MasterTypeOK' /\ SlaveTypeOK' /\ SketchTypeOK' /\ SeenTypeOK' /\ WireTypeOK' /\ PlaceInv'
  BY DEF TypeInv, IsrMasterFail, masterVars, slaveVars, sketchVars, seenVars, wireVars,
         MasterTypeOK, Buffers, SlaveTypeOK, SketchTypeOK, SeenTypeOK, WireTypeOK, PlaceInv,
         Unread
<1>2. UNCHANGED <<twi_slarw, twi_sendStop, twi_inRepStart>>
  BY DEF IsrMasterFail
<1>3. DriverTypeOK'
  BY <1>2, IsrMasterFailHw DEF TypeInv, DriverTypeOK, States
<1>4. HwTypeOK' /\ StatusInv'
  BY <1>2, IsrMasterFailHw, NoneIsApart
  DEF TypeInv, DriverTypeOK, HwTypeOK, StatusInv, Statuses, GoesOn, GivesUp, Becomes, Has
<1> QED BY <1>1, <1>3, <1>4 DEF TypeInv

LEMMA IsrMasterReceiveTypes ==
    ASSUME TypeInv, IsrMasterReceive, UNCHANGED wireVars
    PROVE  TypeInv'
<1>1. SlaveTypeOK' /\ SketchTypeOK' /\ SeenTypeOK' /\ WireTypeOK' /\ PlaceInv'
  BY DEF TypeInv, IsrMasterReceive, slaveVars, sketchVars, seenVars, wireVars, SlaveTypeOK,
         Buffers, SketchTypeOK, SeenTypeOK, WireTypeOK, PlaceInv, Unread
<1>2. UNCHANGED <<twi_slarw, twi_sendStop, twi_inRepStart, twi_error, masterLength>>
  BY DEF IsrMasterReceive
<1>3. DriverTypeOK'
  BY <1>2, IsrMasterReceiveHw DEF TypeInv, DriverTypeOK, States
<1>4. MasterTypeOK'
  <2>1. CASE Interrupt("MR_DATA_ACK") /\ StoreReceived
    BY <1>2, <2>1, StoreReceivedIs DEF Interrupt, TypeInv, HwTypeOK, MasterTypeOK
  <2>2. CASE UNCHANGED <<masterBuffer, masterIndex>>
    BY <1>2, <2>2 DEF TypeInv, MasterTypeOK, Buffers
  <2> QED BY <2>1, <2>2 DEF IsrMasterReceive
<1>5. HwTypeOK' /\ StatusInv'
  BY <1>2, IsrMasterReceiveHw, NoneIsApart
  DEF TypeInv, DriverTypeOK, HwTypeOK, StatusInv, Statuses, GoesOn, Becomes, Has
<1> QED BY <1>1, <1>3, <1>4, <1>5 DEF TypeInv

LEMMA IsrMasterLastTypes ==
    ASSUME TypeInv, IsrMasterLast, UNCHANGED wireVars
    PROVE  TypeInv'
<1>1. SlaveTypeOK' /\ SketchTypeOK' /\ SeenTypeOK' /\ WireTypeOK' /\ PlaceInv'
  BY DEF TypeInv, IsrMasterLast, slaveVars, sketchVars, seenVars, wireVars, SlaveTypeOK, Buffers,
         SketchTypeOK, SeenTypeOK, WireTypeOK, PlaceInv, Unread
<1>2. UNCHANGED <<twi_slarw, twi_sendStop, twi_error, masterLength>> /\ StoreReceived
  BY DEF IsrMasterLast
<1>3. hw.twint = "MR_DATA_NACK" /\ hw.twie /\ Ends
  BY IsrMasterLastHw
<1>4. DriverTypeOK'
  BY <1>2, <1>3 DEF TypeInv, DriverTypeOK, States, Ends
<1>5. MasterTypeOK'
  BY <1>2, <1>3, StoreReceivedIs DEF TypeInv, HwTypeOK, MasterTypeOK
<1>6. HwTypeOK' /\ StatusInv'
  BY <1>3, NoneIsApart
  DEF TypeInv, DriverTypeOK, HwTypeOK, StatusInv, Statuses, Ends, GivesUp, Repeats, Becomes, Has
<1> QED BY <1>1, <1>4, <1>5, <1>6 DEF TypeInv

LEMMA IsrSlaveReceiveTypes ==
    ASSUME TypeInv, IsrSlaveReceive, UNCHANGED wireVars
    PROVE  TypeInv'
<1>1. MasterTypeOK' /\ SketchTypeOK' /\ SeenTypeOK' /\ WireTypeOK' /\ PlaceInv'
  BY DEF TypeInv, IsrSlaveReceive, driverVars, masterVars, slaveVars, sketchVars, seenVars,
         wireVars, MasterTypeOK, Buffers, SketchTypeOK, SeenTypeOK, WireTypeOK, PlaceInv, Unread
<1>2. UNCHANGED twi_inRepStart
  BY DEF IsrSlaveReceive, driverVars, masterVars, slaveVars, sketchVars, seenVars
<1>3. HwTypeOK' /\ StatusInv'
  BY <1>2, IsrSlaveReceiveHw, NoneIsApart
  DEF TypeInv, DriverTypeOK, HwTypeOK, StatusInv, Statuses, GoesOn, GivesUp, Repeats, Raises,
      RaisesWith, Becomes, Has
<1>4. DriverTypeOK'
  BY BufferAssumption
  DEF TypeInv, IsrSlaveReceive, DriverTypeOK, States, driverVars, masterVars, slaveVars,
      sketchVars, seenVars
<1>5. SlaveTypeOK'
  BY BufferAssumption
  DEF TypeInv, IsrSlaveReceive, SlaveTypeOK, Buffers, driverVars, masterVars, slaveVars,
      sketchVars, seenVars
<1> QED BY <1>1, <1>3, <1>4, <1>5 DEF TypeInv

LEMMA IsrSlaveByteTypes ==
    ASSUME TypeInv, IsrSlaveByte, UNCHANGED wireVars
    PROVE  TypeInv'
<1>1. UNCHANGED <<driverVars, masterVars, txBuffer, txIndex, txLength, sketchVars, seenVars>>
  BY DEF IsrSlaveByte, twi_reply, driverVars
<1>2. DriverTypeOK' /\ MasterTypeOK' /\ SketchTypeOK' /\ SeenTypeOK' /\ WireTypeOK' /\ PlaceInv'
  BY <1>1
  DEF TypeInv, driverVars, masterVars, sketchVars, seenVars, wireVars, DriverTypeOK, States,
         MasterTypeOK, Buffers, SketchTypeOK, SeenTypeOK, WireTypeOK, PlaceInv, Unread
<1>3. hw.twint = "SR_DATA_ACK" /\ hw.twie
      /\ IF rxIndex < BufferLength THEN GoesOn("sr", TRUE) ELSE GoesOn("sr", FALSE)
  BY IsrSlaveByteHw
<1>4. HwTypeOK' /\ StatusInv'
  BY <1>1, <1>3, NoneIsApart
  DEF TypeInv, driverVars, DriverTypeOK, HwTypeOK, StatusInv, Statuses, GoesOn, Becomes, Has
<1>5. SlaveTypeOK'
  <2>1. CASE rxIndex < BufferLength
    <3>1. rxBuffer' = [rxBuffer EXCEPT ![rxIndex] = hw.twdr] /\ rxIndex' = rxIndex + 1
      BY <2>1 DEF IsrSlaveByte
    <3>2. rxBuffer' \in Buffers
      BY <1>3, <3>1 DEF TypeInv, HwTypeOK, SlaveTypeOK, Buffers
    <3> QED BY <1>1, <2>1, <3>1, <3>2, BufferAssumption DEF TypeInv, SlaveTypeOK
  <2>2. CASE ~ (rxIndex < BufferLength)
    BY <1>1, <2>2 DEF IsrSlaveByte, TypeInv, SlaveTypeOK
  <2> QED BY <2>1, <2>2
<1> QED BY <1>2, <1>4, <1>5 DEF TypeInv

LEMMA IsrSlaveNackTypes ==
    ASSUME TypeInv, IsrSlaveNack, UNCHANGED wireVars
    PROVE  TypeInv'
<1>1. DriverTypeOK' /\ MasterTypeOK' /\ SlaveTypeOK' /\ SketchTypeOK' /\ SeenTypeOK'
      /\ WireTypeOK' /\ PlaceInv'
  BY DEF TypeInv, IsrSlaveNack, driverVars, masterVars, slaveVars, sketchVars, seenVars,
         wireVars, DriverTypeOK, States, MasterTypeOK, Buffers, SlaveTypeOK, SketchTypeOK,
         SeenTypeOK, WireTypeOK, PlaceInv, Unread, twi_reply
<1>2. UNCHANGED twi_inRepStart
  BY DEF IsrSlaveNack, driverVars, masterVars, slaveVars, sketchVars, seenVars
<1>3. HwTypeOK' /\ StatusInv'
  BY <1>2, IsrSlaveNackHw, NoneIsApart
  DEF TypeInv, DriverTypeOK, HwTypeOK, StatusInv, Statuses, GoesOn, GivesUp, Repeats, Raises,
      RaisesWith, Becomes, Has
<1> QED BY <1>1, <1>3 DEF TypeInv

LEMMA IsrSlaveSendTypes ==
    ASSUME TypeInv, IsrSlaveSend, UNCHANGED wireVars
    PROVE  TypeInv'
<1>1. DriverTypeOK' /\ MasterTypeOK' /\ SketchTypeOK' /\ SeenTypeOK' /\ WireTypeOK' /\ PlaceInv'
  BY DEF TypeInv, IsrSlaveSend, driverVars, masterVars, slaveVars, sketchVars, seenVars,
         wireVars, DriverTypeOK, States, MasterTypeOK, Buffers, SketchTypeOK, SeenTypeOK,
         WireTypeOK, PlaceInv, Unread, Answer
<1>2. UNCHANGED twi_inRepStart
  BY DEF IsrSlaveSend, driverVars, masterVars, slaveVars, sketchVars, seenVars
<1>3. HwTypeOK' /\ StatusInv'
  BY <1>2, IsrSlaveSendHw, NoneIsApart
  DEF TypeInv, DriverTypeOK, HwTypeOK, StatusInv, Statuses, GoesOn, GivesUp, Repeats, Raises,
      RaisesWith, Becomes, Has
<1>4. SlaveTypeOK'
  BY BufferAssumption
  DEF TypeInv, IsrSlaveSend, SlaveTypeOK, Buffers, Answer, driverVars, masterVars, slaveVars,
      sketchVars, seenVars
<1> QED BY <1>1, <1>3, <1>4 DEF TypeInv

LEMMA IsrSlaveDoneTypes ==
    ASSUME TypeInv, IsrSlaveDone, UNCHANGED wireVars
    PROVE  TypeInv'
<1>1. MasterTypeOK' /\ SlaveTypeOK' /\ SketchTypeOK' /\ SeenTypeOK' /\ WireTypeOK' /\ PlaceInv'
  BY DEF TypeInv, IsrSlaveDone, driverVars, masterVars, slaveVars, sketchVars, seenVars,
         wireVars, MasterTypeOK, Buffers, SlaveTypeOK, SketchTypeOK, SeenTypeOK, WireTypeOK,
         PlaceInv, Unread
<1>2. UNCHANGED twi_inRepStart
  BY DEF IsrSlaveDone, driverVars, masterVars, slaveVars, sketchVars, seenVars
<1>3. HwTypeOK' /\ StatusInv'
  BY <1>2, IsrSlaveDoneHw, NoneIsApart
  DEF TypeInv, DriverTypeOK, HwTypeOK, StatusInv, Statuses, GoesOn, GivesUp, Repeats, Raises,
      RaisesWith, Becomes, Has
<1>4. DriverTypeOK'
  BY BufferAssumption
  DEF TypeInv, IsrSlaveDone, DriverTypeOK, States, driverVars, masterVars, slaveVars, sketchVars,
      seenVars
<1> QED BY <1>1, <1>3, <1>4 DEF TypeInv

LEMMA WaitReadyTypes ==
    ASSUME TypeInv, WaitReady, UNCHANGED wireVars
    PROVE  TypeInv'
<1>1. /\ pc = "ready" /\ pc' = "claim"
      /\ UNCHANGED <<driverVars, masterVars, slaveVars, hw, call, result, seenVars>>
  BY DEF WaitReady, At
<1>2. DriverTypeOK' /\ MasterTypeOK' /\ SlaveTypeOK' /\ HwTypeOK' /\ SeenTypeOK' /\ WireTypeOK'
      /\ StatusInv'
  BY <1>1
  DEF TypeInv, driverVars, masterVars, slaveVars, seenVars, wireVars, DriverTypeOK, States,
         MasterTypeOK, Buffers, SlaveTypeOK, HwTypeOK, SeenTypeOK, WireTypeOK, StatusInv
<1>3. SketchTypeOK' /\ PlaceInv'
  BY <1>1 DEF TypeInv, wireVars, SketchTypeOK, PlaceInv, Unread
<1> QED BY <1>2, <1>3 DEF TypeInv

LEMMA ClaimTypes ==
    ASSUME TypeInv, Claim, UNCHANGED wireVars
    PROVE  TypeInv'
<1>1. /\ pc = "claim" /\ pc' = "setup" /\ twi_state' \in {"MTX", "MRX"}
      /\ UNCHANGED <<twi_slarw, twi_sendStop, twi_inRepStart, twi_error, masterVars,
                     slaveVars, hw, call, result, seenVars>>
  BY DEF Claim, At
<1>2. DriverTypeOK' /\ MasterTypeOK' /\ SlaveTypeOK' /\ HwTypeOK' /\ SeenTypeOK' /\ WireTypeOK'
      /\ StatusInv'
  BY <1>1 DEF TypeInv, masterVars, slaveVars, seenVars, wireVars, DriverTypeOK, States,
         MasterTypeOK, Buffers, SlaveTypeOK, HwTypeOK, SeenTypeOK, WireTypeOK, StatusInv
<1>3. SketchTypeOK' /\ PlaceInv'
  BY <1>1 DEF TypeInv, wireVars, SketchTypeOK, PlaceInv, Unread
<1> QED BY <1>2, <1>3 DEF TypeInv

\* The length of a read, in a byte, is one less than what is asked for.

\* The length of a read, in a byte, is one less than what is asked for.
LEMMA OneLess ==
    ASSUME NEW N \in Nat \ {0}, NEW n \in 1 .. N
    PROVE  (n + N - 1) % N = n - 1
OBVIOUS

\* What a call sets up for the handler.
LEMMA SetUpIs ==
    ASSUME TypeInv, SetUp(TxData)
    PROVE  /\ pc = "setup" /\ pc' = "go"
           /\ twi_sendStop' = call.stop /\ twi_error' = "none" /\ masterIndex' = 0
           /\ twi_slarw' = IF call.op = "write" THEN "W" ELSE "R"
           /\ masterLength' = IF call.op = "write" THEN call.length ELSE call.length - 1
           /\ call.op = "write" =>
                 masterBuffer' = [s \in BufferSlots |->
                     IF s < call.length THEN TxData[s + 1] ELSE masterBuffer[s]]
           /\ call.op # "write" => masterBuffer' = masterBuffer
           /\ UNCHANGED <<twi_state, twi_inRepStart, slaveVars, hw, call, result, seenVars>>
<1>1. /\ pc = "setup" /\ pc' = "go"
      /\ twi_sendStop' = call.stop /\ twi_error' = "none" /\ masterIndex' = 0
      /\ UNCHANGED <<twi_state, twi_inRepStart, slaveVars, hw, call, result, seenVars>>
  BY DEF SetUp, At
<1>2. call.length \in Nat /\ call.length <= BufferLength /\ call.op \in {"read", "write"}
      /\ (call.op = "read" => call.length # 0)
  BY <1>1 DEF TypeInv, SketchTypeOK
<1>3. CASE call.op = "write"
  BY <1>1, <1>3 DEF SetUp
<1>4. CASE call.op # "write"
  <2>1. call.length \in 1 .. BufferLength
    BY <1>2, <1>4, BufferAssumption
  <2>4. (call.length + IndexRange - 1) % IndexRange = call.length - 1
    <3>1. IndexRange \in Nat \ {0} /\ call.length \in 1 .. IndexRange
      BY <2>1, BufferAssumption
    <3> QED BY <3>1, OneLess
  <2> QED BY <1>1, <1>4, <2>4 DEF SetUp
<1> QED BY <1>3, <1>4

\* What the pointer points to are bytes.

LEMMA TxDataType ==
    ASSUME WireTypeOK, NEW k \in 1 .. BufferLength
    PROVE  TxData[k] \in Byte /\ TxData[k] = wireTx.buffer[k - 1]
BY BufferAssumption DEF WireTypeOK, TxData, Buffers, BufferSlots

LEMMA SetUpTypes ==
    ASSUME TypeInv, SetUp(TxData), UNCHANGED wireVars
    PROVE  TypeInv'
<1>1. /\ pc = "setup" /\ pc' = "go"
      /\ UNCHANGED <<twi_state, twi_inRepStart, slaveVars, hw, call, result, seenVars>>
  BY SetUpIs
<1>2. call.length \in 0 .. BufferLength /\ call.op \in {"read", "write"} /\ call.stop \in BOOLEAN
      /\ (call.op = "read" => call.length # 0)
  BY <1>1, BufferAssumption DEF TypeInv, SketchTypeOK
<1>3. SlaveTypeOK' /\ HwTypeOK' /\ SeenTypeOK' /\ WireTypeOK' /\ StatusInv'
  BY <1>1 DEF TypeInv, slaveVars, seenVars, wireVars, Buffers, SlaveTypeOK, HwTypeOK, SeenTypeOK,
         WireTypeOK, StatusInv
<1>4. SketchTypeOK' /\ PlaceInv'
  BY <1>1 DEF TypeInv, wireVars, SketchTypeOK, PlaceInv, Unread
<1>5. DriverTypeOK'
  BY <1>1, <1>2, SetUpIs DEF TypeInv, DriverTypeOK
<1>6. masterIndex' \in Nat /\ masterLength' \in 0 .. BufferLength
  BY <1>2, SetUpIs, BufferAssumption
<1>7. masterBuffer' \in Buffers
  <2>1. masterBuffer \in Buffers /\ WireTypeOK
    BY DEF TypeInv, MasterTypeOK
  <2>2. CASE call.op = "write"
    <3>1. masterBuffer' = [s \in BufferSlots |->
              IF s < call.length THEN TxData[s + 1] ELSE masterBuffer[s]]
      BY <2>2, SetUpIs
    <3>2. ASSUME NEW s \in BufferSlots
          PROVE  TxData[s + 1] \in Byte /\ masterBuffer[s] \in Byte
      BY <2>1, TxDataType, BufferAssumption DEF BufferSlots, Buffers
    <3> QED BY <3>1, <3>2 DEF Buffers
  <2> QED BY <2>1, <2>2, SetUpIs
<1> QED BY <1>3, <1>4, <1>5, <1>6, <1>7 DEF TypeInv, MasterTypeOK

LEMMA GoTypes ==
    ASSUME TypeInv, Go, UNCHANGED wireVars
    PROVE  TypeInv'
<1>1. /\ pc = "go" /\ pc' = "wait" /\ twi_inRepStart' = FALSE
      /\ UNCHANGED <<twi_state, twi_slarw, twi_sendStop, twi_error, masterVars,
                     slaveVars, call, result, seenVars>>
  BY DEF Go, At
<1>2. MasterTypeOK' /\ SlaveTypeOK' /\ SeenTypeOK' /\ WireTypeOK'
  BY <1>1 DEF TypeInv, masterVars, slaveVars, seenVars, wireVars,
         MasterTypeOK, Buffers, SlaveTypeOK, SeenTypeOK, WireTypeOK
<1>6. DriverTypeOK'
  BY <1>1 DEF TypeInv, DriverTypeOK, States
<1>3. SketchTypeOK' /\ PlaceInv'
  BY <1>1 DEF TypeInv, wireVars, SketchTypeOK, PlaceInv, Unread
<1>4. twi_inRepStart \in BOOLEAN
  BY DEF TypeInv, DriverTypeOK
<1>5. HwTypeOK' /\ StatusInv'
  <2>1. CASE twi_inRepStart
    BY <1>1, <2>1, GoHw, NoneIsApart DEF TypeInv, HwTypeOK, StatusInv, Statuses, Becomes, Has
  <2>2. CASE ~ twi_inRepStart
    BY <1>1, <2>2, GoHw, NoneIsApart DEF TypeInv, HwTypeOK, StatusInv, Statuses, Becomes, Has
  <2> QED BY <2>1, <2>2
<1> QED BY <1>2, <1>3, <1>5, <1>6 DEF TypeInv

LEMMA ReturnWriteTypes ==
    ASSUME TypeInv, ReturnWrite, UNCHANGED wireVars
    PROVE  TypeInv'
<1>1. /\ pc = "wait" /\ pc' = "idle" /\ call' = NoCall /\ call.op = "write"
      /\ result' = [NoResult EXCEPT !.code = WriteResult]
      /\ UNCHANGED <<driverVars, masterVars, slaveVars, hw, seenVars>>
  BY DEF ReturnWrite, At
<1>2. DriverTypeOK' /\ MasterTypeOK' /\ SlaveTypeOK' /\ HwTypeOK' /\ SeenTypeOK' /\ WireTypeOK'
      /\ StatusInv'
  BY <1>1
  DEF TypeInv, driverVars, masterVars, slaveVars, seenVars, wireVars, DriverTypeOK, States,
         MasterTypeOK, Buffers, SlaveTypeOK, HwTypeOK, SeenTypeOK, WireTypeOK, StatusInv
<1>3. WriteResult \in 0 .. 4
  BY DEF WriteResult
<1>4. result' = [code |-> WriteResult, data |-> <<>>]
  BY <1>1 DEF NoResult
<1>5. SketchTypeOK'
  <2>1. <<>> \in Seq(Byte) /\ result'.code = WriteResult
    BY <1>4
  <2>2. result' \in [code: Nat \cup {None}, data: Seq(Byte)] /\ result'.code <= 4
    BY <1>3, <1>4, <2>1
  <2>3. call' \in [op: {"none", "write", "read"}, length: Nat, stop: BOOLEAN] /\ call'.op = "none"
    BY <1>1 DEF NoCall
  <2> QED BY <1>1, <2>2, <2>3 DEF SketchTypeOK
<1>6. PlaceInv'
  BY <1>1 DEF TypeInv, wireVars, PlaceInv, Unread
<1> QED BY <1>2, <1>5, <1>6 DEF TypeInv

LEMMA HwStartTypes ==
    ASSUME TypeInv, HwStart, UNCHANGED wireVars
    PROVE  TypeInv'
<1>1. DriverTypeOK' /\ MasterTypeOK' /\ SlaveTypeOK' /\ SketchTypeOK' /\ SeenTypeOK'
      /\ WireTypeOK' /\ PlaceInv'
  BY DEF TypeInv, HwStart, driverVars, masterVars, slaveVars, sketchVars, seenVars, HwVars,
         wireVars, DriverTypeOK, States, MasterTypeOK, Buffers, SlaveTypeOK, SketchTypeOK,
         SeenTypeOK, WireTypeOK, PlaceInv, Unread
<1>2. UNCHANGED twi_inRepStart
  BY DEF HwStart, driverVars, masterVars, slaveVars, sketchVars, seenVars, HwVars
<1>3. HwTypeOK' /\ StatusInv'
  BY <1>2, HwStartHw, NoneIsApart
  DEF TypeInv, DriverTypeOK, HwTypeOK, StatusInv, Statuses, GoesOn, GivesUp, Repeats, Raises,
      RaisesWith, Becomes, Has
<1> QED BY <1>1, <1>3 DEF TypeInv

LEMMA HwRepeatedStartTypes ==
    ASSUME TypeInv, HwRepeatedStart, UNCHANGED wireVars
    PROVE  TypeInv'
<1>1. DriverTypeOK' /\ MasterTypeOK' /\ SlaveTypeOK' /\ SketchTypeOK' /\ SeenTypeOK'
      /\ WireTypeOK' /\ PlaceInv'
  BY DEF TypeInv, HwRepeatedStart, driverVars, masterVars, slaveVars, sketchVars, seenVars,
         HwVars, wireVars, DriverTypeOK, States, MasterTypeOK, Buffers, SlaveTypeOK,
         SketchTypeOK, SeenTypeOK, WireTypeOK, PlaceInv, Unread
<1>2. UNCHANGED twi_inRepStart
  BY DEF HwRepeatedStart, driverVars, masterVars, slaveVars, sketchVars, seenVars, HwVars
<1>3. HwTypeOK' /\ StatusInv'
  BY <1>2, HwRepeatedStartHw, NoneIsApart
  DEF TypeInv, DriverTypeOK, HwTypeOK, StatusInv, Statuses, GoesOn, GivesUp, Repeats, Raises,
      RaisesWith, Becomes, Has
<1> QED BY <1>1, <1>3 DEF TypeInv

LEMMA HwAddressTypes ==
    ASSUME TypeInv, HwAddress, UNCHANGED wireVars
    PROVE  TypeInv'
<1>1. DriverTypeOK' /\ MasterTypeOK' /\ SlaveTypeOK' /\ SketchTypeOK' /\ WireTypeOK' /\ PlaceInv'
  BY DEF TypeInv, HwAddress, driverVars, masterVars, slaveVars, sketchVars, seenVars, HwVars,
         wireVars, DriverTypeOK, States, MasterTypeOK, Buffers, SlaveTypeOK, SketchTypeOK,
         WireTypeOK, PlaceInv, Unread
<1>2. UNCHANGED twi_inRepStart
  BY DEF HwAddress, driverVars, masterVars, slaveVars, sketchVars, seenVars, HwVars
<1>3. HwTypeOK' /\ StatusInv'
  BY <1>2, HwAddressHw, NoneIsApart
  DEF TypeInv, DriverTypeOK, HwTypeOK, StatusInv, Statuses, GoesOn, GivesUp, Repeats, Raises,
      RaisesWith, Becomes, Has
<1>4. SeenTypeOK'
  BY BufferAssumption
  DEF TypeInv, HwAddress, SeenTypeOK, driverVars, masterVars, slaveVars, sketchVars, seenVars,
      HwVars
<1> QED BY <1>1, <1>3, <1>4 DEF TypeInv

LEMMA HwTransmitTypes ==
    ASSUME TypeInv, HwTransmit, UNCHANGED wireVars
    PROVE  TypeInv'
<1>1. UNCHANGED <<HwVars, heard>>
  BY DEF HwTransmit
<1>2. DriverTypeOK' /\ MasterTypeOK' /\ SlaveTypeOK' /\ SketchTypeOK' /\ WireTypeOK' /\ PlaceInv'
  BY <1>1
  DEF TypeInv, HwVars, driverVars, masterVars, slaveVars, sketchVars, wireVars, DriverTypeOK,
      States, MasterTypeOK, Buffers, SlaveTypeOK, SketchTypeOK, WireTypeOK, PlaceInv, Unread
<1>3. HwTypeOK' /\ StatusInv'
  BY <1>1, HwTransmitHw, NoneIsApart
  DEF TypeInv, HwVars, driverVars, HwTypeOK, StatusInv, Statuses, Raises, Becomes, Has
<1>4. SeenTypeOK'
  BY <1>1, HwTransmitHw, AppendProperties DEF TypeInv, SeenTypeOK
<1> QED BY <1>2, <1>3, <1>4 DEF TypeInv

LEMMA HwReceiveTypes ==
    ASSUME TypeInv, HwReceive, UNCHANGED wireVars
    PROVE  TypeInv'
<1>1. DriverTypeOK' /\ MasterTypeOK' /\ SlaveTypeOK' /\ SketchTypeOK' /\ WireTypeOK' /\ PlaceInv'
  BY DEF TypeInv, HwReceive, driverVars, masterVars, slaveVars, sketchVars, seenVars, HwVars,
         wireVars, DriverTypeOK, States, MasterTypeOK, Buffers, SlaveTypeOK, SketchTypeOK,
         WireTypeOK, PlaceInv, Unread
<1>2. UNCHANGED twi_inRepStart
  BY DEF HwReceive, driverVars, masterVars, slaveVars, sketchVars, seenVars, HwVars
<1>3. HwTypeOK' /\ StatusInv'
  BY <1>2, HwReceiveHw, NoneIsApart
  DEF TypeInv, DriverTypeOK, HwTypeOK, StatusInv, Statuses, GoesOn, GivesUp, Repeats, Raises,
      RaisesWith, Becomes, Has
<1>4. SeenTypeOK'
  BY BufferAssumption
  DEF TypeInv, HwReceive, SeenTypeOK, driverVars, masterVars, slaveVars, sketchVars, seenVars,
      HwVars
<1> QED BY <1>1, <1>3, <1>4 DEF TypeInv

LEMMA HwBusErrorTypes ==
    ASSUME TypeInv, HwBusError, UNCHANGED wireVars
    PROVE  TypeInv'
<1>1. DriverTypeOK' /\ MasterTypeOK' /\ SlaveTypeOK' /\ SketchTypeOK' /\ SeenTypeOK'
      /\ WireTypeOK' /\ PlaceInv'
  BY DEF TypeInv, HwBusError, driverVars, masterVars, slaveVars, sketchVars, seenVars, HwVars,
         wireVars, DriverTypeOK, States, MasterTypeOK, Buffers, SlaveTypeOK, SketchTypeOK,
         SeenTypeOK, WireTypeOK, PlaceInv, Unread
<1>2. UNCHANGED twi_inRepStart
  BY DEF HwBusError, driverVars, masterVars, slaveVars, sketchVars, seenVars, HwVars
<1>3. HwTypeOK' /\ StatusInv'
  BY <1>2, HwBusErrorHw, NoneIsApart
  DEF TypeInv, DriverTypeOK, HwTypeOK, StatusInv, Statuses, GoesOn, GivesUp, Repeats, Raises,
      RaisesWith, Becomes, Has
<1> QED BY <1>1, <1>3 DEF TypeInv

LEMMA ArbitrationLostTypes ==
    ASSUME TypeInv, ArbitrationLost, UNCHANGED wireVars
    PROVE  TypeInv'
<1>1. UNCHANGED <<HwVars, peer, nacked>>
  BY DEF ArbitrationLost
<1>2. DriverTypeOK' /\ MasterTypeOK' /\ SlaveTypeOK' /\ SketchTypeOK' /\ WireTypeOK' /\ PlaceInv'
  BY <1>1
  DEF TypeInv, HwVars, driverVars, masterVars, slaveVars, sketchVars, wireVars, DriverTypeOK,
      States, MasterTypeOK, Buffers, SlaveTypeOK, SketchTypeOK, WireTypeOK, PlaceInv, Unread
<1>3. HwTypeOK' /\ StatusInv'
  BY <1>1, ArbitrationLostHw, NoneIsApart
  DEF TypeInv, HwVars, driverVars, HwTypeOK, StatusInv, Statuses, Raises, Becomes, Has
<1>4. <<>> \in Seq(Byte) /\ Len(<<>>) = 0
  OBVIOUS
<1>5. heard' = heard \/ heard' = <<>>
  BY ArbitrationLostHw
<1>6. SeenTypeOK'
  <2>1. heard' \in Seq(Byte) /\ Len(heard') <= BufferLength
    <3>1. CASE heard' = heard
      BY <3>1 DEF TypeInv, SeenTypeOK
    <3>2. CASE heard' = <<>>
      BY <1>4, <3>2, BufferAssumption
    <3> QED BY <1>5, <3>1, <3>2
  <2> QED BY <1>1, <2>1 DEF TypeInv, SeenTypeOK
<1> QED BY <1>2, <1>3, <1>6 DEF TypeInv

LEMMA OtherSeizesTypes ==
    ASSUME TypeInv, OtherSeizes, UNCHANGED wireVars
    PROVE  TypeInv'
<1>1. DriverTypeOK' /\ MasterTypeOK' /\ SlaveTypeOK' /\ SketchTypeOK' /\ SeenTypeOK'
      /\ WireTypeOK' /\ PlaceInv'
  BY DEF TypeInv, OtherSeizes, driverVars, masterVars, slaveVars, sketchVars, seenVars, HwVars,
         wireVars, DriverTypeOK, States, MasterTypeOK, Buffers, SlaveTypeOK, SketchTypeOK,
         SeenTypeOK, WireTypeOK, PlaceInv, Unread
<1>2. UNCHANGED twi_inRepStart
  BY DEF OtherSeizes, driverVars, masterVars, slaveVars, sketchVars, seenVars, HwVars
<1>3. HwTypeOK' /\ StatusInv'
  BY <1>2, OtherSeizesHw, NoneIsApart
  DEF TypeInv, DriverTypeOK, HwTypeOK, StatusInv, Statuses, GoesOn, GivesUp, Repeats, Raises,
      RaisesWith, Becomes, Has
<1> QED BY <1>1, <1>3 DEF TypeInv

LEMMA OtherReleasesTypes ==
    ASSUME TypeInv, OtherReleases, UNCHANGED wireVars
    PROVE  TypeInv'
<1>1. DriverTypeOK' /\ MasterTypeOK' /\ SlaveTypeOK' /\ SketchTypeOK' /\ SeenTypeOK'
      /\ WireTypeOK' /\ PlaceInv'
  BY DEF TypeInv, OtherReleases, driverVars, masterVars, slaveVars, sketchVars, seenVars, HwVars,
         wireVars, DriverTypeOK, States, MasterTypeOK, Buffers, SlaveTypeOK, SketchTypeOK,
         SeenTypeOK, WireTypeOK, PlaceInv, Unread
<1>2. UNCHANGED twi_inRepStart
  BY DEF OtherReleases, driverVars, masterVars, slaveVars, sketchVars, seenVars, HwVars
<1>3. HwTypeOK' /\ StatusInv'
  BY <1>2, OtherSeizesHw, NoneIsApart
  DEF TypeInv, DriverTypeOK, HwTypeOK, StatusInv, Statuses, GoesOn, GivesUp, Repeats, Raises,
      RaisesWith, Becomes, Has
<1> QED BY <1>1, <1>3 DEF TypeInv

LEMMA OtherAddressesTypes ==
    ASSUME TypeInv, OtherAddresses, UNCHANGED wireVars
    PROVE  TypeInv'
<1>1. DriverTypeOK' /\ MasterTypeOK' /\ SlaveTypeOK' /\ SketchTypeOK' /\ WireTypeOK' /\ PlaceInv'
  BY DEF TypeInv, OtherAddresses, driverVars, masterVars, slaveVars, sketchVars, seenVars,
         HwVars, wireVars, DriverTypeOK, States, MasterTypeOK, Buffers, SlaveTypeOK,
         SketchTypeOK, WireTypeOK, PlaceInv, Unread
<1>2. UNCHANGED twi_inRepStart
  BY DEF OtherAddresses, driverVars, masterVars, slaveVars, sketchVars, seenVars, HwVars
<1>3. HwTypeOK' /\ StatusInv'
  BY <1>2, OtherAddressesHw, NoneIsApart
  DEF TypeInv, DriverTypeOK, HwTypeOK, StatusInv, Statuses, GoesOn, GivesUp, Repeats, Raises,
      RaisesWith, Becomes, Has
<1>4. SeenTypeOK'
  BY BufferAssumption
  DEF TypeInv, OtherAddresses, SeenTypeOK, driverVars, masterVars, slaveVars, sketchVars,
      seenVars, HwVars
<1> QED BY <1>1, <1>3, <1>4 DEF TypeInv

LEMMA OtherSendsTypes ==
    ASSUME TypeInv, OtherSends, UNCHANGED wireVars
    PROVE  TypeInv'
<1>1. DriverTypeOK' /\ MasterTypeOK' /\ SlaveTypeOK' /\ SketchTypeOK' /\ WireTypeOK' /\ PlaceInv'
  BY DEF TypeInv, OtherSends, driverVars, masterVars, slaveVars, sketchVars, seenVars, HwVars,
         wireVars, DriverTypeOK, States, MasterTypeOK, Buffers, SlaveTypeOK, SketchTypeOK,
         WireTypeOK, PlaceInv, Unread
<1>2. UNCHANGED twi_inRepStart
  BY DEF OtherSends, driverVars, masterVars, slaveVars, sketchVars, seenVars, HwVars
<1>3. HwTypeOK' /\ StatusInv'
  BY <1>2, OtherSendsHw, NoneIsApart
  DEF TypeInv, DriverTypeOK, HwTypeOK, StatusInv, Statuses, GoesOn, GivesUp, Repeats, Raises,
      RaisesWith, Becomes, Has
<1>4. SeenTypeOK'
  BY BufferAssumption
  DEF TypeInv, OtherSends, SeenTypeOK, driverVars, masterVars, slaveVars, sketchVars, seenVars,
      HwVars
<1> QED BY <1>1, <1>3, <1>4 DEF TypeInv

LEMMA OtherStopsTypes ==
    ASSUME TypeInv, OtherStops, UNCHANGED wireVars
    PROVE  TypeInv'
<1>1. DriverTypeOK' /\ MasterTypeOK' /\ SlaveTypeOK' /\ SketchTypeOK' /\ SeenTypeOK'
      /\ WireTypeOK' /\ PlaceInv'
  BY DEF TypeInv, OtherStops, driverVars, masterVars, slaveVars, sketchVars, seenVars, HwVars,
         wireVars, DriverTypeOK, States, MasterTypeOK, Buffers, SlaveTypeOK, SketchTypeOK,
         SeenTypeOK, WireTypeOK, PlaceInv, Unread
<1>2. UNCHANGED twi_inRepStart
  BY DEF OtherStops, driverVars, masterVars, slaveVars, sketchVars, seenVars, HwVars
<1>3. HwTypeOK' /\ StatusInv'
  BY <1>2, OtherStopsHw, NoneIsApart
  DEF TypeInv, DriverTypeOK, HwTypeOK, StatusInv, Statuses, GoesOn, GivesUp, Repeats, Raises,
      RaisesWith, Becomes, Has
<1> QED BY <1>1, <1>3 DEF TypeInv

LEMMA OtherTakesTypes ==
    ASSUME TypeInv, OtherTakes, UNCHANGED wireVars
    PROVE  TypeInv'
<1>1. DriverTypeOK' /\ MasterTypeOK' /\ SlaveTypeOK' /\ SketchTypeOK' /\ SeenTypeOK'
      /\ WireTypeOK' /\ PlaceInv'
  BY DEF TypeInv, OtherTakes, driverVars, masterVars, slaveVars, sketchVars, seenVars, HwVars,
         wireVars, DriverTypeOK, States, MasterTypeOK, Buffers, SlaveTypeOK, SketchTypeOK,
         SeenTypeOK, WireTypeOK, PlaceInv, Unread
<1>2. UNCHANGED twi_inRepStart
  BY DEF OtherTakes, driverVars, masterVars, slaveVars, sketchVars, seenVars, HwVars
<1>3. HwTypeOK' /\ StatusInv'
  BY <1>2, OtherTakesHw, NoneIsApart
  DEF TypeInv, DriverTypeOK, HwTypeOK, StatusInv, Statuses, GoesOn, GivesUp, Repeats, Raises,
      RaisesWith, Becomes, Has
<1> QED BY <1>1, <1>3 DEF TypeInv


-----------------------------------------------------------------------------
\* What the calls of the sketch are made of.

\* The least and the greatest of two numbers.
LEMMA MinIs ==
    ASSUME NEW a \in Int, NEW b \in Int
    PROVE  Min({a, b}) = IF a <= b THEN a ELSE b
<1> DEFINE m == IF a <= b THEN a ELSE b
<1>1. m \in {a, b} /\ \A y \in {a, b} : m <= y
  OBVIOUS
<1>2. \A x \in {a, b} : (\A y \in {a, b} : x <= y) => x = m
  OBVIOUS
<1> HIDE DEF m
<1>3. Min({a, b}) = m
  BY <1>1, <1>2 DEF Min
<1> QED BY <1>3 DEF m

LEMMA MaxIs ==
    ASSUME NEW a \in Int, NEW b \in Int
    PROVE  Max({a, b}) = IF a >= b THEN a ELSE b
<1> DEFINE m == IF a >= b THEN a ELSE b
<1>1. m \in {a, b} /\ \A y \in {a, b} : m >= y
  OBVIOUS
<1>2. \A x \in {a, b} : (\A y \in {a, b} : x >= y) => x = m
  OBVIOUS
<1> HIDE DEF m
<1>3. Max({a, b}) = m
  BY <1>1, <1>2 DEF Max
<1> QED BY <1>3 DEF m

\* A part of a sequence of bytes.
LEMMA SubSeqType ==
    ASSUME NEW s \in Seq(Byte), NEW m \in Nat \ {0}, NEW n \in 0 .. Len(s)
    PROVE  /\ SubSeq(s, m, n) \in Seq(Byte)
           /\ Len(SubSeq(s, m, n)) = IF m <= n THEN n - m + 1 ELSE 0
           /\ \A k \in 1 .. n - m + 1 : SubSeq(s, m, n)[k] = s[m + k - 1]
<1>1. m \in Int /\ n \in Int /\ \A k \in m .. n : s[k] \in Byte
  BY ElementOfSeq
<1> QED BY <1>1, SubSeqProperties

\* What is sent of a register address fits into the buffer.
LEMMA InternalType ==
    ASSUME NEW r \in Registers
    PROVE  Internal(r) \in Seq(Byte) /\ Len(Internal(r)) \in 0 .. BufferLength
<1>1. r \in Seq(Byte) /\ Len(r) \in Nat /\ InternalSize \in 0 .. BufferLength /\ BufferLength \in Nat
  BY WireAssumption, BufferAssumption
<1>2. PICK m : m = Max({1, Len(r) - InternalSize + 1})
  OBVIOUS
<1>3. m \in Nat \ {0} /\ m >= Len(r) - InternalSize + 1
  BY <1>1, <1>2, MaxIs
<1>4. SubSeq(r, m, Len(r)) \in Seq(Byte)
      /\ Len(SubSeq(r, m, Len(r))) = IF m <= Len(r) THEN Len(r) - m + 1 ELSE 0
  BY <1>1, <1>3, SubSeqType
<1>5. Len(SubSeq(r, m, Len(r))) \in 0 .. BufferLength
  BY <1>1, <1>3, <1>4
<1> QED BY <1>2, <1>4, <1>5 DEF Internal

\* A buffer with bytes from its start is a buffer.
LEMMA OverlayIs ==
    ASSUME NEW buffer \in Buffers, NEW data \in Seq(Byte)
    PROVE  /\ Overlay(buffer, data) \in Buffers
           /\ \A k \in BufferSlots :
                 Overlay(buffer, data)[k] = IF k < Len(data) THEN data[k + 1] ELSE buffer[k]
<1>1. ASSUME NEW k \in BufferSlots
      PROVE  (IF k < Len(data) THEN data[k + 1] ELSE buffer[k]) \in Byte
  <2>1. k \in Nat /\ Len(data) \in Nat
    BY BufferAssumption DEF BufferSlots
  <2>2. CASE k < Len(data)
    <3>1. k + 1 \in 1 .. Len(data)
      BY <2>1, <2>2
    <3>2. data[k + 1] \in Byte
      BY <3>1, ElementOfSeq
    <3> QED BY <2>2, <3>2
  <2>3. CASE ~ (k < Len(data))
    BY <2>3 DEF Buffers
  <2> QED BY <2>2, <2>3
<1> QED BY <1>1 DEF Overlay, Buffers

\* Both calls get what fits, and begin the same.
LEMMA NewCallIs ==
    ASSUME NEW op, NEW length \in 0 .. BufferLength, NEW stop, NEW refusal,
           NewCall(op, length, stop, refusal)
    PROVE  /\ pc = "idle" /\ pc' = "ready" /\ ~ (hw.twint # None /\ hw.twie)
           /\ call' = [op |-> op, length |-> length, stop |-> stop]
           /\ peer' = <<>> /\ nacked' = "none" /\ result' = NoResult
           /\ UNCHANGED <<driverVars, masterVars, slaveVars, hw, heard>>
<1>1. ~ (length > BufferLength)
  BY BufferAssumption
<1> QED BY <1>1 DEF NewCall, At

\* The result of a read: as many bytes as came, up to what was asked for.
LEMMA ReturnReadIs ==
    ASSUME TypeInv, ReturnRead
    PROVE  /\ pc = "wait" /\ call.op = "read" /\ twi_state # "MRX" /\ pc' = "idle" /\ call' = NoCall
           /\ ~ (hw.twint # None /\ hw.twie)
           /\ UNCHANGED <<driverVars, masterVars, slaveVars, hw, seenVars>>
           /\ result' \in [code: 0 .. BufferLength, data: Seq(Byte)]
           /\ result'.code = IF masterIndex < call.length THEN masterIndex ELSE call.length
           /\ Len(result'.data) = result'.code
           /\ \A k \in 1 .. result'.code : result'.data[k] = masterBuffer[k - 1]
<1> DEFINE n == IF masterIndex < call.length THEN masterIndex ELSE call.length
           data == [k \in 1 .. n |-> masterBuffer[k - 1]]
<1>1. /\ pc = "wait" /\ call.op = "read" /\ twi_state # "MRX" /\ pc' = "idle" /\ call' = NoCall
      /\ ~ (hw.twint # None /\ hw.twie)
      /\ UNCHANGED <<driverVars, masterVars, slaveVars, hw, seenVars>>
      /\ result' = [code |-> n, data |-> data]
  BY DEF ReturnRead, At
<1>2. masterIndex \in Nat /\ call.length \in 0 .. BufferLength /\ masterBuffer \in Buffers
  BY <1>1, BufferAssumption DEF TypeInv, MasterTypeOK, SketchTypeOK
<1>3. n \in 0 .. BufferLength
  BY <1>2, BufferAssumption
<1> HIDE DEF n
<1>4. \A k \in 1 .. n : masterBuffer[k - 1] \in Byte
  BY <1>2, <1>3, BufferAssumption DEF Buffers, BufferSlots
<1>5. data \in Seq(Byte) /\ Len(data) = n /\ \A k \in 1 .. n : data[k] = masterBuffer[k - 1]
  BY <1>3, <1>4
<1> HIDE DEF data
<1> QED BY <1>1, <1>3, <1>5 DEF n

\* Nothing of the driver is touched.
LEMMA DriverTypesKept ==
    ASSUME TypeInv, UNCHANGED <<driverVars, masterVars, slaveVars, hw>>
    PROVE  DriverTypeOK' /\ MasterTypeOK' /\ SlaveTypeOK' /\ HwTypeOK' /\ StatusInv'
BY DEF TypeInv, driverVars, masterVars, slaveVars, DriverTypeOK, States, MasterTypeOK, Buffers,
       SlaveTypeOK, HwTypeOK, StatusInv

\* Nothing the sketch has given to the driver, or got of it.
LEMMA SketchTypesKept ==
    ASSUME TypeInv, UNCHANGED <<sketchVars, seenVars>>
    PROVE  SketchTypeOK' /\ SeenTypeOK'
BY DEF TypeInv, sketchVars, seenVars, SketchTypeOK, SeenTypeOK

\* A call begins, or its result is forgotten.
LEMMA CallTypes ==
    ASSUME TypeInv, NEW op \in {"write", "read"}, NEW length \in 0 .. BufferLength, NEW stop \in BOOLEAN,
           op = "read" => length # 0,
           pc' = "ready", call' = [op |-> op, length |-> length, stop |-> stop],
           peer' = <<>>, nacked' = "none", result' = NoResult, UNCHANGED heard
    PROVE  SketchTypeOK' /\ SeenTypeOK'
<1>1. <<>> \in Seq(Byte)
  OBVIOUS
<1>2. result' \in [code: Nat \cup {None}, data: Seq(Byte)] /\ result'.code = None
  BY <1>1 DEF NoResult
<1>3. call' \in [op: {"none", "write", "read"}, length: Nat, stop: BOOLEAN]
      /\ call'.op = op /\ call'.length = length
  BY BufferAssumption
<1>4. length <= BufferLength
  BY BufferAssumption
<1>5. SketchTypeOK'
  BY <1>2, <1>3, <1>4 DEF SketchTypeOK
<1> QED BY <1>1, <1>5 DEF TypeInv, SeenTypeOK

LEMMA ForgetTypes ==
    ASSUME TypeInv, Forget
    PROVE  DriverTypeOK' /\ MasterTypeOK' /\ SlaveTypeOK' /\ HwTypeOK' /\ StatusInv'
           /\ SketchTypeOK' /\ SeenTypeOK'
<1>1. <<>> \in Seq(Byte)
  OBVIOUS
<1>2. result' \in [code: Nat \cup {None}, data: Seq(Byte)] /\ result'.code = None
  BY <1>1 DEF Forget, NoResult
<1>3. UNCHANGED <<driverVars, masterVars, slaveVars, hw, pc, call, heard>>
      /\ peer' = <<>> /\ nacked' = "none"
  BY DEF Forget
<1>4. SketchTypeOK' /\ SeenTypeOK'
  BY <1>1, <1>2, <1>3 DEF TypeInv, SketchTypeOK, SeenTypeOK
<1> QED BY <1>3, <1>4, DriverTypesKept

-----------------------------------------------------------------------------
\* The calls of the sketch, and the callbacks, keep the types.

LEMMA BeginTransmissionTypes ==
    ASSUME TypeInv, BeginTransmission
    PROVE  TypeInv'
<1>1. UNCHANGED twiVars
  BY DEF BeginTransmission
<1>2. DriverTypeOK' /\ MasterTypeOK' /\ SlaveTypeOK' /\ HwTypeOK' /\ StatusInv' /\ SketchTypeOK'
      /\ SeenTypeOK'
  BY <1>1, DriverTypesKept, SketchTypesKept
  DEF twiVars, driverVars, masterVars, slaveVars, sketchVars, seenVars
<1>3. wireTx' \in [buffer: Buffers, length: 0 .. BufferLength]
  BY BufferAssumption DEF BeginTransmission, TypeInv, WireTypeOK
<1>4. WireTypeOK'
  BY <1>3 DEF BeginTransmission, TypeInv, WireTypeOK, Buffers
<1>5. PlaceInv'
  BY <1>1 DEF BeginTransmission, InSketch, TypeInv, PlaceInv, Unread, twiVars
<1> QED BY <1>2, <1>4, <1>5 DEF TypeInv

LEMMA WriteTypes ==
    ASSUME TypeInv, Write
    PROVE  TypeInv'
<1>1. UNCHANGED <<twiVars, wireRx, transmitting, step, request, due>>
  BY DEF Write
<1>2. DriverTypeOK' /\ MasterTypeOK' /\ SlaveTypeOK' /\ HwTypeOK' /\ StatusInv' /\ SketchTypeOK'
      /\ SeenTypeOK'
  BY <1>1, DriverTypesKept, SketchTypesKept
  DEF twiVars, driverVars, masterVars, slaveVars, sketchVars, seenVars
<1>3. wireTx' \in [buffer: Buffers, length: 0 .. BufferLength]
  <2>1. PICK b \in Bytes : wireTx' = [buffer |-> [wireTx.buffer EXCEPT ![wireTx.length] = b],
                                      length |-> wireTx.length + 1]
    BY DEF Write
  <2>2. wireTx.length \in 0 .. BufferLength /\ wireTx.length < BufferLength
        /\ wireTx.buffer \in Buffers
    BY DEF Write, TypeInv, WireTypeOK
  <2>3. b \in Byte
    BY WireAssumption
  <2>4. [wireTx.buffer EXCEPT ![wireTx.length] = b] \in Buffers
    BY <2>2, <2>3 DEF Buffers
  <2> QED BY <2>1, <2>2, <2>4, BufferAssumption
<1>4. WireTypeOK'
  BY <1>1, <1>3 DEF TypeInv, WireTypeOK, Buffers
<1>5. PlaceInv'
  BY <1>1 DEF TypeInv, PlaceInv, Unread, twiVars
<1> QED BY <1>2, <1>4, <1>5 DEF TypeInv

LEMMA EndTransmissionIs ==
    ASSUME TypeInv, EndTransmission
    PROVE  /\ step = "idle" /\ step' = "ending" /\ transmitting
           /\ pc = "idle" /\ pc' = "ready" /\ ~ (hw.twint # None /\ hw.twie)
           /\ \E stop \in BOOLEAN : call' = [op |-> "write", length |-> wireTx.length, stop |-> stop]
           /\ peer' = <<>> /\ nacked' = "none" /\ result' = NoResult
           /\ UNCHANGED <<driverVars, masterVars, slaveVars, hw, heard>>
           /\ UNCHANGED <<wireRx, wireTx, transmitting, request, due>>
<1>1. PICK stop \in Stops : NewCall("write", wireTx.length, stop, 1)
  BY DEF EndTransmission, twi_writeTo
<1>2. stop \in BOOLEAN /\ wireTx.length \in 0 .. BufferLength
  BY WireAssumption DEF TypeInv, WireTypeOK
<1> QED BY <1>1, <1>2, NewCallIs DEF EndTransmission, InSketch

LEMMA EndTransmissionTypes ==
    ASSUME TypeInv, EndTransmission
    PROVE  TypeInv'
<1>1. wireTx.length \in 0 .. BufferLength /\ "write" # "read"
  BY DEF TypeInv, WireTypeOK
<1>2. SketchTypeOK' /\ SeenTypeOK'
  BY <1>1, EndTransmissionIs, CallTypes
<1>3. WireTypeOK'
  BY EndTransmissionIs DEF TypeInv, WireTypeOK, Buffers
<1>4. PlaceInv'
  BY EndTransmissionIs DEF TypeInv, PlaceInv
<1> QED BY <1>2, <1>3, <1>4, EndTransmissionIs, DriverTypesKept DEF TypeInv

LEMMA EndedTypes ==
    ASSUME TypeInv, Ended
    PROVE  TypeInv'
<1>1. /\ Forget /\ step' = "idle" /\ pc = "idle" /\ pc' = pc
      /\ transmitting' = FALSE /\ wireTx' = [wireTx EXCEPT !.length = 0]
      /\ UNCHANGED <<wireRx, request, due>>
  BY DEF Ended, InSketch, At, DoneTransmitting, Forget
<1>2. wireTx' \in [buffer: Buffers, length: 0 .. BufferLength]
  BY <1>1, BufferAssumption DEF TypeInv, WireTypeOK
<1>3. WireTypeOK'
  BY <1>1, <1>2 DEF TypeInv, WireTypeOK, Buffers
<1>4. PlaceInv'
  BY <1>1 DEF PlaceInv
<1> QED BY <1>1, <1>3, <1>4, ForgetTypes DEF TypeInv

\* requestFrom() begins with the read, or with a write of the register address.
LEMMA RequestFromIs ==
    ASSUME TypeInv, RequestFrom
    PROVE  /\ step = "idle" /\ ~ transmitting
           /\ pc = "idle" /\ pc' = "ready" /\ ~ (hw.twint # None /\ hw.twie)
           /\ request' \in [quantity: 1 .. BufferLength, stop: BOOLEAN, acked: BOOLEAN]
           /\ ~ request'.acked
           /\ peer' = <<>> /\ nacked' = "none" /\ result' = NoResult
           /\ UNCHANGED <<driverVars, masterVars, slaveVars, hw, heard, wireRx, due>>
           /\ \/ /\ step' = "request" /\ UNCHANGED <<wireTx, transmitting>>
                 /\ call' = [op |-> "read", length |-> request'.quantity, stop |-> request'.stop]
              \/ /\ step' = "register" /\ transmitting' = TRUE
                 /\ wireTx' \in [buffer: Buffers, length: 0 .. BufferLength]
                 /\ call' = [op |-> "write", length |-> wireTx'.length, stop |-> FALSE]
<1>1. PICK q \in Quantities, r \in Registers, stop \in Stops :
         /\ request' = [quantity |-> Min({q, BufferLength}), stop |-> stop, acked |-> FALSE]
         /\ IF r = <<>>
            THEN /\ twi_readFrom(request'.quantity, stop)
                 /\ step' = "request"
                 /\ UNCHANGED <<wireTx, transmitting>>
            ELSE /\ transmitting' = TRUE
                 /\ wireTx' = [buffer |-> Overlay(wireTx.buffer, Internal(r)),
                               length |-> Len(Internal(r))]
                 /\ twi_writeTo(Len(Internal(r)), FALSE)
                 /\ step' = "register"
  BY DEF RequestFrom
<1>2. step = "idle" /\ ~ transmitting /\ UNCHANGED <<wireRx, due>>
  BY DEF RequestFrom, InSketch
<1>3. stop \in BOOLEAN /\ q \in Nat \ {0}
  BY WireAssumption, BufferAssumption
<1>4. Min({q, BufferLength}) \in 1 .. BufferLength
  BY <1>3, MinIs, BufferAssumption
<1>5. /\ request' \in [quantity: 1 .. BufferLength, stop: BOOLEAN, acked: BOOLEAN]
      /\ request'.stop = stop /\ ~ request'.acked
  BY <1>1, <1>3, <1>4
<1>6. CASE r = <<>>
  <2>1. NewCall("read", request'.quantity, stop, 0) /\ request'.quantity \in 0 .. BufferLength
    BY <1>1, <1>5, <1>6, BufferAssumption DEF twi_readFrom
  <2>2. step' = "request" /\ UNCHANGED <<wireTx, transmitting>>
    BY <1>1, <1>6
  <2>3. /\ pc = "idle" /\ pc' = "ready" /\ ~ (hw.twint # None /\ hw.twie)
        /\ call' = [op |-> "read", length |-> request'.quantity, stop |-> stop]
        /\ peer' = <<>> /\ nacked' = "none" /\ result' = NoResult
        /\ UNCHANGED <<driverVars, masterVars, slaveVars, hw, heard>>
    BY <2>1, NewCallIs
  <2> QED BY <1>2, <1>3, <1>5, <2>2, <2>3
<1>7. CASE r # <<>>
  <2>1. /\ NewCall("write", Len(Internal(r)), FALSE, 1)
        /\ Internal(r) \in Seq(Byte) /\ Len(Internal(r)) \in 0 .. BufferLength
    BY <1>1, <1>7, InternalType DEF twi_writeTo
  <2>2. /\ step' = "register" /\ transmitting' = TRUE
        /\ wireTx' = [buffer |-> Overlay(wireTx.buffer, Internal(r)), length |-> Len(Internal(r))]
    BY <1>1, <1>7
  <2>3. wireTx.buffer \in Buffers
    BY DEF TypeInv, WireTypeOK
  <2>4. wireTx' \in [buffer: Buffers, length: 0 .. BufferLength] /\ wireTx'.length = Len(Internal(r))
    BY <2>1, <2>2, <2>3, OverlayIs
  <2>5. /\ pc = "idle" /\ pc' = "ready" /\ ~ (hw.twint # None /\ hw.twie)
        /\ call' = [op |-> "write", length |-> wireTx'.length, stop |-> FALSE]
        /\ peer' = <<>> /\ nacked' = "none" /\ result' = NoResult
        /\ UNCHANGED <<driverVars, masterVars, slaveVars, hw, heard>>
    BY <2>1, <2>4, NewCallIs
  <2> QED BY <1>2, <1>3, <1>5, <2>2, <2>4, <2>5
<1> QED BY <1>6, <1>7

LEMMA RequestFromTypes ==
    ASSUME TypeInv, RequestFrom
    PROVE  TypeInv'
<1>1. /\ step = "idle" /\ pc' = "ready"
      /\ request' \in [quantity: 1 .. BufferLength, stop: BOOLEAN, acked: BOOLEAN]
      /\ peer' = <<>> /\ nacked' = "none" /\ result' = NoResult
      /\ UNCHANGED <<driverVars, masterVars, slaveVars, hw, heard, wireRx, due>>
  BY RequestFromIs
<1>2. request' \in [quantity: 0 .. BufferLength, stop: BOOLEAN, acked: BOOLEAN]
  BY <1>1, BufferAssumption
<1>3. CASE /\ step' = "request" /\ UNCHANGED <<wireTx, transmitting>>
           /\ call' = [op |-> "read", length |-> request'.quantity, stop |-> request'.stop]
  <2>1. SketchTypeOK' /\ SeenTypeOK'
    <3>1. request'.quantity \in 0 .. BufferLength /\ request'.quantity # 0
          /\ request'.stop \in BOOLEAN
      BY <1>1, BufferAssumption
    <3> QED BY <1>1, <1>3, <3>1, CallTypes
  <2>2. WireTypeOK'
    BY <1>1, <1>2, <1>3 DEF TypeInv, WireTypeOK, Buffers
  <2>3. PlaceInv'
    BY <1>1, <1>3 DEF PlaceInv
  <2> QED BY <1>1, <2>1, <2>2, <2>3, DriverTypesKept DEF TypeInv
<1>4. CASE /\ step' = "register" /\ transmitting' = TRUE
           /\ wireTx' \in [buffer: Buffers, length: 0 .. BufferLength]
           /\ call' = [op |-> "write", length |-> wireTx'.length, stop |-> FALSE]
  <2>1. wireTx'.length \in 0 .. BufferLength /\ FALSE \in BOOLEAN /\ "write" # "read"
    BY <1>4
  <2>2. SketchTypeOK' /\ SeenTypeOK'
    BY <1>1, <1>4, <2>1, CallTypes
  <2>3. WireTypeOK'
    BY <1>1, <1>2, <1>4 DEF TypeInv, WireTypeOK, Buffers
  <2>4. PlaceInv'
    BY <1>1, <1>4 DEF PlaceInv
  <2> QED BY <1>1, <2>2, <2>3, <2>4, DriverTypesKept DEF TypeInv
<1> QED BY <1>3, <1>4, RequestFromIs

LEMMA RegisterSentIs ==
    ASSUME TypeInv, RegisterSent
    PROVE  /\ step = "register" /\ step' = "request"
           /\ pc = "idle" /\ pc' = "ready" /\ ~ (hw.twint # None /\ hw.twie)
           /\ call' = [op |-> "read", length |-> request.quantity, stop |-> request.stop]
           /\ peer' = <<>> /\ nacked' = "none" /\ result' = NoResult
           /\ UNCHANGED <<driverVars, masterVars, slaveVars, hw, heard, wireRx, due>>
           /\ wireTx' = [wireTx EXCEPT !.length = 0] /\ transmitting' = FALSE
           /\ request' = [request EXCEPT !.acked = result.code = 0]
<1>1. /\ step = "register" /\ step' = "request" /\ UNCHANGED <<wireRx, due>>
      /\ wireTx' = [wireTx EXCEPT !.length = 0] /\ transmitting' = FALSE
      /\ NewCall("read", request.quantity, request.stop, 0)
      /\ request' = [request EXCEPT !.acked = result.code = 0]
  BY DEF RegisterSent, InSketch, DoneTransmitting, twi_readFrom
<1>2. request.quantity \in 0 .. BufferLength
  BY DEF TypeInv, WireTypeOK
<1> QED BY <1>1, <1>2, NewCallIs

LEMMA RegisterSentTypes ==
    ASSUME TypeInv, RegisterSent
    PROVE  TypeInv'
<1>1. request.quantity \in 0 .. BufferLength /\ request.quantity # 0 /\ request.stop \in BOOLEAN
  BY RegisterSentIs DEF TypeInv, WireTypeOK, PlaceInv
<1>2. SketchTypeOK' /\ SeenTypeOK'
  BY <1>1, RegisterSentIs, CallTypes
<1>3. wireTx' \in [buffer: Buffers, length: 0 .. BufferLength]
  <2>1. wireTx' = [wireTx EXCEPT !.length = 0] /\ 0 \in 0 .. BufferLength
    BY RegisterSentIs, BufferAssumption
  <2> QED BY <2>1 DEF TypeInv, WireTypeOK
<1>4. request' \in [quantity: 0 .. BufferLength, stop: BOOLEAN, acked: BOOLEAN]
  BY RegisterSentIs DEF TypeInv, WireTypeOK
<1>5. WireTypeOK'
  BY <1>3, <1>4, RegisterSentIs DEF TypeInv, WireTypeOK, Buffers
<1>6. PlaceInv'
  BY RegisterSentIs DEF PlaceInv
<1> QED BY <1>2, <1>5, <1>6, RegisterSentIs, DriverTypesKept DEF TypeInv

LEMMA RequestCopiedIs ==
    ASSUME TypeInv, RequestCopied
    PROVE  /\ ReturnRead /\ step = "request" /\ step' = "copied"
           /\ UNCHANGED <<wireTx, transmitting, request, due>>
           /\ wireRx' \in [buffer: Buffers, index: 0 .. BufferLength, length: 0 .. BufferLength]
           /\ wireRx'.index = wireRx.index /\ wireRx'.length = wireRx.length
           /\ \A k \in 1 .. result'.code : wireRx'.buffer[k - 1] = masterBuffer[k - 1]
<1>1. /\ ReturnRead /\ step = "request" /\ step' = "copied"
      /\ UNCHANGED <<wireTx, transmitting, request, due>>
      /\ wireRx' = [wireRx EXCEPT !.buffer = Overlay(wireRx.buffer, result'.data)]
  BY DEF RequestCopied
<1>2. wireRx \in [buffer: Buffers, index: 0 .. BufferLength, length: 0 .. BufferLength]
  BY DEF TypeInv, WireTypeOK
<1>3. result'.data \in Seq(Byte) /\ result'.code \in 0 .. BufferLength
      /\ Len(result'.data) = result'.code
      /\ \A k \in 1 .. result'.code : result'.data[k] = masterBuffer[k - 1]
  BY <1>1, ReturnReadIs
<1>4. Overlay(wireRx.buffer, result'.data) \in Buffers
      /\ \A k \in BufferSlots : Overlay(wireRx.buffer, result'.data)[k] =
            IF k < result'.code THEN result'.data[k + 1] ELSE wireRx.buffer[k]
  BY <1>2, <1>3, OverlayIs
<1>5. ASSUME NEW k \in 1 .. result'.code
      PROVE  wireRx'.buffer[k - 1] = masterBuffer[k - 1]
  <2>1. k - 1 \in BufferSlots /\ k - 1 < result'.code /\ k - 1 + 1 = k
    BY <1>3, BufferAssumption DEF BufferSlots
  <2>2. wireRx'.buffer = Overlay(wireRx.buffer, result'.data)
    BY <1>1, <1>2
  <2>3. wireRx'.buffer[k - 1] = result'.data[k - 1 + 1]
    BY <1>4, <2>1, <2>2
  <2> QED BY <1>3, <2>1, <2>3
<1> QED BY <1>1, <1>2, <1>4, <1>5

LEMMA RequestCopiedTypes ==
    ASSUME TypeInv, RequestCopied
    PROVE  TypeInv'
<1>1. /\ pc' = "idle" /\ call' = NoCall
      /\ UNCHANGED <<driverVars, masterVars, slaveVars, hw, seenVars>>
      /\ result' \in [code: 0 .. BufferLength, data: Seq(Byte)]
  BY RequestCopiedIs, ReturnReadIs
<1>2. SketchTypeOK'
  <2>1. result'.code <= BufferLength /\ result' \in [code: Nat \cup {None}, data: Seq(Byte)]
    BY <1>1, BufferAssumption
  <2>2. call' \in [op: {"none", "write", "read"}, length: Nat, stop: BOOLEAN] /\ call'.op = "none"
    BY <1>1 DEF NoCall
  <2> QED BY <1>1, <2>1, <2>2 DEF SketchTypeOK
<1>3. SeenTypeOK'
  BY <1>1 DEF TypeInv, SeenTypeOK, seenVars
<1>4. WireTypeOK'
  BY RequestCopiedIs DEF TypeInv, WireTypeOK, Buffers
<1>5. PlaceInv'
  BY <1>1, RequestCopiedIs DEF PlaceInv
<1> QED BY <1>1, <1>2, <1>3, <1>4, <1>5, DriverTypesKept DEF TypeInv

LEMMA RequestIndexTypes ==
    ASSUME TypeInv, RequestIndex
    PROVE  TypeInv'
<1>1. /\ step = "copied" /\ step' = "indexed" /\ UNCHANGED <<twiVars, wireTx, transmitting, request, due>>
      /\ wireRx' = [wireRx EXCEPT !.index = 0]
  BY DEF RequestIndex, InSketch
<1>2. DriverTypeOK' /\ MasterTypeOK' /\ SlaveTypeOK' /\ HwTypeOK' /\ StatusInv' /\ SketchTypeOK'
      /\ SeenTypeOK'
  BY <1>1, DriverTypesKept, SketchTypesKept
  DEF twiVars, driverVars, masterVars, slaveVars, sketchVars, seenVars
<1>3. wireRx' \in [buffer: Buffers, index: 0 .. BufferLength, length: 0 .. BufferLength]
  BY <1>1, BufferAssumption DEF TypeInv, WireTypeOK
<1>4. WireTypeOK'
  BY <1>1, <1>3 DEF TypeInv, WireTypeOK, Buffers
<1>5. PlaceInv'
  BY <1>1 DEF TypeInv, PlaceInv, twiVars
<1> QED BY <1>2, <1>4, <1>5 DEF TypeInv

LEMMA RequestLengthTypes ==
    ASSUME TypeInv, RequestLength
    PROVE  TypeInv'
<1>1. /\ step = "indexed" /\ step' = "idle" /\ Forget /\ UNCHANGED <<wireTx, transmitting>>
      /\ wireRx' = [wireRx EXCEPT !.length = result.code]
      /\ due' = peer /\ request' = NoRequest /\ pc = "idle" /\ pc' = pc
  BY DEF RequestLength, InSketch, At, Forget
<1>2. result.code \in 0 .. BufferLength
  BY <1>1 DEF TypeInv, PlaceInv
<1>3. wireRx' \in [buffer: Buffers, index: 0 .. BufferLength, length: 0 .. BufferLength]
  BY <1>1, <1>2 DEF TypeInv, WireTypeOK
<1>4. request' \in [quantity: 0 .. BufferLength, stop: BOOLEAN, acked: BOOLEAN]
  BY <1>1, BufferAssumption DEF NoRequest
<1>5. WireTypeOK'
  BY <1>1, <1>3, <1>4 DEF TypeInv, WireTypeOK, Buffers, SeenTypeOK
<1>6. PlaceInv'
  BY <1>1 DEF PlaceInv
<1> QED BY <1>1, <1>5, <1>6, ForgetTypes DEF TypeInv

LEMMA ReadTypes ==
    ASSUME TypeInv, Read
    PROVE  TypeInv'
<1>1. /\ step = "idle" /\ step' = "advance" /\ pc = "idle" /\ Unread
      /\ due' = SubSeq(due, 2, Len(due))
      /\ UNCHANGED <<twiVars, wireRx, wireTx, transmitting, request>>
  BY DEF Read, InSketch, At
<1>2. DriverTypeOK' /\ MasterTypeOK' /\ SlaveTypeOK' /\ HwTypeOK' /\ StatusInv' /\ SketchTypeOK'
      /\ SeenTypeOK'
  BY <1>1, DriverTypesKept, SketchTypesKept
  DEF twiVars, driverVars, masterVars, slaveVars, sketchVars, seenVars
<1>3. due' \in Seq(Byte)
  <2>1. due \in Seq(Byte) /\ 2 \in Nat \ {0} /\ Len(due) \in 0 .. Len(due)
    BY DEF TypeInv, WireTypeOK
  <2> QED BY <1>1, <2>1, SubSeqType
<1>4. WireTypeOK'
  BY <1>1, <1>3 DEF TypeInv, WireTypeOK, Buffers
<1>5. PlaceInv'
  BY <1>1 DEF TypeInv, PlaceInv, Unread, twiVars
<1> QED BY <1>2, <1>4, <1>5 DEF TypeInv

LEMMA AdvanceTypes ==
    ASSUME TypeInv, Advance
    PROVE  TypeInv'
<1>1. /\ step = "advance" /\ step' = "idle" /\ pc = "idle"
      /\ UNCHANGED <<twiVars, wireTx, transmitting, request, due>>
      /\ wireRx' = [wireRx EXCEPT !.index = wireRx.index + 1]
  BY DEF Advance, InSketch, At
<1>2. DriverTypeOK' /\ MasterTypeOK' /\ SlaveTypeOK' /\ HwTypeOK' /\ StatusInv' /\ SketchTypeOK'
      /\ SeenTypeOK'
  BY <1>1, DriverTypesKept, SketchTypesKept
  DEF twiVars, driverVars, masterVars, slaveVars, sketchVars, seenVars
<1>3. wireRx.index + 1 \in 0 .. BufferLength
  BY <1>1, BufferAssumption DEF TypeInv, WireTypeOK, PlaceInv, Unread
<1>4. wireRx' \in [buffer: Buffers, index: 0 .. BufferLength, length: 0 .. BufferLength]
  BY <1>1, <1>3 DEF TypeInv, WireTypeOK
<1>5. WireTypeOK'
  BY <1>1, <1>4 DEF TypeInv, WireTypeOK, Buffers
<1>6. PlaceInv'
  BY <1>1 DEF TypeInv, PlaceInv, twiVars
<1> QED BY <1>2, <1>5, <1>6 DEF TypeInv

\* What the handler stored of a message is a sequence of bytes.
LEMMA ReceivedType ==
    ASSUME TypeInv
    PROVE  /\ Received \in Seq(Byte) /\ Len(Received) = rxIndex /\ rxIndex \in 0 .. BufferLength
           /\ \A k \in 1 .. rxIndex : Received[k] = rxBuffer[k - 1]
<1>1. rxBuffer \in Buffers /\ rxIndex \in 0 .. BufferLength
  BY DEF TypeInv, SlaveTypeOK
<1>2. \A k \in 1 .. rxIndex : rxBuffer[k - 1] \in Byte
  BY <1>1, BufferAssumption DEF Buffers, BufferSlots
<1> QED BY <1>1, <1>2, BufferAssumption DEF Received

LEMMA OnReceiveServiceTypes ==
    ASSUME TypeInv, OnReceiveService
    PROVE  TypeInv'
<1>1. IsrSlaveStop /\ UNCHANGED <<wireTx, transmitting, step, request>>
  BY DEF OnReceiveService
<1>2. /\ hw.twint = "SR_STOP" /\ hw.twie /\ GoesOn("idle", TRUE) /\ twi_state' = "READY"
      /\ rxIndex' = 0 /\ heard' = <<>>
      /\ UNCHANGED <<twi_slarw, twi_sendStop, twi_inRepStart, twi_error, masterVars,
                     txBuffer, txIndex, txLength, sketchVars, peer, nacked>>
  BY <1>1, IsrSlaveStopHw DEF IsrSlaveStop
<1>3. rxBuffer' \in Buffers
  <2>1. rxBuffer \in Buffers /\ Zero \in Byte
    BY BusAssumption DEF TypeInv, SlaveTypeOK
  <2> QED BY <1>1, <2>1 DEF IsrSlaveStop, Buffers
<1>4. DriverTypeOK' /\ MasterTypeOK' /\ SketchTypeOK'
  BY <1>2
  DEF TypeInv, masterVars, sketchVars, DriverTypeOK, States, MasterTypeOK, Buffers, SketchTypeOK
<1>5. SlaveTypeOK' /\ SeenTypeOK'
  <2>1. <<>> \in Seq(Byte) /\ Len(<<>>) = 0 /\ 0 \in 0 .. BufferLength /\ 0 <= BufferLength
    BY BufferAssumption
  <2>2. SlaveTypeOK'
    BY <1>2, <1>3, <2>1 DEF TypeInv, SlaveTypeOK, Buffers
  <2>3. SeenTypeOK'
    BY <1>2, <2>1 DEF TypeInv, SeenTypeOK
  <2> QED BY <2>2, <2>3
<1>6. HwTypeOK' /\ StatusInv'
  BY <1>2, NoneIsApart
  DEF TypeInv, DriverTypeOK, HwTypeOK, StatusInv, Statuses, GoesOn, Becomes, Has
<1>7. WireTypeOK' /\ PlaceInv'
  <2>1. CASE Unread
    <3>1. UNCHANGED <<wireRx, due>>
      BY <2>1 DEF OnReceiveService
    <3> QED BY <1>1, <1>2, <3>1 DEF TypeInv, WireTypeOK, Buffers, PlaceInv, Unread, sketchVars
  <2>2. CASE ~ Unread
    <3>1. PICK reads \in {0, rxIndex} :
             /\ wireRx' = [buffer |-> Overlay(wireRx.buffer, Received),
                           index |-> reads, length |-> rxIndex]
             /\ due' = SubSeq(heard, reads + 1, Len(heard))
      BY <2>2 DEF OnReceiveService
    <3>2. wireRx.buffer \in Buffers /\ heard \in Seq(Byte) /\ Len(heard) \in 0 .. Len(heard)
      BY DEF TypeInv, WireTypeOK, SeenTypeOK
    <3>3. reads \in 0 .. BufferLength /\ rxIndex \in 0 .. BufferLength /\ reads + 1 \in Nat \ {0}
      BY BufferAssumption DEF TypeInv, SlaveTypeOK
    <3>4. wireRx' \in [buffer: Buffers, index: 0 .. BufferLength, length: 0 .. BufferLength]
      BY <3>1, <3>2, <3>3, OverlayIs, ReceivedType
    <3>5. due' \in Seq(Byte)
      BY <3>1, <3>2, <3>3, SubSeqType
    <3>6. WireTypeOK'
      BY <1>1, <3>4, <3>5 DEF TypeInv, WireTypeOK, Buffers
    <3>7. PlaceInv'
      BY <1>1, <1>2, <2>2 DEF TypeInv, PlaceInv, sketchVars
    <3> QED BY <3>6, <3>7
  <2> QED BY <2>1, <2>2
<1> QED BY <1>4, <1>5, <1>6, <1>7 DEF TypeInv

LEMMA IsrSlaveAnswerTypes ==
    ASSUME TypeInv, NEW reply \in Seq(Byte), IsrSlaveAnswer(reply)
    PROVE  DriverTypeOK' /\ MasterTypeOK' /\ SlaveTypeOK' /\ HwTypeOK' /\ StatusInv'
           /\ SketchTypeOK' /\ SeenTypeOK' /\ UNCHANGED <<sketchVars, seenVars>>
<1>1. /\ twi_state' = "STX"
      /\ UNCHANGED <<twi_slarw, twi_sendStop, twi_inRepStart, twi_error, masterBuffer,
                     masterIndex, masterLength, rxBuffer, rxIndex, sketchVars, seenVars>>
  BY DEF IsrSlaveAnswer
<1>2. DriverTypeOK' /\ MasterTypeOK' /\ SketchTypeOK' /\ SeenTypeOK'
  BY <1>1
  DEF TypeInv, sketchVars, seenVars, DriverTypeOK, States, MasterTypeOK, Buffers, SketchTypeOK,
         SeenTypeOK
<1>3. SlaveTypeOK'
  BY <1>1, IsrSlaveAnswerHw DEF TypeInv, SlaveTypeOK
<1>4. HwTypeOK' /\ StatusInv'
  BY <1>1, IsrSlaveAnswerHw, NoneIsApart
  DEF TypeInv, DriverTypeOK, HwTypeOK, StatusInv, Statuses, Becomes, Has
<1> QED BY <1>1, <1>2, <1>3, <1>4

LEMMA OnRequestServiceIs ==
    ASSUME TypeInv, OnRequestService
    PROVE  /\ \E reply \in Seq(Byte) : IsrSlaveAnswer(reply)
           /\ wireTx' \in [buffer: Buffers, length: 0 .. BufferLength]
           /\ UNCHANGED <<wireRx, transmitting, step, request, due>>
<1>1. PICK reply \in Replies :
         IF transmitting
         THEN /\ IsrSlaveAnswer(<<>>)
              /\ wireTx' = [buffer |-> Overlay(wireTx.buffer, SubSeq(reply, 1, Min({Len(reply), BufferLength}))),
                            length |-> Min({Len(reply), BufferLength})]
         ELSE IsrSlaveAnswer(reply) /\ wireTx' = [wireTx EXCEPT !.length = 0]
  BY DEF OnRequestService
<1>2. reply \in Seq(Byte) /\ <<>> \in Seq(Byte)
      /\ wireTx \in [buffer: Buffers, length: 0 .. BufferLength]
  BY WireAssumption DEF TypeInv, WireTypeOK
<1>3. CASE transmitting
  <2>1. PICK n : n = Min({Len(reply), BufferLength})
    OBVIOUS
  <2>2. n \in 0 .. BufferLength /\ n \in 0 .. Len(reply) /\ 1 \in Nat \ {0}
    BY <1>2, <2>1, MinIs, BufferAssumption
  <2>3. SubSeq(reply, 1, n) \in Seq(Byte)
    BY <1>2, <2>2, SubSeqType
  <2>4. Overlay(wireTx.buffer, SubSeq(reply, 1, n)) \in Buffers
    BY <1>2, <2>3, OverlayIs
  <2>5. wireTx' = [buffer |-> Overlay(wireTx.buffer, SubSeq(reply, 1, n)), length |-> n]
        /\ IsrSlaveAnswer(<<>>)
    BY <1>1, <1>3, <2>1
  <2>6. wireTx' \in [buffer: Buffers, length: 0 .. BufferLength]
    BY <2>2, <2>4, <2>5
  <2> QED BY <1>2, <2>5, <2>6 DEF OnRequestService
<1>4. CASE ~ transmitting
  BY <1>1, <1>2, <1>4, BufferAssumption DEF OnRequestService
<1> QED BY <1>3, <1>4

LEMMA OnRequestServiceTypes ==
    ASSUME TypeInv, OnRequestService
    PROVE  TypeInv'
<1>1. PICK reply \in Seq(Byte) : IsrSlaveAnswer(reply)
  BY OnRequestServiceIs
<1>2. DriverTypeOK' /\ MasterTypeOK' /\ SlaveTypeOK' /\ HwTypeOK' /\ StatusInv'
      /\ SketchTypeOK' /\ SeenTypeOK' /\ UNCHANGED <<sketchVars, seenVars>>
  BY <1>1, IsrSlaveAnswerTypes
<1>3. WireTypeOK'
  BY OnRequestServiceIs DEF TypeInv, WireTypeOK, Buffers
<1>4. PlaceInv'
  BY <1>2, OnRequestServiceIs DEF TypeInv, PlaceInv, Unread, sketchVars
<1> QED BY <1>2, <1>3, <1>4 DEF TypeInv

-----------------------------------------------------------------------------
\* The type invariant, on any bus.

LEMMA TypesBegin == WireInit => TypeInv
<1> SUFFICES ASSUME WireInit PROVE TypeInv
  OBVIOUS
<1> USE DEF WireInit, TwiInit
<1>1. Zero \in Byte /\ <<>> \in Seq(Byte) /\ Len(<<>>) = 0 /\ 0 \in 0 .. BufferLength
      /\ 0 <= BufferLength
  BY BusAssumption, BufferAssumption
<1>2. [s \in BufferSlots |-> Zero] \in Buffers
  BY <1>1 DEF Buffers
<1>3. DriverTypeOK
  BY DEF DriverInit, DriverTypeOK, States
<1>4. MasterTypeOK /\ SlaveTypeOK
  BY <1>1, <1>2 DEF MasterTypeOK, SlaveTypeOK
<1>5. HwTypeOK /\ StatusInv
  BY NoneIsApart DEF HwInit, HwTypeOK, HwStates, Statuses, StatusInv, DriverInit
<1>6. SketchTypeOK
  <2>1. result \in [code: Nat \cup {None}, data: Seq(Byte)] /\ result.code = None
    BY <1>1 DEF NoResult
  <2>2. call \in [op: {"none", "write", "read"}, length: Nat, stop: BOOLEAN] /\ call.op = "none"
    BY DEF NoCall
  <2> QED BY <2>1, <2>2 DEF SketchTypeOK
<1>7. SeenTypeOK
  BY <1>1 DEF SeenTypeOK
<1>8. WireTypeOK
  BY <1>1, <1>2 DEF WireTypeOK, NoRequest
<1>9. PlaceInv
  BY DEF PlaceInv
<1> QED BY <1>3, <1>4, <1>5, <1>6, <1>7, <1>8, <1>9 DEF TypeInv

LEMMA TypesKept ==
    ASSUME TypeInv, [WireNext]_vars
    PROVE  TypeInv'
<1>1. CASE Isr /\ UNCHANGED wireVars
  BY <1>1, IsrStartTypes, IsrMasterSendTypes, IsrMasterFailTypes, IsrMasterReceiveTypes,
     IsrMasterLastTypes, IsrSlaveReceiveTypes, IsrSlaveByteTypes, IsrSlaveNackTypes,
     IsrSlaveSendTypes, IsrSlaveDoneTypes DEF Isr
<1>2. CASE OnReceiveService \/ OnRequestService
  BY <1>2, OnReceiveServiceTypes, OnRequestServiceTypes
<1>3. CASE Calls
  BY <1>3, BeginTransmissionTypes, WriteTypes, EndTransmissionTypes, RequestFromTypes, ReadTypes
  DEF Calls
<1>4. CASE Proceed
  BY <1>4, WaitReadyTypes, ClaimTypes, SetUpTypes, GoTypes, ReturnWriteTypes, EndedTypes,
     RegisterSentTypes, RequestCopiedTypes, RequestIndexTypes, RequestLengthTypes, AdvanceTypes
  DEF Proceed
<1>5. CASE (Hardware \/ HwBusError) /\ UNCHANGED wireVars
  BY <1>5, HwStartTypes, HwRepeatedStartTypes, HwAddressTypes, HwTransmitTypes, HwReceiveTypes,
     HwBusErrorTypes DEF Hardware
<1>6. CASE (Other \/ OtherBegins) /\ UNCHANGED wireVars
  BY <1>6, ArbitrationLostTypes, OtherSeizesTypes, OtherReleasesTypes, OtherAddressesTypes,
     OtherSendsTypes, OtherStopsTypes, OtherTakesTypes DEF Other, OtherBegins
<1>7. CASE UNCHANGED vars
  <2>1. UNCHANGED <<driverVars, masterVars, slaveVars, hw, sketchVars, seenVars, wireVars>>
    BY <1>7 DEF vars, twiVars, driverVars, masterVars, slaveVars, sketchVars, seenVars
  <2>2. WireTypeOK' /\ PlaceInv'
    BY <2>1 DEF TypeInv, wireVars, sketchVars, WireTypeOK, Buffers, PlaceInv, Unread
  <2> QED BY <2>1, <2>2, DriverTypesKept, SketchTypesKept DEF TypeInv
<1> QED BY <1>1, <1>2, <1>3, <1>4, <1>5, <1>6, <1>7
        DEF WireNext, Handler, HardwareStep, OtherStep

\* Every index stays in its buffer's range, every length within the buffer, and the
\* hardware withholds its interrupt only for a repeated start.
THEOREM WireTypeCorrect == WireSpec => []TypeInv
<1>1. WireInit => TypeInv
  BY TypesBegin
<1>2. TypeInv /\ [WireNext]_vars => TypeInv'
  BY TypesKept
<1> QED BY <1>1, <1>2, PTL DEF WireSpec

-----------------------------------------------------------------------------
\* What another master sends is what the handler stores, on any bus.

\* Nothing is stored.
LEMMA ReceivedKept ==
    ASSUME UNCHANGED <<rxBuffer, rxIndex>>
    PROVE  Received' = Received
BY DEF Received

\* A byte is stored.
LEMMA ReceivedGrows ==
    ASSUME TypeInv, rxIndex < BufferLength, hw.twdr \in Byte,
           rxBuffer' = [rxBuffer EXCEPT ![rxIndex] = hw.twdr], rxIndex' = rxIndex + 1
    PROVE  Received' = Append(Received, hw.twdr)
<1>1. rxBuffer \in Buffers /\ rxIndex \in Nat /\ BufferLength \in Nat
  BY BufferAssumption DEF TypeInv, SlaveTypeOK
<1>2. Received' = [k \in 1 .. rxIndex + 1 |-> rxBuffer'[k - 1]]
  BY DEF Received
<1>3. /\ Append(Received, hw.twdr) \in Seq(Byte) /\ Len(Append(Received, hw.twdr)) = rxIndex + 1
      /\ \A k \in 1 .. rxIndex : Append(Received, hw.twdr)[k] = rxBuffer[k - 1]
      /\ Append(Received, hw.twdr)[rxIndex + 1] = hw.twdr
  BY ReceivedType, AppendProperties
<1>4. ASSUME NEW k \in 1 .. rxIndex + 1
      PROVE  rxBuffer'[k - 1] = Append(Received, hw.twdr)[k]
  <2>1. CASE k \in 1 .. rxIndex
    <3>1. k - 1 # rxIndex /\ k - 1 \in 0 .. BufferLength - 1
      BY <1>1, <2>1
    <3> QED BY <1>1, <1>3, <2>1, <3>1 DEF Buffers, BufferSlots
  <2>2. CASE k = rxIndex + 1
    <3>1. k - 1 = rxIndex /\ rxIndex \in BufferSlots
      BY <1>1, <2>2 DEF BufferSlots
    <3> QED BY <1>1, <1>3, <2>2, <3>1 DEF Buffers
  <2>3. rxIndex \in Nat /\ (k \in 1 .. rxIndex \/ k = rxIndex + 1)
    BY <1>1
  <2> QED BY <2>1, <2>2, <2>3
<1>5. Append(Received, hw.twdr) = [k \in 1 .. rxIndex + 1 |-> Append(Received, hw.twdr)[k]]
  BY <1>3
<1> QED BY <1>2, <1>4, <1>5

\* The board is not listening after the step.
LEMMA HeardElsewhere ==
    ASSUME NEW phase, NEW twint, NEW twdr, NEW twsta, NEW twea, NEW twie, NEW bus,
           Becomes(phase, twint, twdr, twsta, twea, twie, bus),
           phase # "sr", twint \notin {"SR_SLA_ACK", "SR_ARB_LOST_SLA_ACK"}
    PROVE  HeardInv'
BY DEF HeardInv, Becomes, Has

LEMMA HeardUntouched ==
    ASSUME HeardInv, UNCHANGED <<hw, heard, rxBuffer, rxIndex>>
    PROVE  HeardInv'
BY ReceivedKept DEF HeardInv

LEMMA EndsHeard ==
    ASSUME Ends
    PROVE  HeardInv'
<1>1. "restart" # "sr" /\ "idle" # "sr" /\ None \notin {"SR_SLA_ACK", "SR_ARB_LOST_SLA_ACK"}
  BY NoneIsApart DEF Statuses
<1> QED BY <1>1, HeardElsewhere DEF Ends, GivesUp, Repeats

\* The handler.
LEMMA HandlerHeard ==
    ASSUME TypeInv, HeardInv, Handler
    PROVE  HeardInv'
<1>0. None \notin {"SR_SLA_ACK", "SR_ARB_LOST_SLA_ACK"} /\ None # "SR_DATA_ACK"
  BY NoneIsApart DEF Statuses
<1>1. CASE IsrStart
  BY <1>0, <1>1, IsrStartHw, HeardElsewhere
<1>2. CASE IsrMasterSend
  BY <1>0, <1>2, IsrMasterSendHw, EndsHeard, HeardElsewhere
<1>3. CASE IsrMasterFail
  BY <1>0, <1>3, IsrMasterFailHw, HeardElsewhere DEF GoesOn, GivesUp
<1>4. CASE IsrMasterReceive
  BY <1>0, <1>4, IsrMasterReceiveHw, HeardElsewhere DEF GoesOn
<1>5. CASE IsrMasterLast
  BY <1>5, IsrMasterLastHw, EndsHeard
<1>6. CASE IsrSlaveReceive
  <2>1. hw.twint \in {"SR_SLA_ACK", "SR_ARB_LOST_SLA_ACK"} /\ GoesOn("sr", TRUE)
    BY <1>6, IsrSlaveReceiveHw
  <2>2. heard' = <<>> /\ rxIndex' = 0
    BY <1>6, <2>1 DEF IsrSlaveReceive, seenVars, HeardInv
  <2>3. Received' = <<>>
    BY <2>2 DEF Received
  <2> QED BY <1>0, <2>1, <2>2, <2>3 DEF HeardInv, GoesOn, Becomes, Has
<1>7. CASE IsrSlaveByte
  <2>1. /\ hw.twint = "SR_DATA_ACK" /\ hw.phase = "sr" /\ hw.twdr \in Byte
        /\ hw'.phase = "sr" /\ hw'.twint = None
    BY <1>7, IsrSlaveByteHw DEF GoesOn, Becomes, Has, TypeInv, StatusInv, HwTypeOK
  <2>2. heard' = heard
    BY <1>7 DEF IsrSlaveByte, seenVars
  <2>3. CASE rxIndex < BufferLength
    <3>1. Received' = Append(Received, hw.twdr)
      BY <1>7, <2>1, <2>3, ReceivedGrows DEF IsrSlaveByte
    <3> QED BY <1>0, <2>1, <2>2, <2>3, <3>1 DEF HeardInv
  <2>4. CASE ~ (rxIndex < BufferLength)
    <3>1. Received' = Received
      BY <1>7, <2>4, ReceivedKept DEF IsrSlaveByte
    <3> QED BY <1>0, <2>1, <2>2, <2>4, <3>1 DEF HeardInv
  <2> QED BY <2>3, <2>4
<1>8. CASE IsrSlaveNack
  BY <1>0, <1>8, IsrSlaveNackHw, HeardElsewhere DEF GoesOn
<1>9. CASE IsrSlaveSend
  BY <1>0, <1>9, IsrSlaveSendHw, HeardElsewhere
<1>10. CASE IsrSlaveDone
  BY <1>0, <1>10, IsrSlaveDoneHw, HeardElsewhere DEF GoesOn
<1>11. CASE OnReceiveService
  <2>1. IsrSlaveStop
    BY <1>11 DEF OnReceiveService
  <2> QED BY <1>0, <2>1, IsrSlaveStopHw, HeardElsewhere DEF GoesOn
<1>12. CASE OnRequestService
  BY <1>0, <1>12, OnRequestServiceIs, IsrSlaveAnswerHw, HeardElsewhere
<1> QED BY <1>1, <1>2, <1>3, <1>4, <1>5, <1>6, <1>7, <1>8, <1>9, <1>10, <1>11, <1>12
        DEF Handler, Isr

\* The hardware and the bus.
LEMMA HardwareHeard ==
    ASSUME TypeInv, HeardInv, Hardware \/ HwBusError
    PROVE  HeardInv'
<1>0. UNCHANGED <<heard, rxBuffer, rxIndex>> /\ Received' = Received
  BY ReceivedKept
  DEF Hardware, HwStart, HwRepeatedStart, HwAddress, HwTransmit, HwReceive, HwBusError,
         HwVars, slaveVars, seenVars
<1>1. CASE HwStart
  BY <1>1, HwStartHw, HeardElsewhere DEF Raises
<1>2. CASE HwRepeatedStart
  BY <1>2, HwRepeatedStartHw, HeardElsewhere DEF Raises
<1>3. CASE HwAddress
  BY <1>3, HwAddressHw, HeardElsewhere DEF Raises
<1>4. CASE HwTransmit
  BY <1>4, HwTransmitHw, HeardElsewhere DEF Raises
<1>5. CASE HwReceive
  BY <1>5, HwReceiveHw, HeardElsewhere DEF RaisesWith
<1>6. CASE HwBusError
  BY <1>0, <1>6, HwBusErrorHw, NoneIsApart DEF HeardInv, Raises, Becomes, Has, Statuses
<1> QED BY <1>1, <1>2, <1>3, <1>4, <1>5, <1>6 DEF Hardware

LEMMA OtherHeard ==
    ASSUME TypeInv, HeardInv, Other \/ OtherBegins
    PROVE  HeardInv'
<1>0. /\ UNCHANGED <<rxBuffer, rxIndex>> /\ Received' = Received
      /\ None \notin {"SR_SLA_ACK", "SR_ARB_LOST_SLA_ACK"} /\ None # "SR_DATA_ACK"
  BY NoneIsApart, ReceivedKept
  DEF Statuses, Other, OtherBegins, ArbitrationLost, OtherSeizes, OtherReleases, OtherAddresses,
      OtherSends, OtherStops, OtherTakes, HwVars, slaveVars
<1>1. CASE ArbitrationLost
  BY <1>1, ArbitrationLostHw DEF HeardInv, Raises, Becomes, Has
<1>2. CASE OtherSeizes \/ OtherReleases
  BY <1>0, <1>2, OtherSeizesHw, HeardElsewhere DEF Raises
<1>3. CASE OtherAddresses
  BY <1>3, OtherAddressesHw DEF HeardInv, Raises, Becomes, Has
<1>4. CASE OtherSends
  <2>1. PICK b \in Byte :
           /\ RaisesWith(IF hw.twea THEN "SR_DATA_ACK" ELSE "SR_DATA_NACK", b)
           /\ heard' = IF hw.twea /\ Len(heard) < BufferLength THEN Append(heard, b) ELSE heard
    BY <1>4, OtherSendsHw
  <2>2. hw.phase = "sr" /\ hw.twint = None /\ hw'.phase = "sr" /\ hw'.twdr = b
        /\ hw'.twint = IF hw.twea THEN "SR_DATA_ACK" ELSE "SR_DATA_NACK"
    BY <1>4, <2>1, OtherSendsHw DEF RaisesWith, Becomes, Has
  <2>3. heard = Received /\ Len(heard) = rxIndex
    BY <1>0, <2>2, ReceivedType DEF HeardInv
  <2> QED BY <1>0, <2>1, <2>2, <2>3 DEF HeardInv
<1>5. CASE OtherStops
  BY <1>0, <1>5, OtherStopsHw DEF OtherStops, seenVars, HeardInv, Raises, Becomes, Has
<1>6. CASE OtherTakes
  BY <1>6, OtherTakesHw, HeardElsewhere DEF Raises
<1> QED BY <1>1, <1>2, <1>3, <1>4, <1>5, <1>6 DEF Other, OtherBegins

LEMMA HeardKept ==
    ASSUME TypeInv, HeardInv, [WireNext]_vars
    PROVE  HeardInv'
<1>1. CASE Calls \/ UNCHANGED vars
  <2>1. UNCHANGED <<hw, heard, rxBuffer, rxIndex>>
    BY <1>1 DEF Calls, BeginTransmission, Write, EndTransmission, RequestFrom, Read, twi_writeTo,
         twi_readFrom, NewCall, twiVars, slaveVars, vars
  <2> QED BY <2>1, HeardUntouched
<1>2. CASE Proceed
  <2>1. CASE Go
    <3>1. hw'.twint = None /\ hw'.phase \in {"sla", hw.phase}
          /\ UNCHANGED <<heard, rxBuffer, rxIndex>>
      BY <2>1, GoHw DEF Becomes, Has, Go, slaveVars, seenVars
    <3>2. hw.twint # "SR_DATA_ACK" /\ None \notin Statuses
      BY <2>1, GoHw, NoneIsApart DEF Statuses
    <3> QED BY <3>1, <3>2, ReceivedKept DEF HeardInv, Statuses
  <2>2. CASE ~ Go
    <3>1. UNCHANGED <<hw, heard, rxBuffer, rxIndex>>
      BY <1>2, <2>2
      DEF Proceed, WaitReady, Claim, SetUp, ReturnWrite, Ended, Forget, RegisterSent,
           RequestCopied, ReturnRead, RequestIndex, RequestLength, Advance, twi_readFrom, NewCall,
           twiVars, slaveVars, seenVars
    <3> QED BY <3>1, HeardUntouched
  <2> QED BY <2>1, <2>2
<1> QED BY <1>1, <1>2, HandlerHeard, HardwareHeard, OtherHeard
        DEF WireNext, HardwareStep, OtherStep

-----------------------------------------------------------------------------
\* What the sketch has still to read.

\* A part of a buffer is a sequence of bytes.
LEMMA RestIs ==
    ASSUME NEW buffer \in Buffers, NEW from \in 0 .. BufferLength, NEW to \in 0 .. BufferLength
    PROVE  /\ Rest(buffer, from, to) \in Seq(Byte)
           /\ Len(Rest(buffer, from, to)) = IF from <= to THEN to - from ELSE 0
           /\ \A k \in 1 .. to - from : Rest(buffer, from, to)[k] = buffer[from + k - 1]
<1>1. from \in Nat /\ to \in Nat /\ BufferLength \in Nat /\ to <= BufferLength
  BY BufferAssumption
<1>2. ASSUME NEW k \in 1 .. to - from
      PROVE  buffer[from + k - 1] \in Byte
  <2>1. from + k - 1 \in BufferSlots
    BY <1>1 DEF BufferSlots
  <2> QED BY <2>1 DEF Buffers
<1>3. PICK n \in Nat : 1 .. to - from = 1 .. n /\ n = IF from <= to THEN to - from ELSE 0
  BY <1>1
<1>4. Rest(buffer, from, to) = [k \in 1 .. n |-> buffer[from + k - 1]]
  BY <1>3 DEF Rest
<1>5. \A k \in 1 .. n : buffer[from + k - 1] \in Byte
  BY <1>2, <1>3
<1>6. /\ Rest(buffer, from, to) \in Seq(Byte) /\ Len(Rest(buffer, from, to)) = n
      /\ \A k \in 1 .. n : Rest(buffer, from, to)[k] = buffer[from + k - 1]
  BY <1>4, <1>5
<1> QED BY <1>3, <1>6

\* Without its first byte.
LEMMA RestTail ==
    ASSUME NEW buffer \in Buffers, NEW from \in 0 .. BufferLength, NEW to \in 0 .. BufferLength,
           from < to
    PROVE  /\ from + 1 \in 0 .. BufferLength
           /\ SubSeq(Rest(buffer, from, to), 2, Len(Rest(buffer, from, to)))
                 = Rest(buffer, from + 1, to)
<1> DEFINE s == Rest(buffer, from, to)
           t == Rest(buffer, from + 1, to)
           u == SubSeq(s, 2, Len(s))
<1>1. from \in Nat /\ to \in Nat /\ BufferLength \in Nat /\ from + 1 \in 0 .. BufferLength
  BY BufferAssumption
<1>2. s \in Seq(Byte) /\ Len(s) = to - from /\ \A k \in 1 .. to - from : s[k] = buffer[from + k - 1]
  <2>1. /\ s \in Seq(Byte) /\ Len(s) = IF from <= to THEN to - from ELSE 0
        /\ \A k \in 1 .. to - from : s[k] = buffer[from + k - 1]
    BY RestIs
  <2>2. from <= to
    BY <1>1
  <2> HIDE DEF s
  <2> QED BY <2>1, <2>2
<1>3. /\ t \in Seq(Byte) /\ Len(t) = to - from - 1
      /\ \A k \in 1 .. to - from - 1 : t[k] = buffer[from + 1 + k - 1]
  <2>1. /\ t \in Seq(Byte) /\ Len(t) = IF from + 1 <= to THEN to - (from + 1) ELSE 0
        /\ \A k \in 1 .. to - (from + 1) : t[k] = buffer[from + 1 + k - 1]
    <3>1. PICK f \in 0 .. BufferLength : f = from + 1
      BY <1>1
    <3>2. /\ Rest(buffer, f, to) \in Seq(Byte)
          /\ Len(Rest(buffer, f, to)) = IF f <= to THEN to - f ELSE 0
          /\ \A k \in 1 .. to - f : Rest(buffer, f, to)[k] = buffer[f + k - 1]
      BY RestIs
    <3> QED BY <3>1, <3>2
  <2>2. from + 1 <= to /\ to - (from + 1) = to - from - 1
    BY <1>1
  <2> HIDE DEF t
  <2> QED BY <2>1, <2>2
<1> HIDE DEF s, t
<1>4. 2 \in Nat \ {0} /\ Len(s) \in 0 .. Len(s)
  BY <1>1, <1>2
<1>5. /\ u \in Seq(Byte) /\ Len(u) = IF 2 <= Len(s) THEN Len(s) - 2 + 1 ELSE 0
      /\ \A k \in 1 .. Len(s) - 2 + 1 : u[k] = s[2 + k - 1]
  BY <1>2, <1>4, SubSeqType
<1> HIDE DEF u
<1>6. Len(u) = Len(t)
  BY <1>1, <1>2, <1>3, <1>5
<1>7. ASSUME NEW k \in 1 .. Len(u)
      PROVE  u[k] = t[k]
  <2>1. k \in Nat /\ k \in 1 .. to - from - 1 /\ k + 1 \in 1 .. to - from /\ k \in 1 .. Len(s) - 2 + 1
        /\ 2 + k - 1 = k + 1
    BY <1>1, <1>2, <1>3, <1>6
  <2>2. u[k] = s[k + 1]
    BY <1>5, <2>1
  <2>3. s[k + 1] = buffer[from + (k + 1) - 1] /\ t[k] = buffer[from + 1 + k - 1]
    BY <1>2, <1>3, <2>1
  <2>4. from + (k + 1) - 1 = from + 1 + k - 1
    BY <1>1, <2>1
  <2> QED BY <2>2, <2>3, <2>4
<1>8. u = t
  BY <1>3, <1>5, <1>6, <1>7, SeqEqual
<1> QED BY <1>1, <1>8 DEF s, t, u

\* What the callback leaves of a message.
LEMMA MessageRest ==
    ASSUME TypeInv, NEW buffer \in Buffers, NEW reads \in 0 .. rxIndex
    PROVE  SubSeq(Received, reads + 1, Len(Received)) = Rest(Overlay(buffer, Received), reads, rxIndex)
<1> DEFINE b == Overlay(buffer, Received)
           t == Rest(b, reads, rxIndex)
           u == SubSeq(Received, reads + 1, Len(Received))
<1>1. /\ Received \in Seq(Byte) /\ Len(Received) = rxIndex /\ rxIndex \in 0 .. BufferLength
      /\ rxIndex \in Nat /\ reads \in Nat /\ BufferLength \in Nat /\ reads \in 0 .. BufferLength
  BY ReceivedType, BufferAssumption
<1>2. b \in Buffers /\ \A k \in BufferSlots : b[k] = IF k < Len(Received) THEN Received[k + 1] ELSE buffer[k]
  BY <1>1, OverlayIs
<1> HIDE DEF b
<1>3. /\ t \in Seq(Byte) /\ Len(t) = rxIndex - reads
      /\ \A k \in 1 .. rxIndex - reads : t[k] = b[reads + k - 1]
  <2>1. /\ t \in Seq(Byte) /\ Len(t) = IF reads <= rxIndex THEN rxIndex - reads ELSE 0
        /\ \A k \in 1 .. rxIndex - reads : t[k] = b[reads + k - 1]
    BY <1>1, <1>2, RestIs
  <2>2. reads <= rxIndex
    BY <1>1
  <2> HIDE DEF t
  <2> QED BY <2>1, <2>2
<1>4. reads + 1 \in Nat \ {0} /\ Len(Received) \in 0 .. Len(Received)
  BY <1>1
<1>5. /\ u \in Seq(Byte)
      /\ Len(u) = IF reads + 1 <= Len(Received) THEN Len(Received) - (reads + 1) + 1 ELSE 0
      /\ \A k \in 1 .. Len(Received) - (reads + 1) + 1 : u[k] = Received[reads + 1 + k - 1]
  BY <1>1, <1>4, SubSeqType
<1> HIDE DEF t, u
<1>6. Len(u) = Len(t)
  BY <1>1, <1>3, <1>5
<1>7. ASSUME NEW k \in 1 .. Len(u)
      PROVE  u[k] = t[k]
  <2>1. /\ k \in Nat /\ k \in 1 .. rxIndex - reads /\ k \in 1 .. Len(Received) - (reads + 1) + 1
        /\ reads + k - 1 \in 0 .. BufferLength - 1 /\ reads + k - 1 < Len(Received)
        /\ reads + k - 1 + 1 = reads + 1 + k - 1
    BY <1>1, <1>3, <1>6
  <2>2. u[k] = Received[reads + 1 + k - 1] /\ t[k] = b[reads + k - 1]
    BY <1>3, <1>5, <2>1
  <2>3. b[reads + k - 1] = Received[reads + k - 1 + 1]
    BY <1>2, <2>1 DEF BufferSlots
  <2> QED BY <2>1, <2>2, <2>3
<1>8. u = t
  BY <1>3, <1>5, <1>6, <1>7, SeqEqual
<1> QED BY <1>8 DEF t, u, b

\* What the sketch copied of a transfer is what is due.
LEMMA CopiedRest ==
    ASSUME TypeInv, CopiedInv, step = "indexed"
    PROVE  peer = Rest(wireRx.buffer, 0, result.code)
<1> DEFINE t == Rest(wireRx.buffer, 0, result.code)
<1>1. /\ wireRx.buffer \in Buffers /\ peer \in Seq(Byte)
      /\ result.code \in 0 .. BufferLength /\ 0 \in 0 .. BufferLength /\ result.code \in Nat
  BY BufferAssumption DEF TypeInv, WireTypeOK, PlaceInv, SeenTypeOK
<1>2. Len(peer) = result.code /\ \A k \in 1 .. result.code : peer[k] = wireRx.buffer[k - 1]
  BY DEF CopiedInv
<1>3. /\ t \in Seq(Byte) /\ Len(t) = result.code
      /\ \A k \in 1 .. result.code - 0 : t[k] = wireRx.buffer[0 + k - 1]
  <2>1. /\ t \in Seq(Byte) /\ Len(t) = IF 0 <= result.code THEN result.code - 0 ELSE 0
        /\ \A k \in 1 .. result.code - 0 : t[k] = wireRx.buffer[0 + k - 1]
    BY <1>1, RestIs
  <2> HIDE DEF t
  <2> QED BY <1>1, <2>1
<1> HIDE DEF t
<1>4. ASSUME NEW k \in 1 .. Len(peer)
      PROVE  peer[k] = t[k]
  <2>1. k \in 1 .. result.code /\ k \in 1 .. result.code - 0 /\ 0 + k - 1 = k - 1
    BY <1>1, <1>2
  <2> QED BY <1>2, <1>3, <2>1
<1>5. peer = t
  BY <1>1, <1>2, <1>3, <1>4, SeqEqual
<1> QED BY <1>5 DEF t

\* It is what it was if neither the buffer nor what is due changes.
LEMMA DueUntouched ==
    ASSUME DueInv, UNCHANGED <<wireRx, due>>,
           step' = "advance" <=> step = "advance",
           step' \notin {"copied", "indexed"} => step \notin {"copied", "indexed"}
    PROVE  DueInv'
BY DEF DueInv, Rest

\* A message of another master is what it sent, whole or from where the callback
\* stopped, or is dropped.
LEMMA OnReceiveServiceDue ==
    ASSUME TypeInv, HeardInv, DueInv, OnReceiveService
    PROVE  DueInv'
<1>1. step' = step /\ IsrSlaveStop
  BY DEF OnReceiveService
<1>2. CASE Unread
  <2>1. UNCHANGED <<wireRx, due>>
    BY <1>2 DEF OnReceiveService
  <2> QED BY <1>1, <2>1, DueUntouched
<1>3. CASE ~ Unread
  <2>1. PICK reads \in {0, rxIndex} :
           /\ wireRx' = [buffer |-> Overlay(wireRx.buffer, Received),
                         index |-> reads, length |-> rxIndex]
           /\ due' = SubSeq(heard, reads + 1, Len(heard))
    BY <1>3 DEF OnReceiveService
  <2>2. heard = Received
    BY <1>1, IsrSlaveStopHw DEF TypeInv, StatusInv, HeardInv
  <2>3. wireRx.buffer \in Buffers /\ reads \in 0 .. rxIndex
    BY BufferAssumption DEF TypeInv, WireTypeOK, SlaveTypeOK
  <2>4. due' = Rest(Overlay(wireRx.buffer, Received), reads, rxIndex)
    BY <2>1, <2>2, <2>3, MessageRest
  <2>5. step' # "advance"
    BY <1>1, <1>3 DEF TypeInv, PlaceInv
  <2>6. due' = Rest(wireRx'.buffer, wireRx'.index, wireRx'.length)
    BY <2>1, <2>4
  <2> QED BY <2>5, <2>6 DEF DueInv
<1> QED BY <1>2, <1>3

\* Every step but the one that takes over what a read returned.
LEMMA DueKept ==
    ASSUME TypeInv, HeardInv, DueInv, step = "indexed" => CopiedInv, [WireNext]_vars
    PROVE  DueInv'
<1>1. CASE UNCHANGED wireVars
  BY <1>1, DueUntouched DEF wireVars
<1>2. CASE OnReceiveService
  BY <1>2, OnReceiveServiceDue
<1>3. CASE OnRequestService
  BY <1>3, DueUntouched DEF OnRequestService
<1>4. CASE BeginTransmission \/ Write \/ EndTransmission \/ RequestFrom
  <2>1. /\ step = "idle" /\ step' \in {"idle", "ending", "request", "register"}
        /\ UNCHANGED <<wireRx, due>>
    BY <1>4 DEF BeginTransmission, Write, EndTransmission, RequestFrom, InSketch
  <2> QED BY <2>1, DueUntouched
<1>5. CASE Read
  <2>1. /\ step = "idle" /\ step' = "advance" /\ Unread /\ wireRx' = wireRx
        /\ due' = SubSeq(due, 2, Len(due))
    BY <1>5 DEF Read, InSketch
  <2>2. due = Rest(wireRx.buffer, wireRx.index, wireRx.length)
    BY <2>1 DEF DueInv
  <2>3. /\ wireRx.buffer \in Buffers /\ wireRx.index \in 0 .. BufferLength
        /\ wireRx.length \in 0 .. BufferLength /\ wireRx.index < wireRx.length
    BY <2>1 DEF TypeInv, WireTypeOK, Unread
  <2>4. due' = Rest(wireRx.buffer, wireRx.index + 1, wireRx.length)
    BY <2>1, <2>2, <2>3, RestTail
  <2> QED BY <2>1, <2>4 DEF DueInv
<1>6. CASE Ended \/ RegisterSent
  <2>1. /\ step \in {"ending", "register"} /\ step' \in {"idle", "request"}
        /\ UNCHANGED <<wireRx, due>>
    BY <1>6 DEF Ended, RegisterSent, InSketch
  <2> QED BY <2>1, DueUntouched
<1>7. CASE RequestCopied \/ RequestIndex
  <2>1. step' \in {"copied", "indexed"}
    BY <1>7 DEF RequestCopied, RequestIndex
  <2> QED BY <2>1 DEF DueInv
<1>8. CASE RequestLength
  <2>1. /\ step = "indexed" /\ step' = "idle" /\ due' = peer
        /\ wireRx' = [wireRx EXCEPT !.length = result.code]
    BY <1>8 DEF RequestLength, InSketch
  <2>2. peer = Rest(wireRx.buffer, 0, result.code) /\ wireRx.index = 0
    BY <2>1, CopiedRest DEF CopiedInv
  <2>3. wireRx'.buffer = wireRx.buffer /\ wireRx'.index = 0 /\ wireRx'.length = result.code
    BY <2>1, <2>2 DEF TypeInv, WireTypeOK
  <2> QED BY <2>1, <2>2, <2>3 DEF DueInv
<1>9. CASE Advance
  <2>1. /\ step = "advance" /\ step' = "idle" /\ due' = due
        /\ wireRx' = [wireRx EXCEPT !.index = wireRx.index + 1]
    BY <1>9 DEF Advance, InSketch
  <2>2. due = Rest(wireRx.buffer, wireRx.index + 1, wireRx.length)
    BY <2>1 DEF DueInv
  <2>3. /\ wireRx'.buffer = wireRx.buffer /\ wireRx'.index = wireRx.index + 1
        /\ wireRx'.length = wireRx.length
    BY <2>1 DEF TypeInv, WireTypeOK
  <2> QED BY <2>1, <2>2, <2>3 DEF DueInv
<1> QED BY <1>1, <1>2, <1>3, <1>4, <1>5, <1>6, <1>7, <1>8, <1>9
        DEF WireNext, Handler, Calls, Proceed, HardwareStep, OtherStep, vars

-----------------------------------------------------------------------------
\* A board that is the only master: the steps it takes.

Only == Starting \/ Addressing \/ Sending \/ Receiving

MasterIsr == IsrStart \/ IsrMasterSend \/ IsrMasterFail \/ IsrMasterReceive \/ IsrMasterLast

\* Nobody addresses the board, sends to it or takes the bus.
LEMMA AloneSteps ==
    ASSUME ~ OtherMaster, TypeInv, AloneInv, [WireNext]_vars
    PROVE  \/ UNCHANGED vars
           \/ (MasterIsr \/ Hardware \/ HwBusError) /\ UNCHANGED wireVars
           \/ Calls \/ Proceed
<1>0. hw.twint \notin {"SR_SLA_ACK", "SR_ARB_LOST_SLA_ACK", "SR_DATA_ACK", "SR_DATA_NACK", "SR_STOP",
                       "ST_SLA_ACK", "ST_ARB_LOST_SLA_ACK", "ST_DATA_ACK", "ST_DATA_NACK", "ST_LAST_DATA"}
  BY NoneIsApart DEF AloneInv, MasterStatuses, Statuses
<1>1. ~ IsrSlaveReceive /\ ~ IsrSlaveByte /\ ~ IsrSlaveNack /\ ~ IsrSlaveSend /\ ~ IsrSlaveDone
  BY <1>0, IsrSlaveReceiveHw, IsrSlaveByteHw, IsrSlaveNackHw, IsrSlaveSendHw, IsrSlaveDoneHw
<1>2. ~ OnReceiveService
  BY <1>0, IsrSlaveStopHw DEF OnReceiveService
<1>3. ~ OnRequestService
  BY <1>0, OnRequestServiceIs, IsrSlaveAnswerHw
<1>4. ~ ArbitrationLost /\ ~ OtherSeizes /\ ~ OtherReleases /\ ~ OtherAddresses
  BY DEF ArbitrationLost, OtherSeizes, OtherReleases, OtherAddresses, AloneInv
<1>5. ~ OtherSends /\ ~ OtherStops /\ ~ OtherTakes
  BY DEF OtherSends, OtherStops, OtherTakes, Busy, AloneInv
<1> QED BY <1>1, <1>2, <1>3, <1>4, <1>5
        DEF WireNext, Handler, Isr, MasterIsr, HardwareStep, OtherStep, Other, OtherBegins

\* An interrupt that is served belongs to a transfer.
LEMMA ServedIs ==
    ASSUME TypeInv, BusInv, hw.twint # None, hw.twie
    PROVE  Active /\ ~ twi_inRepStart /\ Only
<1>1. ~ twi_inRepStart
  BY DEF TypeInv, StatusInv
<1>2. Active
  BY <1>1 DEF BusInv, RestInv
<1> QED BY <1>1, <1>2 DEF BusInv, ActiveInv, Only

\* The status tells where in the transfer.
LEMMA IsrStartWhere ==
    ASSUME TypeInv, BusInv, IsrStart
    PROVE  Active /\ ~ twi_inRepStart /\ Starting /\ hw.bus = "us" /\ hw.twint = "START"
BY IsrStartHw, ServedIs, NoneIsApart DEF Only, Starting, Addressing, Sending, Receiving, Statuses

LEMMA IsrMasterSendWhere ==
    ASSUME TypeInv, BusInv, IsrMasterSend
    PROVE  /\ Active /\ ~ twi_inRepStart /\ hw.bus = "us" /\ call.op = "write"
           /\ hw.twint = "MT_SLA_ACK" => Addressing
           /\ hw.twint = "MT_DATA_ACK" => Sending
BY IsrMasterSendHw, ServedIs, NoneIsApart
DEF Only, Starting, Addressing, Sending, Receiving, Statuses

LEMMA IsrMasterFailWhere ==
    ASSUME TypeInv, BusInv, IsrMasterFail
    PROVE  /\ Active /\ ~ twi_inRepStart /\ hw.bus = "us"
           /\ hw.twint \in {"MT_SLA_NACK", "MT_DATA_NACK", "MR_SLA_NACK", "BUS_ERROR"}
           /\ hw.twint \in {"MT_SLA_NACK", "MR_SLA_NACK"} => Addressing
           /\ hw.twint = "MT_SLA_NACK" => call.op = "write"
           /\ hw.twint = "MR_SLA_NACK" => call.op = "read"
           /\ hw.twint = "MT_DATA_NACK" => Sending
           /\ Addressing \/ Sending \/ Receiving
<1>1. /\ hw.twint \in {"MT_SLA_NACK", "MT_DATA_NACK", "MR_SLA_NACK", "BUS_ERROR", "ARB_LOST"}
      /\ hw.twint # None /\ hw.twie
  BY IsrMasterFailHw, NoneIsApart DEF Statuses
<1>2. Active /\ ~ twi_inRepStart /\ Only
  BY <1>1, ServedIs
<1>3. call.op \in {"write", "read"}
  BY <1>2 DEF Active, TypeInv, SketchTypeOK
<1> QED BY <1>1, <1>2, <1>3 DEF Only, Starting, Addressing, Sending, Receiving

LEMMA IsrMasterReceiveWhere ==
    ASSUME TypeInv, BusInv, IsrMasterReceive
    PROVE  /\ Active /\ ~ twi_inRepStart /\ hw.bus = "us" /\ call.op = "read"
           /\ hw.twint = "MR_SLA_ACK" => Addressing
           /\ hw.twint = "MR_DATA_ACK" => Receiving
<1>1. hw.twint \in {"MR_SLA_ACK", "MR_DATA_ACK"} /\ hw.twint # None /\ hw.twie
  BY IsrMasterReceiveHw, NoneIsApart DEF Statuses
<1>2. Active /\ ~ twi_inRepStart /\ Only
  BY <1>1, ServedIs
<1>3. call.op \in {"write", "read"}
  BY <1>2 DEF Active, TypeInv, SketchTypeOK
<1> QED BY <1>1, <1>2, <1>3 DEF Only, Starting, Addressing, Sending, Receiving

LEMMA IsrMasterLastWhere ==
    ASSUME TypeInv, BusInv, IsrMasterLast
    PROVE  Active /\ ~ twi_inRepStart /\ Receiving
BY IsrMasterLastHw, ServedIs, NoneIsApart
DEF Only, Starting, Addressing, Sending, Receiving, Statuses

\* What the bus, the driver and the sketch agree on is kept.
LEMMA BusUntouched ==
    ASSUME BusInv, UNCHANGED <<driverVars, masterVars, hw, pc, call>>
    PROVE  BusInv'
BY DEF BusInv, AloneInv, MasterStatuses, CallInv, Mine, RestInv, ActiveInv, Active, Starting,
       Addressing, Sending, Receiving, driverVars, masterVars

LEMMA IsrStartBus ==
    ASSUME TypeInv, BusInv, IsrStart
    PROVE  BusInv'
<1>1. /\ UNCHANGED <<twi_state, twi_slarw, twi_sendStop, twi_inRepStart, masterLength, pc, call>>
      /\ Becomes("sla", None, twi_slarw, FALSE, TRUE, TRUE, hw.bus)
      /\ Active /\ ~ twi_inRepStart /\ hw.bus = "us"
  BY IsrStartHw, IsrStartWhere DEF IsrStart, masterVars, sketchVars
<1>2. AloneInv' /\ CallInv'
  BY <1>1 DEF BusInv, AloneInv, CallInv, Mine, Becomes, Has
<1>3. RestInv' /\ ActiveInv'
  BY <1>1 DEF RestInv, ActiveInv, Active, Addressing, Becomes, Has
<1> QED BY <1>2, <1>3 DEF BusInv

\* A transfer ends, and leaves the bus free or kept for a repeated start.
LEMMA EndsBus ==
    ASSUME TypeInv, BusInv, Active, ~ twi_inRepStart, hw.bus = "us", Ends,
           UNCHANGED <<twi_slarw, twi_sendStop, masterLength, pc, call>>
    PROVE  BusInv'
<1>1. AloneInv'
  BY DEF AloneInv, Ends, GivesUp, Repeats, Becomes, Has
<1>2. CallInv'
  BY DEF BusInv, CallInv, Mine, Active, Ends
<1>3. RestInv' /\ ActiveInv'
  BY DEF RestInv, ActiveInv, Active, Ends, GivesUp, Repeats, Becomes, Has
<1> QED BY <1>1, <1>2, <1>3 DEF BusInv

LEMMA IsrMasterSendBus ==
    ASSUME TypeInv, BusInv, IsrMasterSend
    PROVE  BusInv'
<1>1. /\ UNCHANGED <<twi_slarw, twi_sendStop, masterLength, pc, call>>
      /\ Active /\ ~ twi_inRepStart /\ hw.bus = "us" /\ call.op = "write"
  BY IsrMasterSendWhere DEF IsrMasterSend, sketchVars
<1>2. CASE masterIndex < masterLength
  <2>1. /\ Becomes("mt", None, masterBuffer[masterIndex], FALSE, TRUE, TRUE, hw.bus)
        /\ UNCHANGED <<twi_state, twi_inRepStart>>
    BY <1>2, IsrMasterSendHw
  <2>2. AloneInv' /\ CallInv'
    BY <1>1, <2>1 DEF BusInv, AloneInv, CallInv, Mine, Becomes, Has
  <2>3. RestInv' /\ ActiveInv'
    BY <1>1, <2>1 DEF RestInv, ActiveInv, Active, Sending, Becomes, Has
  <2> QED BY <2>2, <2>3 DEF BusInv
<1>3. CASE ~ (masterIndex < masterLength)
  BY <1>1, <1>3, IsrMasterSendHw, EndsBus
<1> QED BY <1>2, <1>3

LEMMA IsrMasterFailBus ==
    ASSUME TypeInv, BusInv, IsrMasterFail
    PROVE  BusInv'
<1>1. /\ UNCHANGED <<twi_slarw, twi_sendStop, twi_inRepStart, masterLength, pc, call>>
      /\ Active /\ ~ twi_inRepStart /\ hw.bus = "us" /\ twi_state' = "READY" /\ GivesUp
  BY IsrMasterFailHw, IsrMasterFailWhere DEF IsrMasterFail, sketchVars, masterVars
<1>2. AloneInv' /\ CallInv'
  BY <1>1 DEF BusInv, AloneInv, CallInv, Mine, Active, GivesUp, Becomes, Has
<1>3. RestInv' /\ ActiveInv'
  BY <1>1 DEF RestInv, ActiveInv, Active, GivesUp, Becomes, Has
<1> QED BY <1>2, <1>3 DEF BusInv

LEMMA IsrMasterReceiveBus ==
    ASSUME TypeInv, BusInv, IsrMasterReceive
    PROVE  BusInv'
<1>1. /\ UNCHANGED <<twi_state, twi_slarw, twi_sendStop, twi_inRepStart, masterLength, pc, call>>
      /\ Active /\ ~ twi_inRepStart /\ hw.bus = "us" /\ call.op = "read"
      /\ GoesOn("mr", masterIndex' < masterLength)
  BY IsrMasterReceiveHw, IsrMasterReceiveWhere DEF IsrMasterReceive, sketchVars
<1>2. AloneInv' /\ CallInv'
  BY <1>1 DEF BusInv, AloneInv, CallInv, Mine, GoesOn, Becomes, Has
<1>3. RestInv' /\ ActiveInv'
  BY <1>1 DEF RestInv, ActiveInv, Active, Receiving, GoesOn, Becomes, Has
<1> QED BY <1>2, <1>3 DEF BusInv

LEMMA IsrMasterLastBus ==
    ASSUME TypeInv, BusInv, IsrMasterLast
    PROVE  BusInv'
<1>1. /\ UNCHANGED <<twi_slarw, twi_sendStop, masterLength, pc, call>>
      /\ Active /\ ~ twi_inRepStart /\ hw.bus = "us" /\ Ends
  BY IsrMasterLastHw, IsrMasterLastWhere DEF IsrMasterLast, sketchVars, Receiving
<1> QED BY <1>1, EndsBus

\* The hardware reports.
LEMMA HardwareBus ==
    ASSUME TypeInv, BusInv, Hardware \/ HwBusError
    PROVE  BusInv'
<1>1. UNCHANGED <<driverVars, masterVars, pc, call>>
  BY DEF Hardware, HwStart, HwRepeatedStart, HwAddress, HwTransmit, HwReceive, HwBusError,
         HwVars, sketchVars
<1>2. CallInv' /\ Active' = Active
  BY <1>1 DEF BusInv, CallInv, Mine, Active, driverVars, masterVars
<1>3. CASE HwStart
  <2>1. hw.phase = "idle" /\ hw.twint = None /\ hw.twsta /\ hw.bus = "free" /\ Raises("START", "us")
    BY <1>3, HwStartHw
  <2>2. Active /\ ~ twi_inRepStart
    BY <2>1 DEF BusInv, RestInv, ActiveInv
  <2> QED BY <1>1, <1>2, <2>1, <2>2
          DEF BusInv, AloneInv, MasterStatuses, RestInv, ActiveInv, Starting, Raises, Becomes,
              Has, driverVars
<1>4. CASE HwRepeatedStart
  <2>1. hw.phase = "restart" /\ hw.twint = None /\ Raises("REP_START", hw.bus)
    BY <1>4, HwRepeatedStartHw
  <2>2. ~ Active /\ twi_inRepStart
    BY <2>1 DEF BusInv, RestInv, ActiveInv, Starting, Addressing, Sending, Receiving
  <2> QED BY <1>1, <1>2, <2>1, <2>2
          DEF BusInv, AloneInv, MasterStatuses, RestInv, ActiveInv, Raises, Becomes, Has,
              driverVars
<1>5. CASE HwAddress
  <2>1. /\ hw.phase = "sla" /\ hw.twint = None
        /\ \/ Raises(IF hw.twdr = "W" THEN "MT_SLA_ACK" ELSE "MR_SLA_ACK", hw.bus)
           \/ Raises(IF hw.twdr = "W" THEN "MT_SLA_NACK" ELSE "MR_SLA_NACK", hw.bus)
    BY <1>5, HwAddressHw
  <2>2. Active /\ ~ twi_inRepStart /\ Addressing
    BY <2>1 DEF BusInv, RestInv, ActiveInv, Starting, Sending, Receiving
  <2>3. hw.twdr = IF call.op = "write" THEN "W" ELSE "R"
    BY <2>2 DEF BusInv, CallInv, Active, Addressing
  <2>4. /\ hw'.phase = "sla" /\ hw'.bus = "us" /\ ~ hw'.twsta /\ hw'.twdr = twi_slarw'
        /\ hw'.twint \in IF call.op = "write" THEN {"MT_SLA_ACK", "MT_SLA_NACK"}
                                              ELSE {"MR_SLA_ACK", "MR_SLA_NACK"}
    BY <1>1, <2>1, <2>2, <2>3 DEF Addressing, Raises, Becomes, Has, driverVars
  <2> QED BY <1>1, <1>2, <2>2, <2>4
          DEF BusInv, AloneInv, MasterStatuses, RestInv, ActiveInv, Addressing, driverVars
<1>6. CASE HwTransmit
  <2>1. /\ hw.phase = "mt" /\ hw.twint = None
        /\ Raises("MT_DATA_ACK", hw.bus) \/ Raises("MT_DATA_NACK", hw.bus)
    BY <1>6, HwTransmitHw
  <2>2. Active /\ ~ twi_inRepStart /\ Sending
    BY <2>1 DEF BusInv, RestInv, ActiveInv, Starting, Addressing, Receiving
  <2> QED BY <1>1, <1>2, <2>1, <2>2
          DEF BusInv, AloneInv, MasterStatuses, RestInv, ActiveInv, Sending, Raises, Becomes,
              Has, driverVars
<1>7. CASE HwReceive
  <2>1. /\ hw.phase = "mr" /\ hw.twint = None
        /\ \E b \in Byte : RaisesWith(IF hw.twea THEN "MR_DATA_ACK" ELSE "MR_DATA_NACK", b)
    BY <1>7, HwReceiveHw
  <2>2. Active /\ ~ twi_inRepStart /\ Receiving
    BY <2>1 DEF BusInv, RestInv, ActiveInv, Starting, Addressing, Sending
  <2> QED BY <1>1, <1>2, <2>1, <2>2
          DEF BusInv, AloneInv, MasterStatuses, RestInv, ActiveInv, Receiving, RaisesWith,
              Becomes, Has, driverVars
<1>8. CASE HwBusError
  <2>1. /\ hw.phase \in {"sla", "mt", "mr", "sr", "st"} /\ hw.twint = None /\ Raises("BUS_ERROR", hw.bus)
    BY <1>8, HwBusErrorHw
  <2>2. Active /\ ~ twi_inRepStart /\ (Addressing \/ Sending \/ Receiving)
    BY <2>1 DEF BusInv, RestInv, ActiveInv, Starting
  <2> QED BY <1>1, <1>2, <2>1, <2>2
          DEF BusInv, AloneInv, MasterStatuses, RestInv, ActiveInv, Addressing, Sending,
              Receiving, Raises, Becomes, Has, driverVars
<1> QED BY <1>3, <1>4, <1>5, <1>6, <1>7, <1>8 DEF Hardware

\* The sketch.
LEMMA SketchWaits ==
    ASSUME TypeInv, pc # "wait"
    PROVE  ~ Active
BY DEF Active

LEMMA NewCallBus ==
    ASSUME TypeInv, BusInv, pc = "idle", pc' = "ready", UNCHANGED <<driverVars, masterVars, hw>>
    PROVE  BusInv'
BY DEF BusInv, AloneInv, MasterStatuses, CallInv, Mine, RestInv, ActiveInv, Active, driverVars,
       masterVars

LEMMA CallsBus ==
    ASSUME TypeInv, BusInv, Calls
    PROVE  BusInv'
<1>1. CASE BeginTransmission \/ Write \/ Read
  BY <1>1, BusUntouched DEF BeginTransmission, Write, Read, twiVars, driverVars, masterVars
<1>2. CASE EndTransmission
  BY <1>2, EndTransmissionIs, NewCallBus
<1>3. CASE RequestFrom
  BY <1>3, RequestFromIs, NewCallBus
<1> QED BY <1>1, <1>2, <1>3 DEF Calls

\* The sketch does not go on while a transfer is under way.
LEMMA ReturnsBus ==
    ASSUME TypeInv, BusInv, pc = "wait", twi_state # Mine, pc' = "idle",
           UNCHANGED <<driverVars, masterVars, hw>>
    PROVE  BusInv'
BY DEF BusInv, AloneInv, MasterStatuses, CallInv, Mine, RestInv, ActiveInv, Active, driverVars,
       masterVars

LEMMA ProceedBus ==
    ASSUME TypeInv, BusInv, Proceed
    PROVE  BusInv'
<1>1. CASE WaitReady
  <2>1. pc = "ready" /\ pc' = "claim" /\ twi_state = "READY"
        /\ UNCHANGED <<driverVars, masterVars, hw, call>>
    BY <1>1 DEF WaitReady, At
  <2> QED BY <2>1 DEF BusInv, AloneInv, MasterStatuses, CallInv, Mine, RestInv, ActiveInv, Active,
                      driverVars, masterVars
<1>2. CASE Claim
  <2>1. /\ pc = "claim" /\ pc' = "setup" /\ twi_state' = Mine
        /\ UNCHANGED <<twi_slarw, twi_sendStop, twi_inRepStart, masterLength, hw, call>>
    BY <1>2 DEF Claim, At, Mine, masterVars
  <2> QED BY <2>1 DEF BusInv, AloneInv, MasterStatuses, CallInv, Mine, RestInv, ActiveInv, Active
<1>3. CASE SetUp(TxData)
  <2>1. /\ pc = "setup" /\ pc' = "go" /\ twi_sendStop' = call.stop
        /\ twi_slarw' = IF call.op = "write" THEN "W" ELSE "R"
        /\ masterLength' = IF call.op = "write" THEN call.length ELSE call.length - 1
        /\ UNCHANGED <<twi_state, twi_inRepStart, hw, call>>
    BY <1>3, SetUpIs
  <2> QED BY <2>1 DEF BusInv, AloneInv, MasterStatuses, CallInv, Mine, RestInv, ActiveInv, Active
<1>4. CASE Go
  <2>1. /\ pc = "go" /\ pc' = "wait" /\ twi_inRepStart' = FALSE
        /\ UNCHANGED <<twi_state, twi_slarw, twi_sendStop, masterLength, call>>
    BY <1>4 DEF Go, At, masterVars
  <2>2. CallInv' /\ Active'
    BY <2>1 DEF BusInv, CallInv, Mine, Active
  <2>3. twi_inRepStart \in BOOLEAN
    BY DEF TypeInv, DriverTypeOK
  <2>4. CASE twi_inRepStart
    <3>1. hw.bus = "us"
      BY <2>1, <2>4 DEF BusInv, RestInv, Active
    <3> QED BY <1>4, <2>1, <2>2, <2>4, <3>1, GoHw
            DEF BusInv, AloneInv, RestInv, ActiveInv, Addressing, Becomes, Has
  <2>5. CASE ~ twi_inRepStart
    <3>1. hw.bus = "free" /\ hw.phase = "idle"
      BY <2>1, <2>5 DEF BusInv, RestInv, Active
    <3> QED BY <1>4, <2>1, <2>2, <2>5, <3>1, GoHw
            DEF BusInv, AloneInv, RestInv, ActiveInv, Starting, Becomes, Has
  <2> QED BY <2>3, <2>4, <2>5
<1>5. CASE ReturnWrite
  BY <1>5, ReturnsBus DEF ReturnWrite, At, Mine
<1>6. CASE Ended \/ RequestIndex \/ RequestLength \/ Advance
  <2>1. UNCHANGED <<driverVars, masterVars, hw, pc, call>>
    BY <1>6
    DEF Ended, RequestIndex, RequestLength, Advance, Forget, twiVars, driverVars, masterVars
  <2> QED BY <2>1, BusUntouched
<1>7. CASE RegisterSent
  BY <1>7, RegisterSentIs, NewCallBus
<1>8. CASE RequestCopied
  BY <1>8, RequestCopiedIs, ReturnReadIs, ReturnsBus DEF Mine
<1> QED BY <1>1, <1>2, <1>3, <1>4, <1>5, <1>6, <1>7, <1>8 DEF Proceed

LEMMA BusKept ==
    ASSUME ~ OtherMaster, TypeInv, BusInv, [WireNext]_vars
    PROVE  BusInv'
<1>1. CASE UNCHANGED vars
  BY <1>1, BusUntouched DEF vars, twiVars, driverVars, masterVars
<1>2. CASE MasterIsr
  BY <1>2, IsrStartBus, IsrMasterSendBus, IsrMasterFailBus, IsrMasterReceiveBus, IsrMasterLastBus
  DEF MasterIsr
<1>3. AloneInv
  BY DEF BusInv
<1> QED BY <1>1, <1>2, <1>3, AloneSteps, HardwareBus, CallsBus, ProceedBus

-----------------------------------------------------------------------------
\* The data of a transfer.

\* Nothing has gone over the bus yet, or one byte more has.
LEMMA CarriedNone ==
    ASSUME peer = <<>>
    PROVE  Carried(0)
BY DEF Carried

LEMMA CarriedMore ==
    ASSUME TypeInv, NEW n \in Nat, Carried(n), NEW b \in Byte, b = masterBuffer[n], peer' = Append(peer, b),
           masterBuffer' = masterBuffer
    PROVE  Carried(n + 1)'
<1>1. /\ Len(Append(peer, b)) = n + 1 /\ \A k \in 1 .. n : Append(peer, b)[k] = peer[k]
      /\ Append(peer, b)[n + 1] = b
  BY AppendProperties DEF TypeInv, SeenTypeOK, Carried
<1>2. ASSUME NEW k \in 1 .. n + 1
      PROVE  peer'[k] = masterBuffer'[k - 1]
  <2>1. CASE k \in 1 .. n
    BY <1>1, <2>1 DEF Carried
  <2>2. CASE k = n + 1
    BY <1>1, <2>2
  <2>3. k \in 1 .. n \/ k = n + 1
    OBVIOUS
  <2> QED BY <2>1, <2>2, <2>3
<1> QED BY <1>1, <1>2 DEF Carried

LEMMA CarriedKept ==
    ASSUME NEW n, Carried(n), UNCHANGED <<peer, masterBuffer>>
    PROVE  Carried(n)'
BY DEF Carried

LEMMA TransferUntouched ==
    ASSUME TransferInv, UNCHANGED <<driverVars, masterVars, hw, pc, call, peer, nacked>>
    PROVE  TransferInv'
BY DEF TransferInv, FreshInv, SendingInv, ReceivingInv, DoneInv, Active, Clean, Carried,
       driverVars, masterVars

\* No transfer is under way before or after the step, and none was.
LEMMA TransferIdle ==
    ASSUME pc' = "idle"
    PROVE  TransferInv'
BY DEF TransferInv, FreshInv, SendingInv, ReceivingInv, DoneInv, Active

\* The transfer is at its end.
LEMMA TransferEnds ==
    ASSUME pc' = "wait", twi_state' = "READY", DoneInv'
    PROVE  TransferInv'
BY DEF TransferInv, FreshInv, SendingInv, ReceivingInv, Active

LEMMA IsrStartTransfer ==
    ASSUME TypeInv, BusInv, TransferInv, IsrStart
    PROVE  TransferInv'
<1>1. /\ UNCHANGED <<twi_state, twi_error, masterVars, pc, call, peer, nacked>>
      /\ hw'.phase = "sla" /\ hw'.twint = None
      /\ Active /\ hw.phase = "idle" /\ hw.twint = "START"
  BY IsrStartHw, IsrStartWhere DEF IsrStart, sketchVars, seenVars, Starting, Becomes, Has
<1>2. None \notin {"MT_SLA_NACK", "MR_SLA_NACK"}
  BY NoneIsApart DEF Statuses
<1> QED BY <1>1, <1>2
DEF TransferInv, FreshInv, SendingInv, ReceivingInv, DoneInv, Active, masterVars

LEMMA IsrMasterSendTransfer ==
    ASSUME TypeInv, BusInv, TransferInv, IsrMasterSend
    PROVE  TransferInv'
<1>1. /\ UNCHANGED <<twi_sendStop, twi_error, masterBuffer, masterLength, pc, call, peer, nacked>>
      /\ Active /\ ~ twi_inRepStart /\ call.op = "write" /\ pc = "wait"
  BY IsrMasterSendWhere DEF IsrMasterSend, sketchVars, seenVars, Active
<1>2. /\ Carried(masterIndex) /\ nacked = "none" /\ twi_error = "none"
      /\ masterIndex \in 0 .. masterLength /\ masterIndex \in Nat /\ masterLength \in Nat
  <2>1. masterIndex \in Nat /\ masterLength \in Nat
    BY BufferAssumption DEF TypeInv, MasterTypeOK
  <2>2. CASE hw.twint = "MT_SLA_ACK"
    <3>1. masterIndex = 0 /\ peer = <<>> /\ nacked = "none" /\ twi_error = "none"
      BY <1>1, <2>2, IsrMasterSendWhere DEF TransferInv, FreshInv, Addressing
    <3> QED BY <2>1, <3>1, CarriedNone
  <2>3. CASE hw.twint = "MT_DATA_ACK"
    <3>1. /\ masterIndex \in 1 .. masterLength /\ Carried(masterIndex)
          /\ nacked = "none" /\ twi_error = "none"
      BY <1>1, <2>3, IsrMasterSendWhere DEF TransferInv, FreshInv, SendingInv, Sending
    <3> QED BY <2>1, <3>1
  <2> QED BY <2>2, <2>3, IsrMasterSendHw
<1>4. CASE masterIndex < masterLength
  <2>1. /\ masterIndex' = masterIndex + 1 /\ twi_state' = twi_state
        /\ hw'.phase = "mt" /\ hw'.twint = None /\ hw'.twdr = masterBuffer[masterIndex]
    BY <1>4, IsrMasterSendHw DEF Becomes, Has
  <2>2. masterIndex' - 1 = masterIndex /\ masterIndex' \in 1 .. masterLength'
    BY <1>1, <1>2, <1>4, <2>1
  <2>3. None \notin {"MT_DATA_ACK", "MT_DATA_NACK"}
    BY NoneIsApart DEF Statuses
  <2>4. SendingInv'
    BY <1>1, <1>2, <2>1, <2>2, <2>3 DEF SendingInv, Carried
  <2> QED BY <1>1, <1>2, <2>1, <2>4 DEF TransferInv, FreshInv, ReceivingInv, DoneInv, Active
<1>5. CASE ~ (masterIndex < masterLength)
  <2>0. masterIndex = masterLength
    BY <1>2, <1>5
  <2>1. Ends /\ masterIndex' = masterIndex /\ masterIndex = masterLength
    BY <1>5, <2>0, IsrMasterSendHw
  <2>2. twi_sendStop = call.stop /\ twi_inRepStart \in BOOLEAN /\ call.stop \in BOOLEAN
    BY <1>1 DEF BusInv, CallInv, TypeInv, DriverTypeOK, SketchTypeOK
  <2>3. twi_inRepStart' = ~ call.stop
    BY <1>1, <2>1, <2>2 DEF Ends
  <2>4. DoneInv'
    BY <1>1, <1>2, <2>1, <2>3 DEF DoneInv, Carried
  <2> QED BY <1>1, <2>1, <2>4, TransferEnds DEF Ends
<1> QED BY <1>4, <1>5

LEMMA IsrMasterFailTransfer ==
    ASSUME TypeInv, BusInv, TransferInv, IsrMasterFail
    PROVE  TransferInv'
<1>1. /\ UNCHANGED <<masterBuffer, masterIndex, masterLength, pc, call, peer, nacked>>
      /\ Active /\ pc = "wait" /\ twi_state' = "READY"
      /\ twi_error' = IF hw.twint = "MR_SLA_NACK" THEN twi_error ELSE hw.twint
  BY IsrMasterFailHw, IsrMasterFailWhere
  DEF IsrMasterFail, sketchVars, seenVars, masterVars, Active
<1>2. CASE call.op = "write"
  <2>1. hw.twint \in {"MT_SLA_NACK", "MT_DATA_NACK", "BUS_ERROR"} /\ twi_error' = hw.twint
    BY <1>1, <1>2, IsrMasterFailWhere
  <2>2. hw.twint = "MT_SLA_NACK" => nacked = "address"
    BY <1>1, IsrMasterFailWhere DEF TransferInv, FreshInv, Addressing
  <2>3. hw.twint = "MT_DATA_NACK" => nacked = "data"
    BY <1>1, IsrMasterFailWhere DEF TransferInv, SendingInv, Sending
  <2> QED BY <1>1, <1>2, <2>1, <2>2, <2>3, TransferEnds DEF DoneInv
<1>3. CASE call.op # "write"
  <2>1. hw.twint \in {"MR_SLA_NACK", "BUS_ERROR"} /\ (Addressing \/ Receiving)
    BY <1>3, IsrMasterFailWhere DEF Sending
  <2>2. masterLength = call.length - 1 /\ masterLength \in Nat /\ masterIndex \in Nat
        /\ call.length \in Nat
    BY <1>1, <1>3, BufferAssumption DEF BusInv, CallInv, TypeInv, MasterTypeOK, SketchTypeOK
  <2>3. Carried(masterIndex) /\ masterIndex <= call.length
    <3>1. CASE Addressing
      <4>1. masterIndex = 0 /\ peer = <<>>
        BY <1>1, <3>1 DEF TransferInv, FreshInv, Addressing
      <4> QED BY <2>2, <4>1, CarriedNone
    <3>2. CASE Receiving
      BY <1>1, <2>1, <2>2, <3>2, IsrMasterFailWhere
      DEF TransferInv, ReceivingInv, Receiving, Addressing
    <3> QED BY <2>1, <3>1, <3>2
  <2> QED BY <1>1, <1>3, <2>3, TransferEnds DEF DoneInv, Carried
<1> QED BY <1>2, <1>3

\* A byte received is stored behind those before it.
LEMMA StoredIs ==
    ASSUME TypeInv, BusInv, TransferInv, Active, Receiving, StoreReceived,
           hw.twint \in {"MR_DATA_ACK", "MR_DATA_NACK"}, UNCHANGED <<peer, call>>
    PROVE  /\ masterIndex' = masterIndex + 1 /\ masterIndex \in Nat /\ masterLength \in Nat
           /\ masterLength = call.length - 1 /\ call.length \in Nat
           /\ Carried(masterIndex)'
<1>1. /\ masterLength = call.length - 1 /\ masterLength \in Nat /\ masterIndex \in Nat /\ call.length \in Nat
      /\ call.length <= BufferLength /\ BufferLength \in Nat /\ hw.twdr \in Byte
  BY BufferAssumption
  DEF Active, Receiving, BusInv, CallInv, TypeInv, MasterTypeOK, SketchTypeOK, HwTypeOK
<1>2. /\ masterIndex <= masterLength /\ Len(peer) = masterIndex + 1 /\ peer[masterIndex + 1] = hw.twdr
      /\ \A k \in 1 .. masterIndex : peer[k] = masterBuffer[k - 1]
  BY DEF TransferInv, ReceivingInv, Receiving
<1>3. masterIndex < BufferLength
  BY <1>1, <1>2
<1>4. /\ masterIndex' = masterIndex + 1
      /\ \A k \in BufferSlots : masterBuffer'[k] = IF k = masterIndex THEN hw.twdr ELSE masterBuffer[k]
  BY <1>1, <1>3, StoreReceivedIs
<1>5. ASSUME NEW k \in 1 .. masterIndex + 1
      PROVE  peer[k] = masterBuffer'[k - 1]
  <2>1. k \in Nat /\ k - 1 \in 0 .. BufferLength - 1 /\ (k - 1 = masterIndex <=> k = masterIndex + 1)
    BY <1>1, <1>3
  <2>2. CASE k = masterIndex + 1
    BY <1>2, <1>4, <2>1, <2>2 DEF BufferSlots
  <2>3. CASE k # masterIndex + 1
    <3>1. k \in 1 .. masterIndex
      BY <1>1, <2>1, <2>3
    <3> QED BY <1>2, <1>4, <2>1, <2>3, <3>1 DEF BufferSlots
  <2> QED BY <2>2, <2>3
<1> QED BY <1>1, <1>2, <1>4, <1>5 DEF Carried

LEMMA IsrMasterReceiveTransfer ==
    ASSUME TypeInv, BusInv, TransferInv, IsrMasterReceive
    PROVE  TransferInv'
<1>1. /\ UNCHANGED <<twi_state, twi_error, masterLength, pc, call, peer, nacked>>
      /\ Active /\ pc = "wait" /\ call.op = "read"
      /\ hw'.phase = "mr" /\ hw'.twint = None /\ hw'.twea = (masterIndex' < masterLength)
  BY IsrMasterReceiveHw, IsrMasterReceiveWhere
  DEF IsrMasterReceive, sketchVars, seenVars, Active, GoesOn, Becomes, Has
<1>3. Carried(masterIndex)' /\ masterIndex' <= masterLength'
  <2>1. CASE Interrupt("MR_DATA_ACK") /\ StoreReceived
    <3>1. hw.twint = "MR_DATA_ACK" /\ Receiving
      BY <2>1, IsrMasterReceiveWhere DEF Interrupt
    <3>2. masterIndex' = masterIndex + 1 /\ masterIndex \in Nat /\ masterLength \in Nat
          /\ Carried(masterIndex)'
      BY <1>1, <2>1, <3>1, StoredIs
    <3>3. masterIndex < masterLength
      BY <1>1, <3>1 DEF TransferInv, ReceivingInv, Receiving
    <3> QED BY <1>1, <3>2, <3>3
  <2>2. CASE Interrupt("MR_SLA_ACK") /\ UNCHANGED <<masterBuffer, masterIndex>>
    <3>1. hw.twint = "MR_SLA_ACK" /\ Addressing
      BY <2>2, IsrMasterReceiveWhere DEF Interrupt
    <3>2. masterIndex = 0 /\ peer = <<>> /\ masterLength \in Nat
      BY <1>1, <3>1, BufferAssumption DEF TransferInv, FreshInv, Addressing, TypeInv, MasterTypeOK
    <3> QED BY <1>1, <2>2, <3>2 DEF Carried
  <2> QED BY <2>1, <2>2 DEF IsrMasterReceive
<1>4. None \notin {"MR_DATA_ACK", "MR_DATA_NACK", "BUS_ERROR"}
  BY NoneIsApart DEF Statuses
<1>5. ReceivingInv'
  BY <1>1, <1>3, <1>4 DEF ReceivingInv
<1>6. twi_error = "none"
  BY <1>1 DEF TransferInv, FreshInv
<1> QED BY <1>1, <1>5, <1>6 DEF TransferInv, FreshInv, SendingInv, DoneInv, Active

LEMMA IsrMasterLastTransfer ==
    ASSUME TypeInv, BusInv, TransferInv, IsrMasterLast
    PROVE  TransferInv'
<1>1. /\ UNCHANGED <<masterLength, pc, call, peer, nacked>> /\ StoreReceived
      /\ Active /\ pc = "wait" /\ Receiving /\ hw.twint = "MR_DATA_NACK" /\ twi_state' = "READY"
  BY IsrMasterLastHw, IsrMasterLastWhere DEF IsrMasterLast, sketchVars, seenVars, Active, Ends
<1>2. /\ masterIndex' = masterIndex + 1 /\ masterIndex \in Nat /\ masterLength = call.length - 1
      /\ call.length \in Nat /\ Carried(masterIndex)'
  BY <1>1, StoredIs
<1>3. masterIndex = masterLength /\ call.op = "read"
  BY <1>1 DEF TransferInv, ReceivingInv, Receiving
<1>4. Carried(masterIndex)' /\ masterIndex' <= call'.length
  BY <1>1, <1>2, <1>3
<1> QED BY <1>1, <1>3, <1>4, TransferEnds DEF DoneInv

\* The hardware reports what the device did.
LEMMA HardwareTransfer ==
    ASSUME TypeInv, BusInv, TransferInv, Hardware \/ HwBusError
    PROVE  TransferInv'
<1>1. UNCHANGED <<driverVars, masterVars, pc, call>>
  BY DEF Hardware, HwStart, HwRepeatedStart, HwAddress, HwTransmit, HwReceive, HwBusError,
         HwVars, sketchVars
<1>2. Active' = Active /\ masterIndex \in Nat /\ masterLength \in Nat /\ masterBuffer \in Buffers
  BY <1>1, BufferAssumption DEF Active, driverVars, TypeInv, MasterTypeOK
<1>3. CASE HwStart
  <2>1. /\ hw.phase = "idle" /\ hw.twint = None /\ hw'.phase = "idle" /\ hw'.twint = "START"
        /\ UNCHANGED <<peer, nacked>>
    BY <1>3, HwStartHw DEF HwStart, seenVars, Raises, Becomes, Has
  <2>2. None \notin {"MT_SLA_NACK", "MR_SLA_NACK"}
    BY NoneIsApart DEF Statuses
  <2> QED BY <1>1, <2>1, <2>2 DEF TransferInv, FreshInv, SendingInv, ReceivingInv, DoneInv, Active, Clean,
                      Carried, driverVars, masterVars
<1>4. CASE HwRepeatedStart
  <2>1. hw.phase = "restart" /\ hw'.phase = "restart" /\ UNCHANGED <<peer, nacked>>
    BY <1>4, HwRepeatedStartHw DEF HwRepeatedStart, seenVars, Raises, Becomes, Has
  <2> QED BY <1>1, <2>1 DEF TransferInv, FreshInv, SendingInv, ReceivingInv, DoneInv, Active, Clean,
                      Carried, driverVars, masterVars
<1>5. CASE HwAddress
  <2>1. /\ hw.phase = "sla" /\ hw'.phase = "sla" /\ peer' = <<>>
        /\ \/ nacked' = "none" /\ hw'.twint \in {"MT_SLA_ACK", "MR_SLA_ACK"}
           \/ nacked' = "address" /\ hw'.twint \in {"MT_SLA_NACK", "MR_SLA_NACK"}
    BY <1>5, HwAddressHw DEF HwAddress, Raises, Becomes, Has
  <2>2. Active
    BY <1>5, HwAddressHw DEF BusInv, RestInv
  <2> QED BY <1>1, <1>2, <2>1, <2>2 DEF TransferInv, FreshInv, SendingInv, ReceivingInv, DoneInv, Active,
                      driverVars, masterVars
<1>6. CASE HwTransmit
  <2>1. /\ hw.phase = "mt" /\ hw.twint = None /\ hw'.phase = "mt" /\ hw'.twdr = hw.twdr /\ hw.twdr \in Byte
        /\ \/ hw'.twint = "MT_DATA_ACK" /\ peer' = Append(peer, hw.twdr) /\ nacked' = nacked
           \/ hw'.twint = "MT_DATA_NACK" /\ peer' = peer /\ nacked' = "data"
    BY <1>6, HwTransmitHw DEF Raises, Becomes, Has
  <2>2. Active
    BY <2>1 DEF BusInv, RestInv
  <2>3. None \notin {"MT_DATA_ACK", "MT_DATA_NACK"}
    BY NoneIsApart DEF Statuses
  <2>4. /\ masterIndex \in 1 .. masterLength /\ hw.twdr = masterBuffer[masterIndex - 1]
        /\ Carried(masterIndex - 1) /\ nacked = "none" /\ twi_error = "none"
    BY <2>1, <2>2, <2>3 DEF TransferInv, FreshInv, SendingInv
  <2>5. PICK n \in Nat : n = masterIndex - 1
    BY <1>2, <2>4
  <2>6. masterIndex = n + 1 /\ masterIndex' = n + 1 /\ masterBuffer' = masterBuffer
    BY <1>1, <1>2, <2>5 DEF masterVars
  <2>7. CASE hw'.twint = "MT_DATA_ACK" /\ peer' = Append(peer, hw.twdr) /\ nacked' = nacked
    <3>1. Carried(n + 1)'
      BY <2>1, <2>4, <2>5, <2>6, <2>7, CarriedMore
    <3>2. Carried(masterIndex)'
      BY <2>6, <3>1 DEF Carried
    <3>3. SendingInv'
      BY <1>1, <2>1, <2>4, <2>7, <3>2 DEF SendingInv, masterVars
    <3> QED BY <1>1, <2>1, <2>2, <2>4, <3>3 DEF TransferInv, FreshInv, ReceivingInv, DoneInv, Active, driverVars
  <2>8. CASE hw'.twint = "MT_DATA_NACK" /\ peer' = peer /\ nacked' = "data"
    <3>1. Carried(masterIndex - 1)'
      BY <1>1, <2>4, <2>8 DEF Carried, masterVars
    <3>2. SendingInv'
      BY <1>1, <2>1, <2>4, <2>8, <3>1 DEF SendingInv, masterVars
    <3> QED BY <1>1, <2>1, <2>2, <2>4, <3>2 DEF TransferInv, FreshInv, ReceivingInv, DoneInv, Active, driverVars
  <2> QED BY <2>1, <2>7, <2>8
<1>7. CASE HwReceive
  <2>1. PICK b \in Byte :
           /\ RaisesWith(IF hw.twea THEN "MR_DATA_ACK" ELSE "MR_DATA_NACK", b)
           /\ peer' = Append(peer, b)
    BY <1>7, HwReceiveHw
  <2>2. /\ hw.phase = "mr" /\ hw.twint = None /\ hw'.phase = "mr" /\ hw'.twdr = b
        /\ hw'.twint = IF hw.twea THEN "MR_DATA_ACK" ELSE "MR_DATA_NACK"
    BY <1>7, <2>1, HwReceiveHw DEF RaisesWith, Becomes, Has
  <2>3. Active
    BY <2>2 DEF BusInv, RestInv
  <2>4. /\ masterIndex <= masterLength /\ Carried(masterIndex) /\ hw.twea = (masterIndex < masterLength)
        /\ twi_error = "none"
    BY <2>2, <2>3 DEF TransferInv, FreshInv, ReceivingInv
  <2>5. /\ Len(peer') = masterIndex + 1 /\ peer'[masterIndex + 1] = b
        /\ \A k \in 1 .. masterIndex : peer'[k] = masterBuffer[k - 1]
    BY <2>1, <2>4, AppendProperties DEF Carried, TypeInv, SeenTypeOK
  <2>6. hw.twea => masterIndex < masterLength
    BY <2>4
  <2>7. ~ hw.twea => masterIndex = masterLength
    <3>1. masterIndex \in Nat /\ masterLength \in Nat
      BY <1>2
    <3>2. ~ hw.twea => ~ (masterIndex < masterLength)
      BY <2>4
    <3>3. masterIndex <= masterLength
      BY <2>4
    <3>4. ~ (masterIndex < masterLength) => masterIndex = masterLength
      BY <3>1, <3>3
    <3> QED BY <3>2, <3>4
  <2>8. "MR_DATA_ACK" \notin {None, "BUS_ERROR"} /\ "MR_DATA_NACK" \notin {None, "BUS_ERROR"}
    BY NoneIsApart DEF Statuses
  <2>9. ReceivingInv'
    BY <1>1, <2>2, <2>4, <2>5, <2>6, <2>7, <2>8 DEF ReceivingInv, masterVars
  <2> QED BY <1>1, <2>2, <2>3, <2>4, <2>9 DEF TransferInv, FreshInv, SendingInv, DoneInv, Active, driverVars
<1>8. CASE HwBusError
  <2>1. /\ hw'.phase = hw.phase /\ hw.twint = None /\ hw'.twint = "BUS_ERROR" /\ hw'.twdr = hw.twdr
        /\ hw'.twea = hw.twea /\ UNCHANGED <<peer, nacked>>
    BY <1>8, HwBusErrorHw DEF HwBusError, seenVars, Raises, Becomes, Has
  <2>2. None \notin {"MT_SLA_NACK", "MR_SLA_NACK", "MT_DATA_ACK", "MT_DATA_NACK", "MR_DATA_ACK", "MR_DATA_NACK"}
    BY NoneIsApart DEF Statuses
  <2>3. FreshInv' /\ DoneInv'
    BY <1>1, <2>1, <2>2
    DEF TransferInv, FreshInv, DoneInv, Active, Clean, Carried, driverVars, masterVars
  <2>4. SendingInv'
    BY <1>1, <2>1, <2>2 DEF TransferInv, SendingInv, Active, Carried, driverVars, masterVars
  <2>5. ReceivingInv'
    BY <1>1, <2>1, <2>2 DEF TransferInv, ReceivingInv, Active, Carried, driverVars, masterVars
  <2> QED BY <2>3, <2>4, <2>5 DEF TransferInv
<1> QED BY <1>3, <1>4, <1>5, <1>6, <1>7, <1>8 DEF Hardware

\* The sketch.
LEMMA NewCallTransfer ==
    ASSUME pc' = "ready", peer' = <<>>, nacked' = "none"
    PROVE  TransferInv'
BY DEF TransferInv, FreshInv, SendingInv, ReceivingInv, DoneInv, Active, Clean

LEMMA CallsTransfer ==
    ASSUME TypeInv, TransferInv, Calls
    PROVE  TransferInv'
<1>1. CASE BeginTransmission \/ Write \/ Read
  BY <1>1, TransferUntouched DEF BeginTransmission, Write, Read, twiVars, driverVars, masterVars
<1>2. CASE EndTransmission
  BY <1>2, EndTransmissionIs, NewCallTransfer
<1>3. CASE RequestFrom
  BY <1>3, RequestFromIs, NewCallTransfer
<1> QED BY <1>1, <1>2, <1>3 DEF Calls

LEMMA ProceedTransfer ==
    ASSUME TypeInv, BusInv, TransferInv, Proceed
    PROVE  TransferInv'
<1>1. CASE WaitReady \/ Claim
  <2>1. pc \in {"ready", "claim"} /\ pc' \in {"claim", "setup"} /\ UNCHANGED <<peer, nacked>>
    BY <1>1 DEF WaitReady, Claim, At, seenVars
  <2> QED BY <2>1 DEF TransferInv, FreshInv, SendingInv, ReceivingInv, DoneInv, Active, Clean
<1>2. CASE SetUp(TxData)
  <2>1. /\ pc = "setup" /\ pc' = "go" /\ masterIndex' = 0 /\ twi_error' = "none"
        /\ UNCHANGED <<peer, nacked>>
    BY <1>2, SetUpIs DEF seenVars
  <2> QED BY <2>1 DEF TransferInv, FreshInv, SendingInv, ReceivingInv, DoneInv, Active, Clean
<1>3. CASE Go
  <2>1. /\ pc = "go" /\ pc' = "wait" /\ UNCHANGED <<twi_state, twi_error, masterIndex, peer, nacked>>
    BY <1>3 DEF Go, At, masterVars, seenVars
  <2>2. twi_state # "READY"
    BY <2>1 DEF BusInv, CallInv, Mine
  <2>3. hw'.phase \in {"idle", "sla"} /\ hw'.twint = None
    <3>1. ~ twi_inRepStart => hw.phase = "idle"
      BY <2>1 DEF BusInv, RestInv, Active
    <3> QED BY <1>3, <3>1, GoHw DEF Becomes, Has
  <2>4. None \notin {"MT_SLA_NACK", "MR_SLA_NACK"}
    BY NoneIsApart DEF Statuses
  <2> QED BY <2>1, <2>2, <2>3, <2>4
          DEF TransferInv, FreshInv, SendingInv, ReceivingInv, DoneInv, Active, Clean
<1>4. CASE ReturnWrite \/ RequestCopied
  BY <1>4, RequestCopiedIs, ReturnReadIs, TransferIdle DEF ReturnWrite
<1>5. CASE Ended \/ RequestIndex \/ RequestLength \/ Advance
  <2>1. pc' = "idle"
    BY <1>5 DEF Ended, RequestIndex, RequestLength, Advance, InSketch, At, Forget, twiVars
  <2> QED BY <2>1, TransferIdle
<1>6. CASE RegisterSent
  BY <1>6, RegisterSentIs, NewCallTransfer
<1> QED BY <1>1, <1>2, <1>3, <1>4, <1>5, <1>6 DEF Proceed

LEMMA TransferKept ==
    ASSUME ~ OtherMaster, TypeInv, BusInv, TransferInv, [WireNext]_vars
    PROVE  TransferInv'
<1>1. CASE UNCHANGED vars
  BY <1>1, TransferUntouched DEF vars, twiVars, driverVars, masterVars
<1>2. CASE MasterIsr
  BY <1>2, IsrStartTransfer, IsrMasterSendTransfer, IsrMasterFailTransfer,
  IsrMasterReceiveTransfer,
     IsrMasterLastTransfer DEF MasterIsr
<1>3. AloneInv
  BY DEF BusInv
<1> QED BY <1>1, <1>2, <1>3, AloneSteps, HardwareTransfer, CallsTransfer, ProceedTransfer

-----------------------------------------------------------------------------
\* What Wire gave to the driver, and what it got back.

\* Between transfers only a START of the board's own is left to be sent.
LEMMA RestSteps ==
    ASSUME TypeInv, BusInv, ~ Active, MasterIsr \/ Hardware \/ HwBusError
    PROVE  UNCHANGED <<driverVars, masterVars, sketchVars, peer, nacked>>
<1>1. ~ hw.twsta /\ hw.phase \in {"restart", "idle"}
  BY DEF BusInv, RestInv
<1>2. ~ MasterIsr
  BY IsrStartWhere, IsrMasterSendWhere, IsrMasterFailWhere, IsrMasterReceiveWhere,
  IsrMasterLastWhere
  DEF MasterIsr
<1>3. ~ HwStart /\ ~ HwAddress /\ ~ HwTransmit /\ ~ HwReceive /\ ~ HwBusError
  BY <1>1, HwStartHw, HwAddressHw, HwTransmitHw, HwReceiveHw, HwBusErrorHw
<1>4. HwRepeatedStart
  BY <1>2, <1>3 DEF Hardware
<1> QED BY <1>4 DEF HwRepeatedStart, HwVars, seenVars

\* While a transfer is under way, the sketch waits for it.
LEMMA SketchWaiting ==
    ASSUME TypeInv, SketchInv, Active, UNCHANGED <<pc, call, result, step, wireRx, wireTx, request>>,
           call.op = "write" => masterBuffer' = masterBuffer
    PROVE  SketchInv'
<1>1. pc = "wait" /\ step \notin {"copied", "indexed"}
  BY DEF Active, TypeInv, PlaceInv
<1>2. CopiedInv' /\ ResultIsTrue' /\ KeepInv'
  BY <1>1 DEF SketchInv, CopiedInv, ResultIsTrue, Written, KeepInv
<1>3. GivenInv'
  BY <1>1 DEF SketchInv, GivenInv, TypeInv, PlaceInv
<1> QED BY <1>2, <1>3 DEF SketchInv

LEMMA SketchUntouched ==
    ASSUME SketchInv, UNCHANGED <<twi_inRepStart, masterBuffer, pc, call, result, peer, nacked,
                                  step, wireRx, wireTx, request>>
    PROVE  SketchInv'
<1>1. TxData' = TxData
  BY DEF TxData
<1>2. ResultIsTrue'
  BY <1>1 DEF SketchInv, ResultIsTrue, Written
<1> QED BY <1>2 DEF SketchInv, GivenInv, KeepInv, CopiedInv

\* No call is under way after the step.
LEMMA SketchIdle ==
    ASSUME step' \in {"idle", "advance"}
    PROVE  SketchInv'
BY DEF SketchInv, GivenInv, KeepInv, CopiedInv, ResultIsTrue, Written

LEMMA MasterIsrSketch ==
    ASSUME TypeInv, BusInv, SketchInv, MasterIsr, UNCHANGED wireVars
    PROVE  SketchInv'
<1>1. Active
  BY IsrStartWhere, IsrMasterSendWhere, IsrMasterFailWhere, IsrMasterReceiveWhere,
  IsrMasterLastWhere
  DEF MasterIsr
<1>2. UNCHANGED <<pc, call, result, step, wireRx, wireTx, request>>
  BY DEF MasterIsr, IsrStart, IsrMasterSend, IsrMasterFail, IsrMasterReceive, IsrMasterLast,
         sketchVars, wireVars
<1>3. call.op = "write" => ~ IsrMasterReceive /\ ~ IsrMasterLast
  BY IsrMasterReceiveWhere, IsrMasterLastWhere DEF Receiving
<1>4. call.op = "write" => masterBuffer' = masterBuffer
  BY <1>3 DEF MasterIsr, IsrStart, IsrMasterSend, IsrMasterFail, masterVars
<1> QED BY <1>1, <1>2, <1>4, SketchWaiting

LEMMA HardwareSketch ==
    ASSUME TypeInv, BusInv, SketchInv, Hardware \/ HwBusError, UNCHANGED wireVars
    PROVE  SketchInv'
<1>1. UNCHANGED <<twi_inRepStart, masterBuffer, pc, call, result, step, wireRx, wireTx, request>>
  BY DEF Hardware, HwStart, HwRepeatedStart, HwAddress, HwTransmit, HwReceive, HwBusError, HwVars,
         driverVars, masterVars, sketchVars, wireVars
<1>2. CASE Active
  BY <1>1, <1>2, SketchWaiting
<1>3. CASE ~ Active
  BY <1>1, <1>3, RestSteps, SketchUntouched
<1> QED BY <1>2, <1>3

\* A write is given what Wire's buffer holds.
LEMMA EndTransmissionSketch ==
    ASSUME TypeInv, EndTransmission
    PROVE  SketchInv'
<1>1. /\ step' = "ending" /\ pc' = "ready" /\ call'.length = wireTx.length /\ wireTx' = wireTx
  BY EndTransmissionIs
<1> QED BY <1>1 DEF SketchInv, GivenInv, KeepInv, CopiedInv, ResultIsTrue, Written

\* A register address is sent without a STOP.
LEMMA RequestFromSketch ==
    ASSUME TypeInv, RequestFrom
    PROVE  SketchInv'
<1>1. /\ pc' = "ready" /\ ~ request'.acked
      /\ \/ step' = "request"
         \/ step' = "register" /\ call'.length = wireTx'.length /\ ~ call'.stop
  <2>1. /\ pc' = "ready" /\ ~ request'.acked
        /\ \/ step' = "request"
           \/ step' = "register" /\ call' = [op |-> "write", length |-> wireTx'.length, stop |-> FALSE]
    BY RequestFromIs
  <2>2. CASE step' = "register" /\ call' = [op |-> "write", length |-> wireTx'.length, stop |-> FALSE]
    BY <2>1, <2>2
  <2> QED BY <2>1, <2>2
<1> QED BY <1>1 DEF SketchInv, GivenInv, KeepInv, CopiedInv, ResultIsTrue, Written

LEMMA SetUpSketch ==
    ASSUME TypeInv, SketchInv, SetUp(TxData), UNCHANGED wireVars
    PROVE  SketchInv'
<1>1. /\ pc = "setup" /\ pc' = "go" /\ UNCHANGED <<twi_inRepStart, call, result, seenVars>>
      /\ UNCHANGED <<step, wireRx, wireTx, request>>
      /\ call.op = "write" =>
            masterBuffer' = [s \in BufferSlots |->
                IF s < call.length THEN TxData[s + 1] ELSE masterBuffer[s]]
  BY SetUpIs DEF wireVars
<1>2. CopiedInv' /\ ResultIsTrue' /\ KeepInv'
  BY <1>1 DEF SketchInv, CopiedInv, ResultIsTrue, Written, KeepInv, TypeInv, PlaceInv
<1>3. ASSUME step \in {"ending", "register"}, NEW k \in 0 .. wireTx.length - 1
      PROVE  masterBuffer'[k] = wireTx.buffer[k]
  <2>1. call.op = "write" /\ call.length = wireTx.length
    BY <1>1, <1>3 DEF TypeInv, PlaceInv, SketchInv, GivenInv
  <2>2. wireTx.length \in 0 .. BufferLength /\ BufferLength \in Nat
    BY BufferAssumption DEF TypeInv, WireTypeOK
  <2>3. k \in BufferSlots /\ k < wireTx.length /\ k + 1 \in 1 .. BufferLength /\ k + 1 - 1 = k
    BY <2>2 DEF BufferSlots
  <2>4. masterBuffer'[k] = TxData[k + 1]
    BY <1>1, <2>1, <2>3
  <2>5. TxData[k + 1] = wireTx.buffer[k]
    BY <2>3, TxDataType DEF TypeInv
  <2> QED BY <2>4, <2>5
<1>4. GivenInv'
  BY <1>1, <1>3 DEF SketchInv, GivenInv
<1> QED BY <1>2, <1>4 DEF SketchInv

\* What a write returns is true.
LEMMA ReturnWriteSketch ==
    ASSUME TypeInv, BusInv, TransferInv, SketchInv, ReturnWrite, UNCHANGED wireVars
    PROVE  SketchInv'
<1>1. /\ pc = "wait" /\ pc' = "idle" /\ call.op = "write" /\ twi_state # "MTX"
      /\ result' = [NoResult EXCEPT !.code = WriteResult]
      /\ UNCHANGED <<twi_inRepStart, peer, nacked, step, wireRx, wireTx, request>>
  BY DEF ReturnWrite, At, driverVars, seenVars, wireVars
<1>2. step \in {"ending", "register"}
  BY <1>1 DEF TypeInv, WireTypeOK, PlaceInv
<1>3. twi_state = "READY" /\ masterLength = call.length
  BY <1>1 DEF BusInv, CallInv, Mine
<1>4. /\ call.length = wireTx.length
      /\ \A k \in 0 .. wireTx.length - 1 : masterBuffer[k] = wireTx.buffer[k]
  BY <1>1, <1>2 DEF SketchInv, GivenInv
<1>5. /\ twi_error = "none" =>
            Carried(masterLength) /\ nacked = "none" /\ twi_inRepStart = ~ call.stop
      /\ twi_error = "MT_SLA_NACK" => nacked = "address"
      /\ twi_error = "MT_DATA_NACK" => nacked = "data"
  BY <1>1, <1>3 DEF TransferInv, DoneInv
<1>6. result'.code = WriteResult
  BY <1>1 DEF NoResult
<1>7. /\ WriteResult = 0 => twi_error = "none"
      /\ WriteResult = 2 => twi_error = "MT_SLA_NACK"
      /\ WriteResult = 3 => twi_error = "MT_DATA_NACK"
      /\ WriteResult \in {0, 2, 3, 4}
  BY DEF WriteResult
<1>8. ASSUME Carried(masterLength)
      PROVE  peer' = SubSeq(TxData', 1, wireTx'.length)
  <2> DEFINE n == wireTx.length
             sent == SubSeq(TxData, 1, n)
  <2>1. /\ n \in 0 .. BufferLength /\ n \in Nat /\ BufferLength \in Nat /\ peer \in Seq(Byte)
        /\ Len(peer) = n /\ \A k \in 1 .. n : peer[k] = masterBuffer[k - 1]
    BY <1>3, <1>4, <1>8, BufferAssumption DEF TypeInv, WireTypeOK, SeenTypeOK, Carried
  <2>2. \A k \in 1 .. BufferLength : TxData[k] \in Byte /\ TxData[k] = wireTx.buffer[k - 1]
    BY TxDataType DEF TypeInv
  <2>3. TxData \in Seq(Byte) /\ Len(TxData) = BufferLength
    BY <2>1, <2>2 DEF TxData
  <2>4. 1 \in Nat \ {0} /\ n \in 0 .. Len(TxData)
    BY <2>1, <2>3
  <2> HIDE DEF n
  <2>5. /\ sent \in Seq(Byte) /\ Len(sent) = IF 1 <= n THEN n - 1 + 1 ELSE 0
        /\ \A k \in 1 .. n - 1 + 1 : sent[k] = TxData[1 + k - 1]
    BY <2>3, <2>4, SubSeqType
  <2> HIDE DEF sent
  <2>6. Len(sent) = n
    BY <2>1, <2>5
  <2>7. ASSUME NEW k \in 1 .. Len(peer)
        PROVE  peer[k] = sent[k]
    <3>1. /\ k \in 1 .. n /\ k \in 1 .. n - 1 + 1 /\ 1 + k - 1 = k /\ k \in 1 .. BufferLength
          /\ k - 1 \in 0 .. n - 1
      BY <2>1
    <3>2. sent[k] = wireTx.buffer[k - 1]
      BY <2>2, <2>5, <3>1
    <3>3. peer[k] = wireTx.buffer[k - 1]
      BY <1>4, <2>1, <3>1 DEF n
    <3> QED BY <3>2, <3>3
  <2>8. peer = sent
    BY <2>1, <2>5, <2>6, <2>7, SeqEqual
  <2>9. TxData' = TxData
    BY <1>1 DEF TxData
  <2> QED BY <1>1, <2>8, <2>9 DEF n, sent
<1>9. ResultIsTrue'
  BY <1>1, <1>5, <1>6, <1>7, <1>8 DEF ResultIsTrue
<1>10. KeepInv'
  BY <1>1, <1>2, <1>5, <1>6, <1>7 DEF SketchInv, KeepInv
<1>11. GivenInv' /\ CopiedInv'
  BY <1>1, <1>2 DEF GivenInv, CopiedInv
<1> QED BY <1>9, <1>10, <1>11 DEF SketchInv

\* The read follows on the bus that was kept.
LEMMA RegisterSentSketch ==
    ASSUME TypeInv, SketchInv, RegisterSent
    PROVE  SketchInv'
<1>1. /\ step = "register" /\ step' = "request" /\ pc = "idle" /\ pc' = "ready"
      /\ UNCHANGED twi_inRepStart /\ request' = [request EXCEPT !.acked = result.code = 0]
  BY RegisterSentIs DEF driverVars
<1>2. request'.acked => result.code = 0
  BY <1>1 DEF TypeInv, WireTypeOK
<1> QED BY <1>1, <1>2 DEF SketchInv, GivenInv, KeepInv, CopiedInv, ResultIsTrue, Written

\* What a read copies is what came.
LEMMA RequestCopiedSketch ==
    ASSUME TypeInv, BusInv, TransferInv, SketchInv, RequestCopied
    PROVE  SketchInv'
<1>1. /\ step' = "copied" /\ ReturnRead
      /\ \A k \in 1 .. result'.code : wireRx'.buffer[k - 1] = masterBuffer[k - 1]
  BY RequestCopiedIs
<1>2. /\ pc = "wait" /\ call.op = "read" /\ twi_state # "MRX" /\ peer' = peer
      /\ result'.code = IF masterIndex < call.length THEN masterIndex ELSE call.length
  BY <1>1, ReturnReadIs DEF seenVars
<1>3. twi_state = "READY"
  BY <1>2 DEF BusInv, CallInv, Mine
<1>4. Carried(masterIndex) /\ masterIndex <= call.length
  BY <1>2, <1>3 DEF TransferInv, DoneInv
<1>5. masterIndex \in Nat /\ call.length \in Nat
  BY DEF TypeInv, MasterTypeOK, SketchTypeOK
<1>6. result'.code = masterIndex
  <2>1. masterIndex < call.length \/ masterIndex = call.length
    BY <1>4, <1>5
  <2> QED BY <1>2, <2>1
<1>7. CopiedInv'
  BY <1>1, <1>2, <1>4, <1>6 DEF CopiedInv, Carried
<1> QED BY <1>1, <1>7 DEF SketchInv, GivenInv, KeepInv, ResultIsTrue, Written

LEMMA RequestIndexSketch ==
    ASSUME TypeInv, SketchInv, RequestIndex
    PROVE  SketchInv'
<1>1. /\ step = "copied" /\ step' = "indexed" /\ UNCHANGED <<peer, result>>
      /\ wireRx' = [wireRx EXCEPT !.index = 0]
  BY DEF RequestIndex, InSketch, twiVars
<1>2. wireRx'.index = 0 /\ wireRx'.buffer = wireRx.buffer
  BY <1>1 DEF TypeInv, WireTypeOK
<1>3. CopiedInv'
  BY <1>1, <1>2 DEF SketchInv, CopiedInv
<1> QED BY <1>1, <1>3 DEF SketchInv, GivenInv, KeepInv, ResultIsTrue, Written

LEMMA ProceedSketch ==
    ASSUME TypeInv, BusInv, TransferInv, SketchInv, Proceed
    PROVE  SketchInv'
<1>1. CASE (WaitReady \/ Claim) /\ UNCHANGED wireVars
  <2>1. /\ pc \in {"ready", "claim"} /\ pc' \in {"claim", "setup"}
        /\ UNCHANGED <<twi_inRepStart, masterBuffer, call, result, peer, nacked,
                       step, wireRx, wireTx, request>>
    BY <1>1 DEF WaitReady, Claim, At, driverVars, masterVars, seenVars, wireVars
  <2> QED BY <2>1 DEF SketchInv, GivenInv, KeepInv, CopiedInv, ResultIsTrue, Written, TypeInv, PlaceInv
<1>2. CASE SetUp(TxData) /\ UNCHANGED wireVars
  BY <1>2, SetUpSketch
<1>3. CASE Go /\ UNCHANGED wireVars
  <2>1. /\ pc = "go" /\ pc' = "wait"
        /\ UNCHANGED <<masterBuffer, call, result, peer, nacked, step, wireRx, wireTx, request>>
    BY <1>3 DEF Go, At, masterVars, seenVars, wireVars
  <2> QED BY <2>1 DEF SketchInv, GivenInv, KeepInv, CopiedInv, ResultIsTrue, Written, TypeInv, PlaceInv
<1>4. CASE ReturnWrite /\ UNCHANGED wireVars
  BY <1>4, ReturnWriteSketch
<1>5. CASE Ended \/ RequestLength \/ Advance
  BY <1>5, SketchIdle DEF Ended, RequestLength, Advance
<1>6. CASE RegisterSent \/ RequestCopied \/ RequestIndex
  BY <1>6, RegisterSentSketch, RequestCopiedSketch, RequestIndexSketch
<1> QED BY <1>1, <1>2, <1>3, <1>4, <1>5, <1>6 DEF Proceed

LEMMA SketchKept ==
    ASSUME ~ OtherMaster, TypeInv, BusInv, TransferInv, SketchInv, [WireNext]_vars
    PROVE  SketchInv'
<1>1. CASE UNCHANGED vars
  BY <1>1, SketchUntouched DEF vars, twiVars, wireVars
<1>2. CASE MasterIsr /\ UNCHANGED wireVars
  BY <1>2, MasterIsrSketch
<1>3. CASE (Hardware \/ HwBusError) /\ UNCHANGED wireVars
  BY <1>3, HardwareSketch
<1>4. CASE Calls
  <2>1. CASE BeginTransmission \/ Write \/ Read
    BY <2>1, SketchIdle DEF BeginTransmission, Write, Read, InSketch
  <2> QED BY <1>4, <2>1, EndTransmissionSketch, RequestFromSketch DEF Calls
<1>5. CASE Proceed
  BY <1>5, ProceedSketch
<1>6. AloneInv
  BY DEF BusInv
<1> QED BY <1>1, <1>2, <1>3, <1>4, <1>5, <1>6, AloneSteps

-----------------------------------------------------------------------------
\* The invariants hold at the start.

LEMMA WireBegins ==
    ASSUME WireInit
    PROVE  TypeInv /\ HeardInv /\ BusInv /\ TransferInv /\ SketchInv /\ DueInv
<1>1. TypeInv
  BY TypesBegin
<1>2. /\ twi_state = "READY" /\ twi_inRepStart = FALSE /\ pc = "idle" /\ step = "idle"
      /\ hw.phase = "idle" /\ hw.twint = None /\ ~ hw.twsta /\ hw.bus = "free"
      /\ wireRx.index = 0 /\ wireRx.length = 0 /\ due = <<>> /\ ~ Active
  BY DEF WireInit, TwiInit, DriverInit, HwInit, Active
<1>3. HeardInv
  BY <1>2, NoneIsApart DEF HeardInv, Statuses
<1>4. BusInv
  BY <1>2 DEF BusInv, AloneInv, CallInv, RestInv, ActiveInv
<1>5. TransferInv
  BY <1>2 DEF TransferInv, FreshInv, SendingInv, ReceivingInv, DoneInv
<1>6. SketchInv
  BY <1>2 DEF SketchInv, GivenInv, KeepInv, CopiedInv, ResultIsTrue, Written
<1>7. DueInv
  <2>1. Rest(wireRx.buffer, wireRx.index, wireRx.length) = <<>>
    BY <1>2 DEF Rest
  <2> QED BY <1>2, <2>1 DEF DueInv
<1> QED BY <1>1, <1>3, <1>4, <1>5, <1>6, <1>7

\* A sketch that asks no device for data never copies any.
QuietInv == step \in {"idle", "ending", "advance"}

LEMMA QuietKept ==
    ASSUME Quantities = {}, TypeInv, QuietInv, [WireNext]_vars
    PROVE  QuietInv'
<1>1. ~ RequestFrom
  BY DEF RequestFrom
<1>2. step' = step \/ step' \in {"idle", "ending", "advance"}
  <2>1. ~ RegisterSent /\ ~ RequestCopied /\ ~ RequestIndex
    BY DEF QuietInv, RegisterSent, RequestCopied, RequestIndex, InSketch
  <2> QED BY <1>1, <2>1
          DEF WireNext, Handler, OnReceiveService, OnRequestService, Calls, BeginTransmission,
              Write, EndTransmission, Read, Proceed, Ended, RequestLength, Advance, HardwareStep,
              OtherStep, wireVars, vars
<1> QED BY <1>2 DEF QuietInv

\* The invariant of a board that is the only master, and of a board whose sketch
\* asks no device for data while other masters send to it.
LEMMA AloneWireKept ==
    ASSUME ~ OtherMaster, AloneWireInv, HeardInv, [WireNext]_vars
    PROVE  AloneWireInv' /\ HeardInv'
BY TypesKept, HeardKept, BusKept, TransferKept, SketchKept, DueKept DEF AloneWireInv, SketchInv

QuietWireInv == TypeInv /\ HeardInv /\ DueInv /\ QuietInv

LEMMA QuietWireKept ==
    ASSUME Quantities = {}, QuietWireInv, [WireNext]_vars
    PROVE  QuietWireInv'
BY TypesKept, HeardKept, DueKept, QuietKept DEF QuietWireInv, QuietInv

LEMMA AloneWire ==
    ASSUME ~ OtherMaster
    PROVE  WireSpec => []AloneWireInv
<1>1. WireInit => AloneWireInv /\ HeardInv
  BY WireBegins DEF AloneWireInv
<1>2. (AloneWireInv /\ HeardInv) /\ [WireNext]_vars => (AloneWireInv /\ HeardInv)'
  BY AloneWireKept
<1> QED BY <1>1, <1>2, PTL DEF WireSpec

\* Between transfers the board keeps the bus only for the repeated start it was
\* asked for: after a STOP, a refusal and a failure of the bus alike it is free.
THEOREM WireBusIsReleased ==
    ASSUME ~ OtherMaster
    PROVE  WireSpec => []BusIsReleased
<1>1. AloneWireInv => BusIsReleased
  BY DEF AloneWireInv, BusInv, RestInv, Active, BusIsReleased
<1> QED BY <1>1, AloneWire, PTL

\* A register address the device took keeps the bus until the read from that
\* register addresses the device again.
THEOREM WireRegisterThenRead ==
    ASSUME ~ OtherMaster
    PROVE  WireSpec => []RegisterThenRead
<1>1. AloneWireInv => RegisterThenRead
  BY DEF AloneWireInv, SketchInv, KeepInv, BusInv, RestInv, Active, RegisterThenRead
<1> QED BY <1>1, AloneWire, PTL

\* DueInv gives the property as the runs state it.
LEMMA DueIsRest == DueInv => ReadsAreWhatWasSent
BY DEF DueInv, Rest, ReadsAreWhatWasSent

\* endTransmission() returns 0 only if the device took its address and every byte
\* write() took, 2 or 3 exactly if it refused the address or a byte.
THEOREM WireResultIsTrue ==
    ASSUME ~ OtherMaster
    PROVE  WireSpec => []ResultIsTrue
<1>1. AloneWireInv => ResultIsTrue
  BY DEF AloneWireInv, SketchInv
<1> QED BY <1>1, AloneWire, PTL

\* What available() promises and read() is to return is the rest of what a device
\* sent, or another master did: on a board that is the only master, and on any bus
\* for a sketch that only receives.
THEOREM WireReadsAreWhatWasSent ==
    ASSUME ~ OtherMaster \/ Quantities = {}
    PROVE  WireSpec => []ReadsAreWhatWasSent
<1>1. CASE ~ OtherMaster
  <2>1. AloneWireInv => ReadsAreWhatWasSent
    BY DueIsRest DEF AloneWireInv
  <2> QED BY <1>1, <2>1, AloneWire, PTL
<1>2. CASE Quantities = {}
  <2>1. WireInit => QuietWireInv
    <3>1. WireInit => QuietInv
      BY DEF WireInit, QuietInv
    <3> QED BY <3>1, WireBegins DEF QuietWireInv
  <2>2. QuietWireInv /\ [WireNext]_vars => QuietWireInv'
    BY <1>2, QuietWireKept
  <2>3. QuietWireInv => ReadsAreWhatWasSent
    BY DueIsRest DEF QuietWireInv
  <2> QED BY <2>1, <2>2, <2>3, PTL DEF WireSpec
<1> QED BY <1>1, <1>2
=============================================================================
