-------------------------------- MODULE Twi --------------------------------
(***************************************************************************)
(* The two-wire driver (libraries/Wire/src/utility/twi.c): twi_writeTo()   *)
(* and twi_readFrom(), which the sketch calls through Wire and which wait  *)
(* for the interrupt handler to carry the transfer out; the handler, which *)
(* also answers when another master addresses the board; and the TWI       *)
(* hardware with the bus and its other devices.                            *)
(*                                                                         *)
(* The hardware holds the bus from the moment it raises its interrupt      *)
(* until TWCR is written, so the handler is one step.  The handler runs    *)
(* between any two steps of the sketch.                                    *)
(***************************************************************************)
EXTENDS Naturals, Sequences

CONSTANTS
    Byte,           \* the values a byte takes
    Zero,           \* the byte 0x00
    None,           \* no value
    BufferLength,   \* TWI_BUFFER_LENGTH
    IndexRange,     \* how many values an index has: 256 for uint8_t
    BusFails,       \* whether the bus may break down in a transfer
    OtherMaster     \* whether another master is on the bus

ASSUME BufferAssumption ==
    /\ BufferLength \in Nat \ {0} /\ IndexRange \in Nat
    /\ BufferLength < IndexRange

\* What the hardware reports: a status of twi.h (without its TW_).
Statuses ==
    {"START", "REP_START", "MT_SLA_ACK", "MT_SLA_NACK", "MT_DATA_ACK", "MT_DATA_NACK",
     "MR_SLA_ACK", "MR_SLA_NACK", "MR_DATA_ACK", "MR_DATA_NACK", "ARB_LOST", "BUS_ERROR",
     "SR_SLA_ACK", "SR_ARB_LOST_SLA_ACK", "SR_DATA_ACK", "SR_DATA_NACK", "SR_STOP",
     "ST_SLA_ACK", "ST_ARB_LOST_SLA_ACK", "ST_DATA_ACK", "ST_DATA_NACK", "ST_LAST_DATA"}

ASSUME BusAssumption ==
    /\ Zero \in Byte /\ None \notin Byte \cup Statuses \cup Nat
    /\ BusFails \in BOOLEAN /\ OtherMaster \in BOOLEAN

VARIABLES
    twi_state, twi_slarw, twi_sendStop, twi_inRepStart, twi_error,
    masterBuffer, masterIndex, masterLength,    \* twi_masterBuffer...
    txBuffer, txIndex, txLength,                \* twi_txBuffer...
    rxBuffer, rxIndex,                          \* twi_rxBuffer...
    hw,          \* the hardware: see HwInit
    pc,          \* the statement the sketch executes next
    call,        \* the parameters of the call under way
    result,      \* the code and the bytes the last call returned
    peer,        \* what the addressed device acknowledged or sent in this call
    nacked,      \* whether the device refused its address or a byte, last
    heard        \* what another master sends now, the board acknowledged and the
                 \* buffer has room for

driverVars == <<twi_state, twi_slarw, twi_sendStop, twi_inRepStart, twi_error>>
masterVars == <<masterBuffer, masterIndex, masterLength>>
slaveVars  == <<txBuffer, txIndex, txLength, rxBuffer, rxIndex>>
sketchVars == <<pc, call, result>>
seenVars   == <<peer, nacked, heard>>
twiVars == <<twi_state, twi_slarw, twi_sendStop, twi_inRepStart, twi_error,
             masterBuffer, masterIndex, masterLength,
             txBuffer, txIndex, txLength, rxBuffer, rxIndex,
             hw, pc, call, result, peer, nacked, heard>>

BufferSlots == 0 .. BufferLength - 1
States == {"READY", "MRX", "MTX", "SRX", "STX"}

\* twi_init()
DriverInit ==
    /\ twi_state = "READY"
    /\ twi_sendStop = TRUE
    /\ twi_inRepStart = FALSE

\* phase: what the hardware does on the bus; twint: the status it waits with,
\* if any; twdr: its data register; twsta, twea, twie: the bits of TWCR; bus:
\* who owns the bus.
HwInit == hw = [phase |-> "idle", twint |-> None, twdr |-> None,
                twsta |-> FALSE, twea |-> TRUE, twie |-> TRUE, bus |-> "free"]

NoResult == [code |-> None, data |-> <<>>]
NoCall == [op |-> "none", length |-> 0, stop |-> TRUE]

TwiInit ==
    /\ DriverInit /\ HwInit
    /\ twi_slarw = "W" /\ twi_error = "none"
    /\ masterBuffer = [s \in BufferSlots |-> Zero]
    /\ txBuffer = [s \in BufferSlots |-> Zero]
    /\ rxBuffer = [s \in BufferSlots |-> Zero]
    /\ masterIndex = 0 /\ masterLength = 0
    /\ txIndex = 0 /\ txLength = 0 /\ rxIndex = 0
    /\ pc = "idle" /\ call = NoCall /\ result = NoResult
    /\ peer = <<>> /\ nacked = "none" /\ heard = <<>>

-----------------------------------------------------------------------------
\* Writes to TWCR.  Writing a one to TWINT lets the hardware go on from the
\* status it waits with; without TWIE its interrupt is not taken.

PhaseAfter(status) ==
    CASE status \in {"START", "REP_START"} -> "sla"
      [] status \in {"MT_SLA_ACK", "MT_DATA_ACK"} -> "mt"
      [] status \in {"MR_SLA_ACK", "MR_DATA_ACK"} -> "mr"
      [] status \in {"SR_SLA_ACK", "SR_ARB_LOST_SLA_ACK", "SR_DATA_ACK"} -> "sr"
      [] status \in {"ST_SLA_ACK", "ST_ARB_LOST_SLA_ACK", "ST_DATA_ACK"} -> "st"
      [] OTHER -> "idle"

\* The hardware after a write of TWCR with TWINT, and the given other bits.
GoOn(h, ack) ==
    [h EXCEPT !.phase = IF h.twint = None THEN h.phase ELSE PhaseAfter(h.twint),
              !.twint = None, !.twsta = FALSE, !.twea = ack, !.twie = TRUE]

\* With TWSTA, for a transfer: the START follows when the bus is free.
AskForStart(h) == [GoOn(h, TRUE) EXCEPT !.twsta = TRUE]

\* With TWSTA and without TWIE, at the end of a transfer: the START is sent at
\* once, and its interrupt is not taken.
RepeatStart(h) ==
    [h EXCEPT !.phase = "restart", !.twint = None, !.twsta = FALSE,
              !.twea = FALSE, !.twie = FALSE]

\* With TWSTO: the bus is given back.
GiveUp(h) ==
    [h EXCEPT !.phase = "idle", !.twint = None, !.twsta = FALSE, !.twea = TRUE,
              !.twie = TRUE, !.bus = IF h.bus = "us" THEN "free" ELSE h.bus]

\* twi_reply(), twi_stop(), twi_releaseBus()
twi_reply(ack) == hw' = GoOn(hw, ack) /\ UNCHANGED twi_state
twi_stop == hw' = GiveUp(hw) /\ twi_state' = "READY"
twi_releaseBus == hw' = GoOn(hw, TRUE) /\ twi_state' = "READY"

-----------------------------------------------------------------------------
\* The interrupt handler.

Interrupt(status) == hw.twint = status /\ hw.twie

\* A START was sent: the address follows.
IsrStart ==
    /\ \E s \in {"START", "REP_START"} : Interrupt(s)
    /\ hw' = [GoOn(hw, TRUE) EXCEPT !.twdr = twi_slarw]
    /\ UNCHANGED <<twi_state, twi_slarw, twi_sendStop, twi_inRepStart, twi_error, masterVars,
                   slaveVars, sketchVars, seenVars>>

\* The end of a transfer: a STOP, or a START for the next one.
EndTransfer ==
    IF twi_sendStop
    THEN twi_stop /\ UNCHANGED twi_inRepStart
    ELSE /\ twi_inRepStart' = TRUE
         /\ hw' = RepeatStart(hw)
         /\ twi_state' = "READY"

\* Mutant of IsrMasterSend: the last byte is not sent.
IsrMasterSendOneLess ==
    /\ \E s \in {"MT_SLA_ACK", "MT_DATA_ACK"} : Interrupt(s)
    /\ IF masterIndex + 1 < masterLength
       THEN /\ hw' = [GoOn(hw, TRUE) EXCEPT !.twdr = masterBuffer[masterIndex]]
            /\ masterIndex' = masterIndex + 1
            /\ UNCHANGED <<twi_state, twi_inRepStart>>
       ELSE EndTransfer /\ UNCHANGED masterIndex
    /\ UNCHANGED <<twi_slarw, twi_sendStop, twi_error, masterBuffer, masterLength,
                   slaveVars, sketchVars, seenVars>>

\* The device took the address or a byte: send the next, if there is one.
IsrMasterSend ==
    /\ \E s \in {"MT_SLA_ACK", "MT_DATA_ACK"} : Interrupt(s)
    /\ IF masterIndex < masterLength
       THEN /\ hw' = [GoOn(hw, TRUE) EXCEPT !.twdr = masterBuffer[masterIndex]]
            /\ masterIndex' = masterIndex + 1
            /\ UNCHANGED <<twi_state, twi_inRepStart>>
       ELSE EndTransfer /\ UNCHANGED masterIndex
    /\ UNCHANGED <<twi_slarw, twi_sendStop, twi_error, masterBuffer, masterLength,
                   slaveVars, sketchVars, seenVars>>

\* Mutants of IsrMasterFail: no STOP after a refusal; the address is repeated
\* until the device answers.
IsrMasterFailNoStop ==
    /\ \/ \E s \in {"MT_SLA_NACK", "MT_DATA_NACK", "BUS_ERROR", "ARB_LOST"} :
             Interrupt(s) /\ twi_error' = s
       \/ Interrupt("MR_SLA_NACK") /\ UNCHANGED twi_error
    /\ twi_releaseBus
    /\ UNCHANGED <<twi_slarw, twi_sendStop, twi_inRepStart, masterVars, slaveVars,
                   sketchVars, seenVars>>

IsrMasterFailRetries ==
    /\ \/ /\ \E s \in {"MT_SLA_NACK", "MR_SLA_NACK"} : Interrupt(s)
          /\ hw' = [RepeatStart(hw) EXCEPT !.twea = TRUE, !.twie = TRUE]
          /\ UNCHANGED <<twi_state, twi_error>>
       \/ /\ \E s \in {"MT_DATA_NACK", "BUS_ERROR"} : Interrupt(s) /\ twi_error' = s
          /\ twi_stop
    /\ UNCHANGED <<twi_slarw, twi_sendStop, twi_inRepStart, masterVars, slaveVars,
                   sketchVars, seenVars>>

\* The device refused, the bus was lost, or the bus broke down.
IsrMasterFail ==
    /\ \/ /\ \E s \in {"MT_SLA_NACK", "MT_DATA_NACK", "BUS_ERROR"} :
                Interrupt(s) /\ twi_error' = s
          /\ twi_stop
       \/ /\ Interrupt("ARB_LOST")
          /\ twi_error' = "ARB_LOST"
          /\ twi_releaseBus
       \/ /\ Interrupt("MR_SLA_NACK")
          /\ twi_stop
          /\ UNCHANGED twi_error
    /\ UNCHANGED <<twi_slarw, twi_sendStop, twi_inRepStart, masterVars, slaveVars,
                   sketchVars, seenVars>>

\* twi_masterBuffer[twi_masterBufferIndex++] = TWDR: the array has no bounds.
StoreReceived ==
    /\ masterBuffer' = IF masterIndex < BufferLength
                       THEN [masterBuffer EXCEPT ![masterIndex] = hw.twdr]
                       ELSE masterBuffer
    /\ masterIndex' = (masterIndex + 1) % IndexRange

\* The device took the address, or sent a byte that is not the last: the next
\* byte is acknowledged unless it is the last.
IsrMasterReceive ==
    /\ \/ Interrupt("MR_DATA_ACK") /\ StoreReceived
       \/ Interrupt("MR_SLA_ACK") /\ UNCHANGED <<masterBuffer, masterIndex>>
    /\ twi_reply(masterIndex' < masterLength)
    /\ UNCHANGED <<twi_slarw, twi_sendStop, twi_inRepStart, twi_error,
                   masterLength, slaveVars, sketchVars, seenVars>>

\* The last byte.
IsrMasterLast ==
    /\ Interrupt("MR_DATA_NACK")
    /\ StoreReceived
    /\ EndTransfer
    /\ UNCHANGED <<twi_slarw, twi_sendStop, twi_error, masterLength, slaveVars,
                   sketchVars, seenVars>>

\* Another master begins to send to the board, perhaps in an address that
\* lost the board its own transfer.
IsrSlaveReceive ==
    /\ \E s \in {"SR_SLA_ACK", "SR_ARB_LOST_SLA_ACK"} : Interrupt(s)
    /\ twi_state' = "SRX"
    /\ rxIndex' = 0
    /\ hw' = GoOn(hw, TRUE)
    /\ UNCHANGED <<twi_slarw, twi_sendStop, twi_inRepStart, twi_error, masterVars,
                   txBuffer, txIndex, txLength, rxBuffer, sketchVars, seenVars>>

\* A byte of it: stored if there is room.
IsrSlaveByte ==
    /\ Interrupt("SR_DATA_ACK")
    /\ IF rxIndex < BufferLength
       THEN /\ rxBuffer' = [rxBuffer EXCEPT ![rxIndex] = hw.twdr]
            /\ rxIndex' = rxIndex + 1
            /\ twi_reply(TRUE)
       ELSE twi_reply(FALSE) /\ UNCHANGED <<rxBuffer, rxIndex>>
    /\ UNCHANGED <<twi_slarw, twi_sendStop, twi_inRepStart, twi_error, masterVars,
                   txBuffer, txIndex, txLength, sketchVars, seenVars>>

\* A byte the board refused.
IsrSlaveNack ==
    /\ Interrupt("SR_DATA_NACK")
    /\ twi_reply(FALSE)
    /\ UNCHANGED <<twi_slarw, twi_sendStop, twi_inRepStart, twi_error, masterVars,
                   slaveVars, sketchVars, seenVars>>

\* The other master is done: the callback gets what was stored.
Received == [k \in 1 .. rxIndex |-> rxBuffer[k - 1]]

IsrSlaveStop ==
    /\ Interrupt("SR_STOP")
    /\ twi_releaseBus
    /\ rxBuffer' = IF rxIndex < BufferLength
                   THEN [rxBuffer EXCEPT ![rxIndex] = Zero]
                   ELSE rxBuffer
    /\ rxIndex' = 0
    /\ heard' = <<>>
    /\ UNCHANGED <<twi_slarw, twi_sendStop, twi_inRepStart, twi_error, masterVars,
                   txBuffer, txIndex, txLength, sketchVars, peer, nacked>>

\* Send the byte at index of the answer, the last with TWEA off.  Beyond the
\* buffer lies some other byte.
Answer(buffer, index, length) ==
    /\ \E b \in IF index < BufferLength THEN {buffer[index]} ELSE Byte :
          hw' = [GoOn(hw, index + 1 < length) EXCEPT !.twdr = b]
    /\ txBuffer' = buffer
    /\ txIndex' = index + 1
    /\ txLength' = length

\* Another master asks for data: the callback gives some with twi_transmit(),
\* which refuses more than fits; no data is one byte, zero.
IsrSlaveAnswer(reply) ==
    /\ \E s \in {"ST_SLA_ACK", "ST_ARB_LOST_SLA_ACK"} : Interrupt(s)
    /\ twi_state' = "STX"
    /\ LET fits == Len(reply) \in 1 .. BufferLength
           data == IF fits THEN reply ELSE <<Zero>>
       IN  Answer([s \in BufferSlots |->
                     IF s < Len(data) THEN data[s + 1] ELSE txBuffer[s]],
                  0, Len(data))
    /\ UNCHANGED <<twi_slarw, twi_sendStop, twi_inRepStart, twi_error, masterBuffer,
                   masterIndex, masterLength,
                   rxBuffer, rxIndex, sketchVars, seenVars>>

\* It took a byte and wants the next.
IsrSlaveSend ==
    /\ Interrupt("ST_DATA_ACK")
    /\ Answer(txBuffer, txIndex, txLength)
    /\ UNCHANGED <<twi_state, twi_slarw, twi_sendStop, twi_inRepStart, twi_error,
                   masterBuffer, masterIndex, masterLength, rxBuffer, rxIndex, sketchVars, seenVars>>

\* It took the last byte it wants, or the last there is.
IsrSlaveDone ==
    /\ \E s \in {"ST_DATA_NACK", "ST_LAST_DATA"} : Interrupt(s)
    /\ hw' = GoOn(hw, TRUE)
    /\ twi_state' = "READY"
    /\ UNCHANGED <<twi_slarw, twi_sendStop, twi_inRepStart, twi_error, masterVars,
                   slaveVars, sketchVars, seenVars>>

\* The interrupts that call nobody back.
Isr == \/ IsrStart \/ IsrMasterSend \/ IsrMasterFail
       \/ IsrMasterReceive \/ IsrMasterLast
       \/ IsrSlaveReceive \/ IsrSlaveByte \/ IsrSlaveNack
       \/ IsrSlaveSend \/ IsrSlaveDone

-----------------------------------------------------------------------------
\* The sketch.  It does not run while an interrupt is pending.

At(p) == pc = p /\ ~ (hw.twint # None /\ hw.twie)

\* Both calls refuse what does not fit into the buffer.
NewCall(op, length, stop, refusal) ==
    /\ At("idle")
    /\ call' = [op |-> op, length |-> length, stop |-> stop]
    /\ peer' = <<>> /\ nacked' = "none"
    /\ IF length > BufferLength
       THEN pc' = "idle" /\ result' = [NoResult EXCEPT !.code = refusal]
       ELSE pc' = "ready" /\ result' = NoResult
    /\ UNCHANGED <<driverVars, masterVars, slaveVars, hw, heard>>

\* The caller has used the result: nothing of the call is left.
Forget ==
    /\ result' = NoResult
    /\ peer' = <<>> /\ nacked' = "none"
    /\ UNCHANGED <<driverVars, masterVars, slaveVars, hw, pc, call, heard>>

twi_writeTo(length, stop) == NewCall("write", length, stop, 1)
twi_readFrom(length, stop) == NewCall("read", length, stop, 0)

\* while (TWI_READY != twi_state)
WaitReady ==
    /\ At("ready")
    /\ twi_state = "READY"
    /\ pc' = "claim"
    /\ UNCHANGED <<driverVars, masterVars, slaveVars, hw, call, result, seenVars>>

\* The handler may have changed twi_state since WaitReady saw it.
Claim ==
    /\ At("claim")
    /\ twi_state' = IF call.op = "write" THEN "MTX" ELSE "MRX"
    /\ pc' = "setup"
    /\ UNCHANGED <<twi_slarw, twi_sendStop, twi_inRepStart, twi_error, masterVars,
                   slaveVars, hw, call, result, seenVars>>

\* Mutant of SetUp: a read takes a byte too many.
SetUpReadsOneMore(data) ==
    /\ At("setup")
    /\ twi_sendStop' = call.stop
    /\ twi_error' = "none"
    /\ masterIndex' = 0
    /\ masterLength' = call.length
    /\ IF call.op = "write"
       THEN /\ masterBuffer' = [s \in BufferSlots |->
                  IF s < call.length THEN data[s + 1] ELSE masterBuffer[s]]
            /\ twi_slarw' = "W"
       ELSE twi_slarw' = "R" /\ UNCHANGED masterBuffer
    /\ pc' = "go"
    /\ UNCHANGED <<twi_state, twi_inRepStart, slaveVars, hw, call, result,
                   seenVars>>

\* data: what the pointer the call got points to now.  A read gives its length
\* less one, in a byte.
SetUp(data) ==
    /\ At("setup")
    /\ twi_sendStop' = call.stop
    /\ twi_error' = "none"
    /\ masterIndex' = 0
    /\ IF call.op = "write"
       THEN /\ masterLength' = call.length
            /\ masterBuffer' = [s \in BufferSlots |->
                  IF s < call.length THEN data[s + 1] ELSE masterBuffer[s]]
            /\ twi_slarw' = "W"
       ELSE /\ masterLength' = (call.length + IndexRange - 1) % IndexRange
            /\ twi_slarw' = "R"
            /\ UNCHANGED masterBuffer
    /\ pc' = "go"
    /\ UNCHANGED <<twi_state, twi_inRepStart, slaveVars, hw, call, result,
                   seenVars>>

\* After a repeated start TWDR takes the address only once the hardware waits
\* for it (TWWC); otherwise ask for a START.
Go ==
    /\ At("go")
    /\ IF twi_inRepStart
       THEN /\ hw.twint # None
            /\ hw' = [GoOn(hw, TRUE) EXCEPT !.twdr = twi_slarw]
       ELSE hw' = AskForStart(hw)
    /\ twi_inRepStart' = FALSE
    /\ pc' = "wait"
    /\ UNCHANGED <<twi_state, twi_slarw, twi_sendStop, twi_error, masterVars,
                   slaveVars, call, result, seenVars>>

WriteResult == CASE twi_error = "none" -> 0
                 [] twi_error = "MT_SLA_NACK" -> 2
                 [] twi_error = "MT_DATA_NACK" -> 3
                 [] OTHER -> 4

ReturnWrite ==
    /\ At("wait") /\ call.op = "write"
    /\ twi_state # "MTX"
    /\ result' = [NoResult EXCEPT !.code = WriteResult]
    /\ pc' = "idle" /\ call' = NoCall
    /\ UNCHANGED <<driverVars, masterVars, slaveVars, hw, seenVars>>

ReturnRead ==
    /\ At("wait") /\ call.op = "read"
    /\ twi_state # "MRX"
    /\ LET n == IF masterIndex < call.length THEN masterIndex ELSE call.length
       IN  result' = [code |-> n, data |-> [k \in 1 .. n |-> masterBuffer[k - 1]]]
    /\ pc' = "idle" /\ call' = NoCall
    /\ UNCHANGED <<driverVars, masterVars, slaveVars, hw, seenVars>>


-----------------------------------------------------------------------------
\* The hardware and the bus.  The hardware raises its interrupt with a status
\* and holds the bus until TWCR is written.

HwVars == <<driverVars, masterVars, slaveVars, sketchVars>>
Busy(phase) == hw.phase = phase /\ hw.twint = None

HwStart ==
    /\ Busy("idle") /\ hw.twsta /\ hw.bus = "free"
    /\ hw' = [hw EXCEPT !.twint = "START", !.bus = "us"]
    /\ UNCHANGED <<HwVars, seenVars>>

HwRepeatedStart ==
    /\ Busy("restart")
    /\ hw' = [hw EXCEPT !.twint = "REP_START"]
    /\ UNCHANGED <<HwVars, seenVars>>

\* The device answers to its address or not.
HwAddress ==
    /\ Busy("sla")
    /\ \/ /\ hw' = [hw EXCEPT !.twint = IF hw.twdr = "W" THEN "MT_SLA_ACK"
                                                          ELSE "MR_SLA_ACK"]
          /\ nacked' = "none"
       \/ /\ hw' = [hw EXCEPT !.twint = IF hw.twdr = "W" THEN "MT_SLA_NACK"
                                                          ELSE "MR_SLA_NACK"]
          /\ nacked' = "address"
    /\ peer' = <<>>
    /\ UNCHANGED <<HwVars, heard>>

\* The device takes a byte or refuses it.
HwTransmit ==
    /\ Busy("mt")
    /\ \/ /\ hw' = [hw EXCEPT !.twint = "MT_DATA_ACK"]
          /\ peer' = Append(peer, hw.twdr)
          /\ UNCHANGED nacked
       \/ /\ hw' = [hw EXCEPT !.twint = "MT_DATA_NACK"]
          /\ nacked' = "data"
          /\ UNCHANGED peer
    /\ UNCHANGED <<HwVars, heard>>

\* The device sends a byte, which is acknowledged if TWEA is set.
HwReceive ==
    /\ Busy("mr")
    /\ \E b \in Byte :
          /\ hw' = [hw EXCEPT !.twdr = b, !.twint = IF hw.twea THEN "MR_DATA_ACK"
                                                              ELSE "MR_DATA_NACK"]
          /\ peer' = Append(peer, b)
    /\ UNCHANGED <<HwVars, nacked, heard>>

HwBusError ==
    /\ BusFails
    /\ \E phase \in {"sla", "mt", "mr", "sr", "st"} : Busy(phase)
    /\ hw' = [hw EXCEPT !.twint = "BUS_ERROR"]
    /\ UNCHANGED <<HwVars, seenVars>>

Hardware == HwStart \/ HwRepeatedStart \/ HwAddress \/ HwTransmit \/ HwReceive

\* Another master wins the bus while the board sends.  Its address may be the
\* board's.
ArbitrationLost ==
    /\ OtherMaster
    /\ \/ /\ \E phase \in {"sla", "mt"} : Busy(phase)
          /\ hw' = [hw EXCEPT !.twint = "ARB_LOST", !.bus = "other"]
          /\ UNCHANGED heard
       \/ /\ Busy("sla") /\ hw.twea
          /\ \E s \in {"SR_ARB_LOST_SLA_ACK", "ST_ARB_LOST_SLA_ACK"} :
                hw' = [hw EXCEPT !.twint = s, !.bus = "other"]
          /\ heard' = <<>>
    /\ UNCHANGED <<HwVars, peer, nacked>>

\* Another master takes the bus, and gives it back.
OtherSeizes ==
    /\ OtherMaster /\ Busy("idle") /\ hw.bus = "free"
    /\ hw' = [hw EXCEPT !.bus = "other"]
    /\ UNCHANGED <<HwVars, seenVars>>

OtherReleases ==
    /\ Busy("idle") /\ hw.bus = "other"
    /\ hw' = [hw EXCEPT !.bus = "free"]
    /\ UNCHANGED <<HwVars, seenVars>>

\* It addresses the board, which answers if TWEA is set.
OtherAddresses ==
    /\ Busy("idle") /\ hw.bus = "other" /\ hw.twea
    /\ \E s \in {"SR_SLA_ACK", "ST_SLA_ACK"} : hw' = [hw EXCEPT !.twint = s]
    /\ heard' = <<>>
    /\ UNCHANGED <<HwVars, peer, nacked>>

\* What it sends beyond the buffer is never stored: any byte will do.
OtherSends ==
    /\ Busy("sr")
    /\ \E b \in IF Len(heard) < BufferLength THEN Byte ELSE {Zero} :
          /\ hw' = [hw EXCEPT !.twdr = b, !.twint = IF hw.twea THEN "SR_DATA_ACK"
                                                              ELSE "SR_DATA_NACK"]
          /\ heard' = IF hw.twea /\ Len(heard) < BufferLength
                     THEN Append(heard, b) ELSE heard
    /\ UNCHANGED <<HwVars, peer, nacked>>

OtherStops ==
    /\ Busy("sr")
    /\ hw' = [hw EXCEPT !.twint = "SR_STOP", !.bus = "free"]
    /\ UNCHANGED <<HwVars, seenVars>>

\* It takes a byte and wants another or not.
OtherTakes ==
    /\ Busy("st")
    /\ \E s \in {"ST_DATA_NACK", IF hw.twea THEN "ST_DATA_ACK" ELSE "ST_LAST_DATA"} :
          hw' = [hw EXCEPT !.twint = s]
    /\ UNCHANGED <<HwVars, seenVars>>

Other == OtherReleases \/ OtherStops \/ OtherTakes
OtherBegins == OtherSeizes \/ OtherAddresses \/ OtherSends \/ ArbitrationLost

-----------------------------------------------------------------------------
\* Between transfers the board keeps the bus only for a repeated start.
BusIsReleased == pc = "idle" /\ ~ twi_inRepStart => hw.bus # "us"
=============================================================================
