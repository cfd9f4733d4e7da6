-------------------------------- MODULE Wire --------------------------------
(***************************************************************************)
(* TwoWire (libraries/Wire/src/Wire.cpp): the buffers the sketch writes    *)
(* into and reads from, over the driver of module Twi.  The driver's       *)
(* interrupt handler calls onReceiveService() and onRequestService(),      *)
(* which share those buffers with the calls of the sketch.                 *)
(*                                                                         *)
(* BUFFER_LENGTH is TWI_BUFFER_LENGTH.  The sketch has registered both     *)
(* callbacks before any transfer.                                          *)
(***************************************************************************)
EXTENDS Twi, FiniteSetsExt

CONSTANTS
    Bytes,       \* what the sketch writes
    MaxWritten,  \* bound: bytes the sketch writes for one transmission
    Stops,       \* whether a transfer ends with a STOP: a set of BOOLEANs
    Quantities,  \* how many bytes the sketch asks for
    Registers,   \* internal addresses: sequences of bytes, empty for none
    InternalSize, \* the most bytes of an internal address: 3
    Replies      \* what the sketch's user_onRequest() writes

ASSUME WireAssumption ==
    /\ Bytes \subseteq Byte /\ Stops \subseteq BOOLEAN /\ MaxWritten \in Nat
    /\ InternalSize \in 0 .. BufferLength
    /\ \A n \in Quantities : n \in 1 .. IndexRange - 1
    /\ \A r \in Registers \cup Replies : r \in Seq(Byte)

VARIABLES
    wireRx,       \* rxBuffer, rxBufferIndex and rxBufferLength
    wireTx,       \* txBuffer and txBufferLength
    transmitting,
    step,         \* where in Wire the sketch is
    request,      \* the parameters of requestFrom(); whether the register
                  \* address was acknowledged
    due           \* what the sketch has to read still: of what a device sent, or
                  \* of a message from another master

wireVars == <<wireRx, wireTx, transmitting, step, request, due>>
vars == <<twiVars, wireVars>>

NoRequest == [quantity |-> 0, stop |-> TRUE, acked |-> FALSE]

\* begin(address)
WireInit ==
    /\ TwiInit
    /\ wireRx = [buffer |-> [s \in BufferSlots |-> Zero], index |-> 0, length |-> 0]
    /\ wireTx = [buffer |-> [s \in BufferSlots |-> Zero], length |-> 0]
    /\ transmitting = FALSE
    /\ step = "idle"
    /\ request = NoRequest
    /\ due = <<>>

\* buffer with the bytes of data from its start.
Overlay(buffer, data) ==
    [s \in BufferSlots |-> IF s < Len(data) THEN data[s + 1] ELSE buffer[s]]

-----------------------------------------------------------------------------
\* The sketch.  The callback in the handler spoils what the sketch is composing
\* whichever of its stores it comes between, so beginTransmission() and write()
\* are one step each.

InSketch(s) == step = s /\ At("idle")

BeginTransmission ==
    /\ InSketch("idle")
    /\ transmitting' = TRUE
    /\ wireTx' = [wireTx EXCEPT !.length = 0]
    /\ UNCHANGED <<twiVars, wireRx, step, request, due>>

\* A full buffer takes nothing, and write() returns 0.
Write ==
    /\ InSketch("idle") /\ transmitting
    /\ wireTx.length < BufferLength /\ wireTx.length < MaxWritten
    /\ \E b \in Bytes :
          wireTx' = [buffer |-> [wireTx.buffer EXCEPT ![wireTx.length] = b],
                     length |-> wireTx.length + 1]
    /\ UNCHANGED <<twiVars, wireRx, transmitting, step, request, due>>

\* endTransmission(), up to the wait for the transfer.
EndTransmission ==
    /\ InSketch("idle") /\ transmitting
    /\ \E stop \in Stops : twi_writeTo(wireTx.length, stop)
    /\ step' = "ending"
    /\ UNCHANGED <<wireRx, wireTx, transmitting, request, due>>

DoneTransmitting ==
    /\ wireTx' = [wireTx EXCEPT !.length = 0]
    /\ transmitting' = FALSE

Ended ==
    /\ InSketch("ending")
    /\ DoneTransmitting
    /\ Forget
    /\ step' = "idle"
    /\ UNCHANGED <<wireRx, request, due>>

\* Of a longer register address the lowest bytes are sent.
Internal(register) ==
    SubSeq(register, Max({1, Len(register) - InternalSize + 1}), Len(register))

\* Mutant of RequestFrom: the bus is given back after the register address.
RequestFromStops ==
    /\ InSketch("idle") /\ ~ transmitting
    /\ \E q \in Quantities, r \in Registers, stop \in Stops :
          /\ request' = [quantity |-> Min({q, BufferLength}), stop |-> stop, acked |-> FALSE]
          /\ transmitting' = TRUE
          /\ wireTx' = [buffer |-> Overlay(wireTx.buffer, Internal(r)),
                        length |-> Len(Internal(r))]
          /\ twi_writeTo(Len(Internal(r)), TRUE)
          /\ step' = "register"
    /\ UNCHANGED <<wireRx, due>>

\* requestFrom(): a register address is sent first, without a STOP.
RequestFrom ==
    /\ InSketch("idle") /\ ~ transmitting
    /\ \E q \in Quantities, r \in Registers, stop \in Stops :
          /\ request' = [quantity |-> Min({q, BufferLength}), stop |-> stop,
                         acked |-> FALSE]
          /\ IF r = <<>>
             THEN /\ twi_readFrom(request'.quantity, stop)
                  /\ step' = "request"
                  /\ UNCHANGED <<wireTx, transmitting>>
             ELSE /\ transmitting' = TRUE
                  /\ wireTx' = [buffer |-> Overlay(wireTx.buffer, Internal(r)),
                                length |-> Len(Internal(r))]
                  /\ twi_writeTo(Len(Internal(r)), FALSE)
                  /\ step' = "register"
    /\ UNCHANGED <<wireRx, due>>

\* The register address was sent, or refused: the read follows.
RegisterSent ==
    /\ InSketch("register")
    /\ DoneTransmitting
    /\ twi_readFrom(request.quantity, request.stop)
    /\ request' = [request EXCEPT !.acked = result.code = 0]
    /\ step' = "request"
    /\ UNCHANGED <<wireRx, due>>

\* twi_readFrom() copies what came into rxBuffer; the index and the length
\* follow, and the handler may come between.
RequestCopied ==
    /\ step = "request"
    /\ ReturnRead
    /\ wireRx' = [wireRx EXCEPT !.buffer = Overlay(@, result'.data)]
    /\ step' = "copied"
    /\ UNCHANGED <<wireTx, transmitting, request, due>>

RequestIndex ==
    /\ InSketch("copied")
    /\ wireRx' = [wireRx EXCEPT !.index = 0]
    /\ step' = "indexed"
    /\ UNCHANGED <<twiVars, wireTx, transmitting, request, due>>

RequestLength ==
    /\ InSketch("indexed")
    /\ wireRx' = [wireRx EXCEPT !.length = result.code]
    /\ Forget
    /\ step' = "idle"
    /\ due' = peer /\ request' = NoRequest
    /\ UNCHANGED <<wireTx, transmitting>>

Unread == wireRx.index < wireRx.length

\* read(): the byte, then the index.
Read ==
    /\ InSketch("idle")
    /\ Unread
    /\ step' = "advance"
    /\ due' = SubSeq(due, 2, Len(due))
    /\ UNCHANGED <<twiVars, wireRx, wireTx, transmitting, request>>

Advance ==
    /\ InSketch("advance")
    /\ wireRx' = [wireRx EXCEPT !.index = @ + 1]
    /\ step' = "idle"
    /\ UNCHANGED <<twiVars, wireTx, transmitting, request, due>>

-----------------------------------------------------------------------------
\* The callbacks, inside the driver's handler.

\* Mutant of OnReceiveService: data the sketch has not read is overwritten.
OnReceiveServiceAlways ==
    /\ IsrSlaveStop
    /\ \E reads \in {0, rxIndex} :
          /\ wireRx' = [buffer |-> Overlay(wireRx.buffer, Received),
                        index |-> reads, length |-> rxIndex]
          /\ due' = SubSeq(heard, reads + 1, Len(heard))
    /\ UNCHANGED <<wireTx, transmitting, step, request>>

\* A message is dropped if the sketch still has data to read; otherwise
\* user_onReceive() reads all of it or leaves it to the sketch.
OnReceiveService ==
    /\ IsrSlaveStop
    /\ IF Unread
       THEN UNCHANGED <<wireRx, due>>
       ELSE \E reads \in {0, rxIndex} :
               /\ wireRx' = [buffer |-> Overlay(wireRx.buffer, Received),
                             index |-> reads, length |-> rxIndex]
               /\ due' = SubSeq(heard, reads + 1, Len(heard))
    /\ UNCHANGED <<wireTx, transmitting, step, request>>

\* What user_onRequest() writes goes into txBuffer while the sketch composes a
\* transmission of its own, and to the driver otherwise.
OnRequestService ==
    /\ \E reply \in Replies :
          IF transmitting
          THEN LET n == Min({Len(reply), BufferLength}) IN
               /\ IsrSlaveAnswer(<<>>)
               /\ wireTx' = [buffer |-> Overlay(wireTx.buffer, SubSeq(reply, 1, n)),
                             length |-> n]
          ELSE /\ IsrSlaveAnswer(reply)
               /\ wireTx' = [wireTx EXCEPT !.length = 0]
    /\ UNCHANGED <<wireRx, transmitting, step, request, due>>

-----------------------------------------------------------------------------
\* The pointer the call got points to txBuffer.
TxData == [k \in 1 .. BufferLength |-> wireTx.buffer[k - 1]]

Handler == (Isr /\ UNCHANGED wireVars) \/ OnReceiveService \/ OnRequestService

Calls == BeginTransmission \/ Write \/ EndTransmission \/ RequestFrom \/ Read

Proceed ==
    \/ WaitReady /\ UNCHANGED wireVars
    \/ Claim /\ UNCHANGED wireVars
    \/ SetUp(TxData) /\ UNCHANGED wireVars
    \/ Go /\ UNCHANGED wireVars
    \/ ReturnWrite /\ UNCHANGED wireVars
    \/ Ended \/ RegisterSent
    \/ RequestCopied \/ RequestIndex \/ RequestLength
    \/ Advance

HardwareStep == Hardware /\ UNCHANGED wireVars
OtherStep == Other /\ UNCHANGED wireVars

WireNext ==
    \/ Handler \/ Calls \/ Proceed
    \/ HardwareStep \/ OtherStep
    \/ (HwBusError \/ OtherBegins) /\ UNCHANGED wireVars

WireSpec == WireInit /\ [][WireNext]_vars

\* The processor runs; the hardware finishes what it does unless the bus fails;
\* the other master ends what it began, so the bus is free again and again.
WireFairness ==
    /\ WF_vars(Handler) /\ SF_vars(Proceed)
    /\ WF_vars(HardwareStep) /\ SF_vars(HwStart /\ UNCHANGED wireVars)
    /\ WF_vars(OtherStep)

FairWireSpec == WireSpec /\ WireFairness

-----------------------------------------------------------------------------
Written == step \in {"ending", "register"} /\ pc = "idle"

\* What endTransmission() returns is true.  0: the device acknowledged its address
\* and every byte write() took.  2 and 3: it refused its address, or a byte; and
\* unless the bus failed, it says so whenever the device did.  ("0 .. success",
\* the comment of twi_writeTo)
ResultIsTrue ==
    Written =>
        /\ result.code = 0 =>
              peer = SubSeq(TxData, 1, wireTx.length) /\ nacked = "none"
        /\ result.code \in 0 .. 3 =>
              /\ result.code = 2 <=> nacked = "address"
              /\ result.code = 3 <=> nacked = "data"

\* What available() promises and read() is to return is the rest of what the
\* device sent in the last requestFrom(), or of what another master sent since,
\* in order, and without what did not fit into the buffer.
ReadsAreWhatWasSent ==
    step \notin {"copied", "indexed", "advance"} =>
        due = [k \in 1 .. wireRx.length - wireRx.index |->
                  wireRx.buffer[wireRx.index + k - 1]]

\* Once the device took the register address, the bus is kept until the read
\* from that register addresses the device again.
RegisterThenRead ==
    step = "request" /\ request.acked /\ pc \in {"ready", "claim", "setup", "go"} =>
        hw.bus = "us"

\* endTransmission() and requestFrom() return.
CallsReturn == step # "idle" ~> step = "idle"
=============================================================================
