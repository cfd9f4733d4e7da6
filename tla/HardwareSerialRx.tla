-------------------------- MODULE HardwareSerialRx --------------------------
(***************************************************************************)
(* The receive half of HardwareSerial: the receive-complete interrupt      *)
(* stores bytes in a ring that available(), peek() and read() empty, with  *)
(* begin() and end() opening and closing the port.                         *)
(*                                                                         *)
(* The handler runs between any two steps of the sketch while interrupts   *)
(* are on, and the line brings bytes at any time.  Of end(), flush() is    *)
(* left to HardwareSerialTx: it touches nothing of this half.              *)
(***************************************************************************)
EXTENDS Naturals, Sequences, SequencesExt

CONSTANTS Byte,        \* the values a byte takes
          None,        \* no byte
          RxSize,      \* SERIAL_RX_BUFFER_SIZE
          FifoDepth,   \* how many bytes the UART holds before it overruns
          MaxArrivals  \* bound: how many bytes arrive in all

ASSUME RxSizeAssumption == RxSize \in 2..256
ASSUME RxNoneAssumption == None \notin Byte
ASSUME FifoDepthAssumption == FifoDepth \in Nat \ {0}
ASSUME MaxArrivalsAssumption == MaxArrivals \in Nat

VARIABLES
    head, tail,   \* _rx_buffer_head, _rx_buffer_tail
    buf,          \* _rx_buffer
    rxen, rxcie,  \* the receiver and its interrupt are enabled
    fifo,         \* what the UART has received: bytes with their parity flag
    ie,           \* the global interrupt flag, SREG_I
    pc,           \* the statement the sketch executes next
    c,            \* read()'s local
    ready,        \* the last available(), less the reads since
    peeked,       \* what peek() returned, until the next read()
    arrived,      \* how many bytes the line brought (history)
    stored,       \* every byte the handler stored since begin() (history)
    taken,        \* every byte read() returned since begin() (history)
    line,         \* every intact byte the line brought since begin() (history)
    behind        \* a byte came for which there was no room (history)

rxRing == <<head, tail, buf>>
rxUart == <<rxen, rxcie, fifo, arrived>>
rxSketch == <<ie, pc, c, ready, peeked>>
rxHistory == <<stored, taken, line, behind>>
rxVars == <<head, tail, buf, rxen, rxcie, fifo, arrived, ie, pc, c, ready,
            peeked, stored, taken, line, behind>>

RxSlots == 0 .. RxSize - 1
Frame == [byte : Byte, parityError : BOOLEAN]
RxPcs == {"idle", "r_load", "r_store", "p_load", "b_rxcie", "e_rxcie", "e_clear"}

\* The slot after i.
RxSucc(i) == (i + 1) % RxSize

\* available()
Available == (RxSize + head - tail) % RxSize

RxInit ==
    /\ head = 0 /\ tail = 0
    /\ \E zero \in Byte : buf = [s \in RxSlots |-> zero] /\ c = zero
    /\ rxen = FALSE /\ rxcie = FALSE /\ fifo = <<>>
    /\ ie = TRUE /\ pc = "idle"
    /\ ready = 0 /\ peeked = None
    /\ arrived = 0 /\ stored = <<>> /\ taken = <<>>
    /\ line = <<>> /\ behind = FALSE

-----------------------------------------------------------------------------
\* What of the frames the handler is to store.
Intact(frames) ==
    FlattenSeq([k \in 1 .. Len(frames) |->
                   IF frames[k].parityError THEN <<>> ELSE <<frames[k].byte>>])

\* The line brings a byte.  A UART that is full loses it; a ring that will be full
\* when the handler comes to it loses it then.
Arrive ==
    /\ rxen /\ arrived < MaxArrivals
    /\ arrived' = arrived + 1
    /\ \E f \in Frame :
          /\ fifo' = IF Len(fifo) < FifoDepth THEN Append(fifo, f) ELSE fifo
          /\ line' = line \o Intact(<<f>>)
          /\ behind' = (behind \/ /\ ~f.parityError
                                  /\ \/ Len(fifo) >= FifoDepth
                                     \/ Len(line) >= Len(taken) + RxSize - 1)
    /\ UNCHANGED <<rxRing, rxen, rxcie, rxSketch, stored, taken>>

\* Mutants of RxIrq: no test for a full ring; one slot too many stays free.
RxIrqNoTest ==
    /\ ie /\ rxcie /\ fifo # <<>>
    /\ fifo' = Tail(fifo)
    /\ IF ~Head(fifo).parityError
       THEN /\ buf' = [buf EXCEPT ![head] = Head(fifo).byte]
            /\ head' = RxSucc(head)
            /\ stored' = Append(stored, Head(fifo).byte)
       ELSE UNCHANGED <<buf, head, stored>>
    /\ UNCHANGED <<tail, rxen, rxcie, arrived, rxSketch, taken, line, behind>>

RxIrqFullTooSoon ==
    /\ ie /\ rxcie /\ fifo # <<>>
    /\ fifo' = Tail(fifo)
    /\ IF ~Head(fifo).parityError /\ RxSucc(RxSucc(head)) # tail
       THEN /\ buf' = [buf EXCEPT ![head] = Head(fifo).byte]
            /\ head' = RxSucc(head)
            /\ stored' = Append(stored, Head(fifo).byte)
       ELSE UNCHANGED <<buf, head, stored>>
    /\ UNCHANGED <<tail, rxen, rxcie, arrived, rxSketch, taken, line, behind>>

\* _rx_complete_irq(): a byte with a parity error is read and dropped, and so
\* is a byte for which the ring has no room.
RxIrq ==
    /\ ie /\ rxcie /\ fifo # <<>>
    /\ fifo' = Tail(fifo)
    /\ IF ~Head(fifo).parityError /\ RxSucc(head) # tail
       THEN /\ buf' = [buf EXCEPT ![head] = Head(fifo).byte]
            /\ head' = RxSucc(head)
            /\ stored' = Append(stored, Head(fifo).byte)
       ELSE UNCHANGED <<buf, head, stored>>
    /\ UNCHANGED <<tail, rxen, rxcie, arrived, rxSketch, taken, line, behind>>

-----------------------------------------------------------------------------
\* available(): only the head can move while it runs.
CallAvailable ==
    /\ pc = "idle"
    /\ ready' = Available
    /\ UNCHANGED <<rxRing, rxUart, ie, pc, c, peeked, rxHistory>>

\* read() and peek() return -1 when the ring is empty.
CallRead ==
    /\ pc = "idle" /\ head # tail
    /\ pc' = "r_load"
    /\ UNCHANGED <<rxRing, rxUart, ie, c, ready, peeked, rxHistory>>

CallPeek ==
    /\ pc = "idle" /\ head # tail
    /\ pc' = "p_load"
    /\ UNCHANGED <<rxRing, rxUart, ie, c, ready, peeked, rxHistory>>

PeekLoad ==
    /\ pc = "p_load"
    /\ peeked' = buf[tail]
    /\ pc' = "idle"
    /\ UNCHANGED <<rxRing, rxUart, ie, c, ready, rxHistory>>

\* Mutant of ReadTake: the slot goes back before the byte is copied.
ReadTakeTailFirst ==
    /\ \/ /\ pc = "r_load"
          /\ tail' = RxSucc(tail)
          /\ pc' = "r_store"
          /\ UNCHANGED <<c, taken, ready, peeked>>
       \/ /\ pc = "r_store"
          /\ c' = buf[(tail + RxSize - 1) % RxSize]
          /\ taken' = Append(taken, c')
          /\ ready' = IF ready > 0 THEN ready - 1 ELSE 0
          /\ peeked' = None
          /\ pc' = "idle"
          /\ UNCHANGED tail
    /\ UNCHANGED <<head, buf, rxUart, ie, stored, line, behind>>

\* read() copies the byte before it gives the slot back to the handler.
ReadTake ==
    /\ \/ /\ pc = "r_load"
          /\ c' = buf[tail]
          /\ pc' = "r_store"
          /\ UNCHANGED <<tail, taken, ready, peeked>>
       \/ /\ pc = "r_store"
          /\ tail' = RxSucc(tail)
          /\ taken' = Append(taken, c)
          /\ ready' = IF ready > 0 THEN ready - 1 ELSE 0
          /\ peeked' = None
          /\ pc' = "idle"
          /\ UNCHANGED c
    /\ UNCHANGED <<head, buf, rxUart, ie, stored, line, behind>>

-----------------------------------------------------------------------------
\* begin() on a closed port: the receiver, then its interrupt.  The
\* interrupt of the other half cannot disturb these bits.
CallBegin ==
    /\ pc = "idle" /\ ~rxen
    /\ rxen' = TRUE
    /\ stored' = <<>> /\ taken' = <<>> /\ line' = <<>> /\ behind' = FALSE
    /\ pc' = "b_rxcie"
    /\ UNCHANGED <<rxRing, rxcie, fifo, arrived, ie, c, ready, peeked>>

BeginEnableIrq ==
    /\ pc = "b_rxcie"
    /\ rxcie' = TRUE
    /\ pc' = "idle"
    /\ UNCHANGED <<rxRing, rxen, fifo, arrived, ie, c, ready, peeked, rxHistory>>

\* end(): the receiver goes off, which empties the UART; then its interrupt;
\* then what is left in the ring is thrown away.
CallEnd ==
    /\ pc = "idle"
    /\ rxen' = FALSE /\ fifo' = <<>> /\ line' = stored
    /\ pc' = "e_rxcie"
    /\ UNCHANGED <<rxRing, rxcie, arrived, ie, c, ready, peeked, stored, taken, behind>>

EndClear ==
    /\ \/ /\ pc = "e_rxcie"
          /\ rxcie' = FALSE
          /\ pc' = "e_clear"
          /\ UNCHANGED <<head, stored, line, ready, peeked>>
       \/ /\ pc = "e_clear"
          /\ head' = tail
          /\ stored' = taken /\ line' = taken
          /\ ready' = 0 /\ peeked' = None
          /\ pc' = "idle"
          /\ UNCHANGED rxcie
    /\ UNCHANGED <<tail, buf, rxen, fifo, arrived, ie, c, taken, behind>>

\* interrupts() and noInterrupts() between calls.
ToggleInterrupts ==
    /\ pc = "idle"
    /\ ie' = ~ie
    /\ UNCHANGED <<rxRing, rxUart, pc, c, ready, peeked, rxHistory>>

RxNext ==
    \/ Arrive \/ RxIrq
    \/ CallAvailable \/ CallRead \/ CallPeek \/ PeekLoad \/ ReadTake
    \/ CallBegin \/ BeginEnableIrq \/ CallEnd \/ EndClear
    \/ ToggleInterrupts

RxSpec == RxInit /\ [][RxNext]_rxVars

-----------------------------------------------------------------------------
(***************************************************************************)
(* Properties.                                                             *)
(***************************************************************************)

\* Every variable has its type.
RxTypeOK ==
    /\ head \in RxSlots /\ tail \in RxSlots
    /\ buf \in [RxSlots -> Byte]
    /\ rxen \in BOOLEAN /\ rxcie \in BOOLEAN
    /\ fifo \in Seq(Frame) /\ Len(fifo) <= FifoDepth
    /\ ie \in BOOLEAN /\ pc \in RxPcs /\ c \in Byte
    /\ ready \in 0 .. RxSize - 1
    /\ peeked \in Byte \cup {None}
    /\ arrived \in Nat
    /\ stored \in Seq(Byte) /\ taken \in Seq(Byte)
    /\ line \in Seq(Byte) /\ behind \in BOOLEAN

\* What was read and what is queued are together what the handler stored, in
\* order: it overwrites no unread byte, read() returns none twice, with the
\* handler running between the copy of a byte and the move of the tail, and the
\* byte peek() showed is still the next one.
ReadsInOrder ==
    /\ stored = taken \o [k \in 1 .. Available |-> buf[(tail + k - 1) % RxSize]]
    /\ pc = "r_store" => c = stored[Len(taken) + 1]
    /\ peeked # None => head # tail /\ buf[tail] = peeked

\* As many bytes as available() reported can be read, however late.
ReadyIsKept == ready <= Available

\* As long as no byte came to a full UART, or while RxSize - 1 bytes were unread,
\* all that the line brought intact was stored, or still waits in the UART, in
\* order: interrupts that are off, a handler that comes late and bytes with a parity
\* error in between lose nothing.
NothingIsMissed == ~behind => line = stored \o Intact(fifo)
=============================================================================
