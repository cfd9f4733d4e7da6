-------------------------- MODULE HardwareSerialTx --------------------------
(***************************************************************************)
(* The transmit half of HardwareSerial: the ring buffer between write()    *)
(* and the data-register-empty interrupt, flush(), begin(), end() and      *)
(* availableForWrite(), with the UART they drive.                          *)
(*                                                                         *)
(* Three things run: the sketch (pc), which calls one method at a time and *)
(* may have interrupts off (ie); the interrupt handler (irq), which runs   *)
(* between any two steps of the sketch while interrupts are on, or is      *)
(* called by write() and flush() while they are off; and the UART, which   *)
(* moves bytes from its data register through its shift register to the    *)
(* line whatever the CPU does.  A step of the sketch touches at most one   *)
(* thing the other two can change.                                         *)
(***************************************************************************)
EXTENDS Naturals, Sequences

CONSTANTS Byte,       \* the values a byte takes
          None,       \* an empty register
          TxSize,     \* SERIAL_TX_BUFFER_SIZE
          MaxWrites   \* bound: how many bytes the sketch writes in all

\* The indices are uint8_t up to 256 slots; more would need the guards
\* that HardwareSerial.h says are not implemented.
ASSUME TxSizeAssumption == TxSize \in 2..256
ASSUME NoneAssumption == None \notin Byte
ASSUME MaxWritesAssumption == MaxWrites \in Nat

VARIABLES
    head, tail,   \* _tx_buffer_head, _tx_buffer_tail
    buf,          \* _tx_buffer
    written,      \* _written
    ucsrb,        \* the enable bits of UCSRnB that are set
    udr,          \* the UART's transmit data register (UDRE is udr = None)
    shift,        \* the UART's transmit shift register
    txc,          \* the transmit-complete flag
    ie,           \* the global interrupt flag, SREG_I
    irq,          \* how far _tx_udr_empty_irq() has got
    pc,           \* the statement the sketch executes next
    arg,          \* write()'s parameter
    todo,         \* the UCSRnB updates begin() or end() still has to make
    rmw,          \* the copy of UCSRnB one of them is working on
    room,         \* the last availableForWrite(), less the writes since
    sent,         \* every byte write() accepted (history)
    wire          \* every byte that left on the line (history)

ringVars  == <<head, tail, buf>>
uartVars  == <<udr, shift, txc, wire>>
callVars  == <<pc, arg, todo, rmw>>
vars == <<head, tail, buf, written, ucsrb, udr, shift, txc, ie, irq, pc, arg,
          todo, rmw, room, sent, wire>>

Slots == 0 .. TxSize - 1
Bits  == {"RXEN", "TXEN", "RXCIE", "UDRIE"}
Pcs   == {"idle", "w_empty", "w_udre", "w_udr", "w_txc", "w_full", "w_store",
          "w_publish", "f_udrie", "f_txc", "f_poll", "ucsrb", "ucsrb_store"}

-----------------------------------------------------------------------------
\* Ring arithmetic.

\* The slot after i.
Succ(i) == (i + 1) % TxSize

\* What availableForWrite() computes from a head and a tail.
Room(h, t) == IF h >= t THEN TxSize - 1 - h + t ELSE t - h - 1

TxInit ==
    /\ head = 0 /\ tail = 0
    /\ \E zero \in Byte : buf = [s \in Slots |-> zero] /\ arg = zero
    /\ written = FALSE
    /\ ucsrb = {}
    /\ udr = None /\ shift = None /\ txc = FALSE
    /\ ie = TRUE /\ irq = "out"
    /\ pc = "idle" /\ todo = <<>> /\ rmw = {}
    /\ room = 0
    /\ sent = <<>> /\ wire = <<>>

-----------------------------------------------------------------------------
\* The interrupt handler, _tx_udr_empty_irq().

\* A write to UDR; the UART ignores it while the register is full.
WriteUDR(c) == udr' = IF udr = None THEN c ELSE udr

\* ATOMIC_BLOCK holds interrupts off between the two statements of write()'s
\* shortcut; its other block is one step.
InAtomic == pc = "w_txc"

\* The handler takes the oldest byte and hands it to the UART.
IrqSend ==
    /\ tail' = Succ(tail)
    /\ WriteUDR(buf[tail])
    /\ irq' = "sent"
    /\ UNCHANGED <<head, buf, written, ucsrb, shift, txc, ie, room, sent, wire>>

\* The UART raises the interrupt; the sketch stops where it is.
TxIrq ==
    /\ ie /\ ~InAtomic /\ irq = "out"
    /\ "UDRIE" \in ucsrb /\ udr = None
    /\ IrqSend
    /\ UNCHANGED callVars

\* Mutant of IrqFinish: the interrupt goes off one byte early.
IrqFinishOffEarly ==
    /\ irq = "sent"
    /\ txc' = FALSE
    /\ ucsrb' = IF head \in {tail, Succ(tail)} THEN ucsrb \ {"UDRIE"} ELSE ucsrb
    /\ irq' = "out"
    /\ UNCHANGED <<ringVars, written, udr, shift, ie, room, sent, wire>>
    /\ UNCHANGED callVars

\* The handler clears TXC and, when the ring is empty, its own interrupt.
IrqFinish ==
    /\ irq = "sent"
    /\ txc' = FALSE
    /\ ucsrb' = IF head = tail THEN ucsrb \ {"UDRIE"} ELSE ucsrb
    /\ irq' = "out"
    /\ UNCHANGED <<head, tail, buf, written, udr, shift, ie, room, sent, wire>>
    /\ UNCHANGED callVars

-----------------------------------------------------------------------------
\* write(c)

CallWrite ==
    /\ pc = "idle" /\ irq = "out"
    /\ "TXEN" \in ucsrb
    /\ Len(sent) < MaxWrites
    /\ arg' \in Byte
    /\ written' = TRUE
    /\ pc' = "w_empty"
    /\ room' = IF room > 0 THEN room - 1 ELSE 0
    /\ UNCHANGED <<ringVars, ucsrb, uartVars, ie, irq, todo, rmw, sent>>

\* Mutant of WriteTest: takes the shortcut although bytes are queued.
WriteTestUdreOnly ==
    /\ irq = "out"
    /\ \/ pc = "w_empty" /\ pc' = "w_udre"
       \/ pc = "w_udre" /\ pc' = IF udr = None THEN "w_udr" ELSE "w_full"
    /\ UNCHANGED <<ringVars, written, ucsrb, uartVars, ie, irq, arg, todo, rmw,
                   room, sent>>

\* "if (head == tail && UDRE)": two reads, the handler may run in between.
WriteTest ==
    /\ irq = "out"
    /\ \/ /\ pc = "w_empty"
          /\ pc' = IF head = tail THEN "w_udre" ELSE "w_full"
       \/ /\ pc = "w_udre"
          /\ pc' = IF udr = None THEN "w_udr" ELSE "w_full"
    /\ UNCHANGED <<ringVars, written, ucsrb, uartVars, ie, irq, arg, todo, rmw,
                   room, sent>>

\* The shortcut: the byte goes to UDR, and only then is TXC cleared.
WriteShortcut ==
    /\ irq = "out"
    /\ \/ /\ pc = "w_udr"
          /\ WriteUDR(arg)
          /\ sent' = Append(sent, arg)
          /\ pc' = "w_txc"
          /\ UNCHANGED txc
       \/ /\ pc = "w_txc"
          /\ txc' = FALSE
          /\ pc' = "idle"
          /\ UNCHANGED <<udr, sent>>
    /\ UNCHANGED <<ringVars, written, ucsrb, shift, wire, ie, irq, arg, todo,
                   rmw, room>>

\* Mutant of WriteWait: waits for the handler even with interrupts off.
WriteWaitNoPoll ==
    /\ pc = "w_full" /\ irq = "out"
    /\ Succ(head) = tail
    /\ UNCHANGED vars

\* The ring is full: leave the emptying to the interrupt or, with interrupts
\* off, call the handler whenever the UART can take a byte.
WriteWait ==
    /\ pc = "w_full" /\ irq = "out"
    /\ Succ(head) = tail
    /\ IF ~ie /\ udr = None
       THEN IrqSend /\ UNCHANGED callVars
       ELSE UNCHANGED vars

\* Mutant of WriteProceed: does not look whether the ring is full.
WriteProceedUnchecked ==
    /\ pc = "w_full" /\ irq = "out"
    /\ pc' = "w_store"
    /\ UNCHANGED <<ringVars, written, ucsrb, uartVars, ie, irq, arg, todo, rmw,
                   room, sent>>

WriteProceed ==
    /\ pc = "w_full" /\ irq = "out"
    /\ Succ(head) # tail
    /\ pc' = "w_store"
    /\ UNCHANGED <<ringVars, written, ucsrb, uartVars, ie, irq, arg, todo, rmw,
                   room, sent>>

\* The byte is stored in its slot before the slot is published.
WriteStore ==
    /\ pc = "w_store" /\ irq = "out"
    /\ buf' = [buf EXCEPT ![head] = arg]
    /\ pc' = "w_publish"
    /\ UNCHANGED <<head, tail, written, ucsrb, uartVars, ie, irq, arg, todo, rmw,
                   room, sent>>

\* Mutant of WritePublish: the interrupt is not enabled.
WritePublishNoEnable ==
    /\ pc = "w_publish" /\ irq = "out"
    /\ head' = Succ(head)
    /\ sent' = Append(sent, arg)
    /\ pc' = "idle"
    /\ UNCHANGED <<tail, buf, written, ucsrb, uartVars, ie, irq, arg, todo, rmw,
                   room>>

\* ATOMIC_BLOCK: the new head and the interrupt enable appear together.
WritePublish ==
    /\ pc = "w_publish" /\ irq = "out"
    /\ head' = Succ(head)
    /\ ucsrb' = ucsrb \cup {"UDRIE"}
    /\ sent' = Append(sent, arg)
    /\ pc' = "idle"
    /\ UNCHANGED <<tail, buf, written, uartVars, ie, irq, arg, todo, rmw, room>>

-----------------------------------------------------------------------------
\* flush(), begin() and end().  todo holds the updates of UCSRnB that the
\* call still has to make: none for flush() itself.

EndUpdates == << <<"RXEN", FALSE>>, <<"TXEN", FALSE>>,
                 <<"RXCIE", FALSE>>, <<"UDRIE", FALSE>> >>
BeginUpdates == << <<"RXEN", TRUE>>, <<"TXEN", TRUE>>,
                   <<"RXCIE", TRUE>>, <<"UDRIE", FALSE>> >>

\* Where a call goes on when it has to make the updates in list.
After(list) == IF list = <<>> THEN "idle" ELSE "ucsrb"

\* flush() returns at once when nothing was written since begin().
StartFlush(updates) ==
    /\ pc = "idle" /\ irq = "out"
    /\ todo' = updates
    /\ pc' = IF written THEN "f_udrie" ELSE After(updates)
    /\ UNCHANGED <<ringVars, written, ucsrb, uartVars, ie, irq, arg, rmw, room,
                   sent>>

CallFlush == StartFlush(<<>>)

\* end() begins with a flush().
CallEnd == StartFlush(EndUpdates)

\* Mutant of FlushTest: waits for TXC only.
FlushTestTxcOnly ==
    /\ irq = "out"
    /\ \/ pc = "f_udrie" /\ pc' = "f_txc"
       \/ pc = "f_txc" /\ pc' = IF txc THEN After(todo) ELSE "f_poll"
    /\ UNCHANGED <<ringVars, written, ucsrb, uartVars, ie, irq, arg, todo, rmw,
                   room, sent>>

\* "while (UDRIE is set || TXC is clear)": two reads, in this order.
FlushTest ==
    /\ irq = "out"
    /\ \/ /\ pc = "f_udrie"
          /\ pc' = IF "UDRIE" \in ucsrb THEN "f_poll" ELSE "f_txc"
       \/ /\ pc = "f_txc"
          /\ pc' = IF txc THEN After(todo) ELSE "f_poll"
    /\ UNCHANGED <<ringVars, written, ucsrb, uartVars, ie, irq, arg, todo, rmw,
                   room, sent>>

\* The body of the loop: with interrupts off, do the handler's work.
FlushPoll ==
    /\ pc = "f_poll" /\ irq = "out"
    /\ pc' = "f_udrie"
    /\ IF ~ie /\ "UDRIE" \in ucsrb /\ udr = None
       THEN IrqSend
       ELSE UNCHANGED <<ringVars, written, ucsrb, udr, shift, txc, ie, irq, room,
                        sent, wire>>
    /\ UNCHANGED <<arg, todo, rmw>>

\* begin() up to its updates of UCSRnB.  What is queued stays queued.
CallBegin ==
    /\ pc = "idle" /\ irq = "out"
    /\ written' = FALSE
    /\ todo' = BeginUpdates
    /\ pc' = "ucsrb"
    /\ UNCHANGED <<ringVars, ucsrb, uartVars, ie, irq, arg, rmw, room, sent>>

\* One sbi() or cbi() on UCSRnB: the register is reached through a pointer,
\* so it is a load and a store.
UpdateUcsrb ==
    /\ irq = "out"
    /\ \/ /\ pc = "ucsrb"
          /\ rmw' = ucsrb
          /\ pc' = "ucsrb_store"
          /\ UNCHANGED <<ucsrb, todo>>
       \/ /\ pc = "ucsrb_store"
          /\ LET bit == Head(todo)[1]
                 on  == Head(todo)[2]
             IN  ucsrb' = IF on THEN rmw \cup {bit} ELSE rmw \ {bit}
          /\ todo' = Tail(todo)
          /\ pc' = After(Tail(todo))
          /\ UNCHANGED rmw
    /\ UNCHANGED <<ringVars, written, uartVars, ie, irq, arg, room, sent>>

-----------------------------------------------------------------------------
\* The rest of the sketch, and the UART.

\* availableForWrite(): only the tail can move while it runs.
AvailableForWrite ==
    /\ pc = "idle" /\ irq = "out"
    /\ room' = Room(head, tail)
    /\ UNCHANGED <<ringVars, written, ucsrb, uartVars, ie, irq, callVars, sent>>

\* interrupts() and noInterrupts() between calls.
ToggleInterrupts ==
    /\ pc = "idle" /\ irq = "out"
    /\ ie' = ~ie
    /\ UNCHANGED <<ringVars, written, ucsrb, uartVars, irq, callVars, room, sent>>

\* The shift register is free: it takes the byte in UDR.
UartLoad ==
    /\ shift = None /\ udr # None
    /\ shift' = udr /\ udr' = None
    /\ UNCHANGED <<ringVars, written, ucsrb, txc, ie, irq, callVars, room, sent,
                   wire>>

\* A byte takes at least 80 clock cycles on the line, the statements between
\* a write to UDR and the clearing of TXC a handful: the byte just written
\* cannot be the one that completes in between.
JustWritten == irq = "sent" \/ InAtomic

\* The byte is on the line.  TXC rises only if no byte follows.
UartComplete ==
    /\ shift # None
    /\ JustWritten => udr # None
    /\ wire' = Append(wire, shift)
    /\ shift' = udr /\ udr' = None
    /\ txc' = (txc \/ udr = None)
    /\ UNCHANGED <<ringVars, written, ucsrb, ie, irq, callVars, room, sent>>

-----------------------------------------------------------------------------
\* The steps that finish a call once it has begun.
CallStep ==
    \/ WriteTest \/ WriteShortcut \/ WriteWait \/ WriteProceed
    \/ WriteStore \/ WritePublish
    \/ FlushTest \/ FlushPoll \/ UpdateUcsrb

Handler == TxIrq \/ IrqFinish

Uart == UartLoad \/ UartComplete

\* Everything but begin().
OtherStep ==
    \/ CallStep \/ Handler \/ Uart
    \/ CallWrite \/ CallFlush \/ CallEnd
    \/ AvailableForWrite \/ ToggleInterrupts

\* The sketch calls begin() on a port that is closed: at first or after end().
Open == "TXEN" \notin ucsrb /\ CallBegin

Next == OtherStep \/ Open

\* The sketch may call begin() on an open port, to change the baud rate.
NextReopen == OtherStep \/ CallBegin

\* The CPU executes the sketch and serves the interrupt, and the UART runs.
Fairness ==
    /\ WF_vars(CallStep)
    /\ WF_vars(TxIrq) /\ WF_vars(IrqFinish)
    /\ WF_vars(UartLoad) /\ WF_vars(UartComplete)

Spec == TxInit /\ [][Next]_vars
FairSpec == Spec /\ Fairness
ReopenSpec == TxInit /\ [][NextReopen]_vars

-----------------------------------------------------------------------------
(***************************************************************************)
(* Properties.                                                             *)
(***************************************************************************)

\* How many bytes are queued: the distance from tail to head.
Queued == (TxSize + head - tail) % TxSize

\* Every variable has its type.
TypeOK ==
    /\ head \in Slots /\ tail \in Slots
    /\ buf \in [Slots -> Byte]
    /\ written \in BOOLEAN
    /\ ucsrb \subseteq Bits
    /\ udr \in Byte \cup {None} /\ shift \in Byte \cup {None}
    /\ txc \in BOOLEAN /\ ie \in BOOLEAN
    /\ irq \in {"out", "sent"}
    /\ pc \in Pcs
    /\ arg \in Byte
    /\ todo \in Seq(Bits \X BOOLEAN)
    /\ rmw \subseteq Bits
    /\ room \in 0 .. TxSize - 1
    /\ sent \in Seq(Byte) /\ wire \in Seq(Byte)

\* The interrupt is enabled exactly while bytes are queued: the handler never
\* pops an empty ring, and no byte waits for an interrupt that is off.
\* (Comment of _tx_udr_empty_irq(): "If interrupts are enabled, there must be
\* more data in the output buffer".)
IrqHasData == (irq = "out" /\ "UDRIE" \in ucsrb) => head # tail

NoByteStranded == head # tail => "UDRIE" \in ucsrb

\* The bytes inside the driver and the UART, oldest first.
Inside ==
    LET one(r) == IF r = None THEN <<>> ELSE <<r>>
    IN  one(shift) \o one(udr)
        \o [k \in 1 .. Queued |-> buf[(tail + k - 1) % TxSize]]

\* No byte is lost, repeated or overtaken between write() and the line,
\* whatever the handler and the UART do between the sketch's steps.
InOrder == sent = wire \o Inside

\* When flush() returns after a write, every byte is on the line ("If we get
\* here, nothing is queued anymore and the hardware finished").
FlushDrains ==
    [][pc = "f_txc" /\ pc' \in {"idle", "ucsrb"} => wire = sent]_vars

\* The room availableForWrite() reported is still there when the sketch uses
\* it: that many write() calls never wait.
RoomIsKept == room + Queued < TxSize

\* Every call returns, with interrupts on or off: flush() and a write() on a
\* full ring wait for the handler, or do its work.
CallsReturn == pc # "idle" ~> pc = "idle"

\* Once interrupts stay on, what was written reaches the line with no help
\* from the sketch.
ReachesTheLine == (<>[]ie) => <>[](wire = sent)

\* The driver and the UART together are a channel for the ring's TxSize - 1
\* bytes and the UART's two.
Channel == INSTANCE ByteChannel WITH
              accepted <- sent, delivered <- wire, Capacity <- TxSize + 1
ImplementsChannel == Channel!ChannelSpec
=============================================================================
