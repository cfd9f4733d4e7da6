-------------------------------- MODULE Servo --------------------------------
(***************************************************************************)
(* The servo library on timer 1 (libraries/Servo/src/avr/Servo.cpp): one   *)
(* compare interrupt ends the pulse of a servo and begins that of the      *)
(* next; after the last it waits for the rest of the refresh interval.     *)
(*                                                                         *)
(* The timer goes on between any two steps, also inside the handler.       *)
(***************************************************************************)
EXTENDS Port

CONSTANTS
    ServoCount,     \* the number of Servo objects
    ServoPin,       \* ServoPin[s]: the pin servo s is attached to
    Widths,         \* what writeMicroseconds() stores, in ticks
    Byte,           \* how many values a byte of ticks has: 256
    CountSize,      \* how many values TCNT1 has: 65536
    REFRESH,        \* usToTicks(REFRESH_INTERVAL)
    Margin,         \* "a few ticks to ensure the next OCR1A not missed": 4
    HandlerTicks,   \* bound: ticks within a few instructions that belong together
    Latency         \* bound: ticks the handler is kept waiting

Servos == 0 .. ServoCount - 1
LongestPulse == CHOOSE w \in Widths : \A v \in Widths : v <= w

\* 12 servos of 2400 ticks fit the counter, and so does the refresh interval.
ASSUME ServoAssumption ==
    /\ ServoCount \in Nat \ {0} /\ Byte \in Nat \ {0} /\ CountSize \in Nat
    /\ Margin \in Nat /\ HandlerTicks \in Nat /\ Latency \in Nat
    /\ Widths \subseteq Nat /\ \E w \in Widths : \A v \in Widths : v <= w
    /\ HandlerTicks < Margin /\ \A w \in Widths : 2 * HandlerTicks < w
    /\ ServoCount * (LongestPulse + Latency + HandlerTicks) + Margin + Latency < CountSize
    /\ REFRESH \in Nat /\ 2 * HandlerTicks + Margin < REFRESH
    /\ REFRESH + Latency < CountSize

VARIABLES
    ticks, isActive,        \* per servo: ticks, Pin.isActive
    Channel,                \* the servo being pulsed; -1 in the refresh interval
    tcnt1, ocr, ocf, ocie,  \* TCNT1, OCR1A, OCF1A, OCIE1A
    isr, next, spent,       \* the handler: where, OCR1A's next value, ticks since it was computed
    pulse                   \* the pulse that is going on (history)

servoVars == <<ticks, isActive, Channel, tcnt1, ocr, ocf, ocie, isr, next, spent, pulse>>
timerRegs == <<tcnt1, ocr, ocf, ocie>>
NoPulse == [of |-> -1, width |-> 0, asked |-> 0]

ServoInit ==
    /\ ticks = [s \in Servos |-> LongestPulse]
    /\ isActive = [s \in Servos |-> FALSE]
    /\ Channel = 0      \* "static volatile", and nothing sets it to -1
    /\ tcnt1 = 0 /\ ocr = 0 /\ ocf = FALSE /\ ocie = FALSE
    /\ isr = "none" /\ next = 0 /\ spent = 0
    /\ pulse = NoPulse

-----------------------------------------------------------------------------
Late == (tcnt1 - ocr) % CountSize

\* A few instructions that belong together: in the handler, and in initISR().
InNeighbours == isr = "servo" \/ pc = "initISR2"

TimerTick ==
    /\ ocie
    /\ ocf /\ pc # "initISR2" => Late < Latency
    /\ InNeighbours => spent < HandlerTicks
    /\ spent' = IF InNeighbours THEN spent + 1 ELSE spent
    /\ tcnt1' = (tcnt1 + 1) % CountSize
    /\ ocf' = (ocf \/ tcnt1' = ocr)
    /\ pulse' = IF pulse.of >= 0 THEN [pulse EXCEPT !.width = @ + 1] ELSE pulse
    /\ UNCHANGED <<ticks, isActive, Channel, ocr, ocie, isr, next>>

\* Mutant of CompareAfter: the margin is forgotten.
CompareAfterNoMargin(count, n) ==
    IF n < ServoCount THEN count + ticks[n]
    ELSE IF count < REFRESH THEN REFRESH ELSE count

\* The end of the pulse of servo n, or of the refresh interval.
CompareAfter(count, n) ==
    IF n < ServoCount THEN count + ticks[n]
    ELSE IF count + Margin < REFRESH THEN REFRESH ELSE count + Margin

\* handle_interrupts(), to the reading of TCNT1
ServoIrq ==
    /\ ie /\ ocf /\ ocie /\ isr = "none"
    /\ ocf' = FALSE /\ ie' = FALSE
    /\ tcnt1' = IF Channel < 0 THEN 0 ELSE tcnt1
    /\ IF Channel >= 0 /\ isActive[Channel]
       THEN HandlerWrites(ServoPin[Channel], FALSE)
       ELSE UNCHANGED <<port, driven>>
    /\ Channel' = IF Channel + 1 < ServoCount THEN Channel + 1 ELSE -1
    /\ next' = CompareAfter(tcnt1', Channel + 1) % CountSize
    /\ isr' = "servo" /\ spent' = 0
    /\ pulse' = IF pulse.of = Channel THEN NoPulse ELSE pulse
    /\ UNCHANGED <<ticks, isActive, ocr, ocie, pc, arg, loaded>>

\* OCR1A is written, and the next servo's pin.
ServoIrqEnd ==
    /\ isr = "servo"
    /\ ocr' = next
    /\ IF Channel >= 0 /\ isActive[Channel]
       THEN /\ HandlerWrites(ServoPin[Channel], TRUE)
            /\ pulse' = [of |-> Channel, width |-> 0, asked |-> ticks[Channel]]
       ELSE UNCHANGED <<port, driven, pulse>>
    /\ isr' = "none" /\ next' = 0 /\ spent' = 0
    /\ ie' = TRUE
    /\ UNCHANGED <<ticks, isActive, Channel, tcnt1, ocf, ocie, pc, arg, loaded>>

-----------------------------------------------------------------------------
CallAttach(s) ==
    /\ pc = "sketch" /\ isr = "none"
    /\ pc' = IF \E o \in Servos : isActive[o] THEN "activate" ELSE "initISR"
    /\ arg' = [call |-> "attach", servo |-> s]
    /\ UNCHANGED <<port, ie, loaded, driven, servoVars>>

\* initISR(): TCNT1 = 0, ...
InitCount ==
    /\ pc = "initISR" /\ isr = "none"
    /\ tcnt1' = 0
    /\ pc' = "initISR2" /\ spent' = 0
    /\ UNCHANGED <<port, ie, arg, loaded, driven, ticks, isActive, Channel, ocr, ocf, ocie,
                   isr, next, pulse>>

\* ... OCF1A is cleared and OCIE1A set.
InitInterrupt ==
    /\ pc = "initISR2" /\ isr = "none"
    /\ ocf' = FALSE /\ ocie' = TRUE
    /\ pc' = "activate" /\ spent' = 0
    /\ UNCHANGED <<port, ie, arg, loaded, driven, ticks, isActive, Channel, tcnt1, ocr,
                   isr, next, pulse>>

Activate ==
    /\ pc = "activate" /\ isr = "none"
    /\ isActive' = [isActive EXCEPT ![arg.servo] = TRUE]
    /\ pc' = "sketch" /\ arg' = NoArg
    /\ UNCHANGED <<port, ie, loaded, driven, ticks, Channel, timerRegs, isr, next, spent, pulse>>

\* A servo that is detached in its pulse is forgotten: finISR() does nothing.
Detach(s) ==
    /\ pc = "sketch" /\ isr = "none"
    /\ isActive' = [isActive EXCEPT ![s] = FALSE]
    /\ pulse' = IF pulse.of = s THEN NoPulse ELSE pulse
    /\ UNCHANGED <<portVars, ticks, Channel, timerRegs, isr, next, spent>>

\* Mutant of WriteTicksLow: the interrupts stay on.
WriteTicksUnlocked(s, w) ==
    /\ pc = "sketch" /\ isr = "none"
    /\ ticks' = [ticks EXCEPT ![s] = (@ \div Byte) * Byte + (w % Byte)]
    /\ pc' = "ticks" /\ arg' = [call |-> "writeMicroseconds", servo |-> s, value |-> w]
    /\ UNCHANGED <<port, ie, loaded, driven, isActive, Channel, timerRegs, isr, next, spent, pulse>>

\* writeMicroseconds(): servos[channel].ticks = value, a byte after the other
WriteTicksLow(s, w) ==
    /\ pc = "sketch" /\ isr = "none"
    /\ ie' = InCli
    /\ ticks' = [ticks EXCEPT ![s] = (@ \div Byte) * Byte + (w % Byte)]
    /\ pc' = "ticks" /\ arg' = [call |-> "writeMicroseconds", servo |-> s, value |-> w]
    /\ UNCHANGED <<port, loaded, driven, isActive, Channel, timerRegs, isr, next, spent, pulse>>

WriteTicksHigh ==
    /\ pc = "ticks" /\ isr = "none"
    /\ ticks' = [ticks EXCEPT ![arg.servo] = arg.value]
    /\ ie' = TRUE
    /\ pc' = "sketch" /\ arg' = NoArg
    /\ UNCHANGED <<port, loaded, driven, isActive, Channel, timerRegs, isr, next, spent, pulse>>

ServoCalls ==
    \/ \E s \in Servos : CallAttach(s) \/ Detach(s) \/ \E w \in Widths : WriteTicksLow(s, w)
    \/ InitCount \/ InitInterrupt \/ Activate \/ WriteTicksHigh

-----------------------------------------------------------------------------
\* A pulse has a width the sketch asked for, but for the time the handler takes,
\* whatever is attached, detached or written meanwhile.
PulseIsCommanded ==
    [][ pulse.of >= 0 /\ pulse'.of # pulse.of /\ isActive'[pulse.of]
        => /\ pulse.asked \in Widths
           /\ pulse.width \in pulse.asked - HandlerTicks .. pulse.asked + Latency ]_<<portVars, servoVars>>

\* The compare value that ends a pulse or the refresh interval is still ahead of
\* the counter when it is written, and stays there until it is reached, also when
\* initISR() sets the counter back: one that is passed by would leave a pin high,
\* and all servos without a pulse, until the counter has come round.
CompareIsAhead == ocie /\ ~ ocf /\ isr = "none" /\ ocr # 0 => tcnt1 < ocr
=============================================================================
