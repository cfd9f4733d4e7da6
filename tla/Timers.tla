------------------------------- MODULE Timers -------------------------------
(***************************************************************************)
(* The clock of the core (cores/arduino/wiring.c): timer 0 counts, its     *)
(* overflow interrupt keeps the milliseconds and the number of overflows,  *)
(* and millis(), micros() and delay() read them.                           *)
(*                                                                         *)
(* The timer goes on between any two steps of the program, also while      *)
(* interrupts are off; the handler runs between any two steps while they   *)
(* are on.                                                                 *)
(***************************************************************************)
EXTENDS Naturals

CONSTANTS
    TimerSize,   \* how many values TCNT0 has: 256
    TickUs,      \* microseconds per tick: 64 / clockCyclesPerMicrosecond()
    Ms,          \* microseconds per millisecond: 1000
    FractUnit,   \* the fraction is counted in units of 8 microseconds
    WordSize,    \* how many values an unsigned long has: 2^32
    OverflowLatency, \* bound: ticks the overflow handler is kept waiting
    MaxTicks,    \* bound: how long the program is watched
    Delays       \* what the sketch passes to delay()

OverflowUs == TimerSize * TickUs   \* MICROSECONDS_PER_TIMER0_OVERFLOW

\* "for the clock speeds we care about - 8 and 16 MHz - this doesn't lose
\* precision"
ASSUME TimerAssumption ==
    /\ TimerSize \in Nat \ {0} /\ TickUs \in Nat \ {0} /\ WordSize \in Nat \ {0}
    /\ Ms \in Nat \ {0} /\ FractUnit \in Nat \ {0}
    /\ Ms % FractUnit = 0 /\ (OverflowUs % Ms) % FractUnit = 0

\* No code switches interrupts off for as long as the timer takes to come
\* round.
ASSUME LatencyAssumption == OverflowLatency \in Nat /\ OverflowLatency < TimerSize - 1
ASSUME WatchAssumption == MaxTicks \in Nat /\ Delays \subseteq Nat

VARIABLES
    tcnt0, tov,             \* TCNT0, and TOV0 in TIFR0
    timer0_overflow_count, timer0_millis, timer0_fract,
    sreg_i,                 \* SREG_I
    clockPc,                \* what a clock function executes next
    user, oldSREG, m, t,    \* who called micros(), and its locals
    start, ms,              \* delay()'s locals
    now, called,            \* ticks since reset; when micros() was called (history)
    asked, delayed          \* delay()'s argument and when it was called (history)

timerVars == <<tcnt0, tov, now>>
countVars == <<timer0_overflow_count, timer0_millis, timer0_fract>>
delayVars == <<start, ms, asked, delayed>>
callVars == <<clockPc, user, oldSREG, m, t, called, delayVars>>
clockVars == <<timerVars, countVars, sreg_i, callVars>>

ClockInit ==
    /\ tcnt0 = 0 /\ tov = FALSE /\ now = 0
    /\ timer0_overflow_count = 0 /\ timer0_millis = 0 /\ timer0_fract = 0
    /\ sreg_i = TRUE
    /\ clockPc = "idle" /\ user = "none" /\ oldSREG = TRUE /\ m = 0 /\ t = 0
    /\ start = 0 /\ ms = 0
    /\ called = 0 /\ asked = 0 /\ delayed = 0

-----------------------------------------------------------------------------
\* The timer.  TCNT0 and TIFR0 are read by neighbouring instructions, and a tick
\* is 64 cycles: at most one falls between them.
Tick ==
    /\ now < MaxTicks
    /\ ~ (tov /\ tcnt0 >= OverflowLatency)
    /\ clockPc = "flag" => tcnt0 = t
    /\ now' = now + 1
    /\ tcnt0' = (tcnt0 + 1) % TimerSize
    /\ tov' = (tov \/ tcnt0' = 0)
    /\ UNCHANGED <<countVars, sreg_i, callVars>>

MILLIS_INC == OverflowUs \div Ms
FRACT_INC == (OverflowUs % Ms) \div FractUnit
FRACT_MAX == Ms \div FractUnit

\* Mutant of TimerIrq: the fraction starts at zero again.
TimerIrqDropsRest ==
    /\ sreg_i /\ tov
    /\ tov' = FALSE
    /\ LET f == timer0_fract + FRACT_INC
           carry == f >= FRACT_MAX
       IN  /\ timer0_fract' = IF carry THEN 0 ELSE f
           /\ timer0_millis' =
                 (timer0_millis + MILLIS_INC + IF carry THEN 1 ELSE 0) % WordSize
    /\ timer0_overflow_count' = (timer0_overflow_count + 1) % WordSize
    /\ UNCHANGED <<tcnt0, now, sreg_i, callVars>>

\* TIMER0_OVF_vect
TimerIrq ==
    /\ sreg_i /\ tov
    /\ tov' = FALSE
    /\ LET f == timer0_fract + FRACT_INC
           carry == f >= FRACT_MAX
       IN  /\ timer0_fract' = IF carry THEN f - FRACT_MAX ELSE f
           /\ timer0_millis' =
                 (timer0_millis + MILLIS_INC + IF carry THEN 1 ELSE 0) % WordSize
    /\ timer0_overflow_count' = (timer0_overflow_count + 1) % WordSize
    /\ UNCHANGED <<tcnt0, now, sreg_i, callVars>>

-----------------------------------------------------------------------------
\* micros(), called by the sketch, for delay()'s start and by every test of its
\* loops.  Interrupts are off in it, but the timer goes on.

\* cli(); m = timer0_overflow_count;
ReadCount(caller) ==
    /\ user' = caller
    /\ oldSREG' = sreg_i
    /\ sreg_i' = FALSE
    /\ m' = timer0_overflow_count
    /\ called' = now
    /\ clockPc' = "timer"

\* t = TCNT0;
ReadTimer ==
    /\ clockPc = "timer"
    /\ t' = tcnt0
    /\ clockPc' = "flag"
    /\ UNCHANGED <<timerVars, countVars, sreg_i, user, oldSREG, m, called, delayVars>>

\* Mutant of MicrosValue: the pending overflow is always counted.
MicrosValueAlwaysCounts ==
    LET n == IF tov THEN m + 1 ELSE m IN ((n * TimerSize + t) * TickUs) % WordSize

\* An overflow that is pending was not counted yet; if t is the timer's last
\* value it happened after t was read.
MicrosValue ==
    LET n == IF tov /\ t < TimerSize - 1 THEN m + 1 ELSE m
    IN  ((n * TimerSize + t) * TickUs) % WordSize

\* The return, after the flag was read.  A call that is over leaves no locals.
MicrosEnd(caller, next) ==
    /\ clockPc = "flag" /\ user = caller
    /\ sreg_i' = oldSREG
    /\ clockPc' = next
    /\ user' = "none" /\ oldSREG' = TRUE /\ m' = 0 /\ t' = 0 /\ called' = 0
    /\ UNCHANGED <<timerVars, countVars, asked, delayed>>

CallMicros ==
    /\ clockPc = "idle"
    /\ ReadCount("sketch")
    /\ UNCHANGED <<timerVars, countVars, t, delayVars>>

MicrosReturn == MicrosEnd("sketch", "idle") /\ UNCHANGED <<start, ms>>

-----------------------------------------------------------------------------
\* delay(): start = micros(), then one millisecond after the other.

CallDelay(n) ==
    /\ clockPc = "idle" /\ sreg_i
    /\ ms' = n
    /\ asked' = n /\ delayed' = now
    /\ ReadCount("start")
    /\ UNCHANGED <<timerVars, countVars, t, start>>

DelayStart ==
    /\ MicrosEnd("start", "loop")
    /\ start' = MicrosValue
    /\ UNCHANGED ms

DelayPoll ==
    /\ clockPc = "loop" /\ ms > 0
    /\ ReadCount("test")
    /\ UNCHANGED <<timerVars, countVars, t, delayVars>>

MicrosSinceStart == (MicrosValue + WordSize - start) % WordSize

\* Mutant of DelayTest: two milliseconds are counted where one has passed when
\* the loop is late.
DelayTestKeepsStart ==
    /\ MicrosEnd("test", "loop")
    /\ IF MicrosSinceStart >= Ms THEN ms' = ms - 1 ELSE UNCHANGED ms
    /\ UNCHANGED start

\* while (ms > 0 && (micros() - start) >= 1000) { ms--; start += 1000; }
DelayTest ==
    /\ MicrosEnd("test", "loop")
    /\ IF MicrosSinceStart >= Ms
       THEN ms' = ms - 1 /\ start' = (start + Ms) % WordSize
       ELSE UNCHANGED <<ms, start>>

DelayReturn ==
    /\ clockPc = "loop" /\ ms = 0
    /\ clockPc' = "idle"
    /\ start' = 0 /\ asked' = 0 /\ delayed' = 0
    /\ UNCHANGED <<timerVars, countVars, sreg_i, user, oldSREG, m, t, called, ms>>

\* The sketch switches interrupts off and on.
SwitchInterrupts ==
    /\ clockPc = "idle"
    /\ sreg_i' = ~sreg_i
    /\ UNCHANGED <<timerVars, countVars, callVars>>

ClockCalls ==
    \/ ReadTimer \/ CallMicros \/ MicrosReturn
    \/ \E n \in Delays : CallDelay(n)
    \/ DelayStart \/ DelayPoll \/ DelayTest \/ DelayReturn \/ SwitchInterrupts

ClockNext == Tick \/ TimerIrq \/ ClockCalls

ClockSpec == ClockInit /\ [][ClockNext]_clockVars

-----------------------------------------------------------------------------
\* How many overflows the handler has counted; the pending one is missing.
Counted == (now \div TimerSize) - IF tov THEN 1 ELSE 0

\* timer0_millis is the time in milliseconds, to the overflow: adding whole
\* milliseconds and the fraction separately, each in a byte or a word that
\* wraps, loses nothing however long the board runs.
MillisIsTrue == timer0_millis = ((Counted * OverflowUs) \div Ms) % WordSize

\* What micros() is about to return is the time of an instant within the call,
\* wherever the timer overflowed in it, with interrupts on or off before, and
\* also when the value wraps: so it never goes back.
MicrosIsTrue ==
    clockPc = "flag"
        => \E k \in called .. now : MicrosValue = (k * TickUs) % WordSize

\* delay() takes at least as long as it was asked to, also when micros() wraps
\* in it.
DelayLongEnough ==
    [][ DelayReturn
        => (now - delayed) * TickUs >= asked * Ms ]_clockVars
=============================================================================
