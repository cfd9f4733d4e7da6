----------------------------- MODULE TimerProofs -----------------------------
(***************************************************************************)
(* Theorems about what the timers drive.                                   *)
(*                                                                         *)
(* Timer 0, the clock: for every timer size, tick length, word size,       *)
(* latency and argument of delay(), millis() and micros() tell the time    *)
(* and delay() does not end early.  The protothreads on it: for every      *)
(* sketch, whatever its events and blocks are, the clock under them is the *)
(* clock of module Timers, and a sleep does not end early; and for every   *)
(* sketch whose blocks have one caller and do not spawn themselves, the    *)
(* events run as the sequential programs they look like.                   *)
(*                                                                         *)
(* Timers 1 and 3, the servos and a tone: they keep out of each other's    *)
(* pins, silence is silent and pulses have their widths, for every number  *)
(* of servos, every counter and refresh interval with room for them, and   *)
(* every set of pulse widths and tone lengths.                             *)
(*                                                                         *)
(* The two parts share no state: the first is about the variables of       *)
(* modules Timers and Threads, the second about those of PinHandlers.      *)
(***************************************************************************)
EXTENDS Threads, PinHandlers, DataLemmas

-----------------------------------------------------------------------------
\* The invariant.  What holds at the start of an overflow's service, at an
\* instant r of a call of micros(), and between two tests of delay().

Words == 0 .. WordSize - 1

ClockTypeOK ==
    /\ tcnt0 \in 0 .. TimerSize - 1 /\ tov \in BOOLEAN /\ now \in Nat
    /\ timer0_overflow_count \in Words /\ timer0_millis \in Words
    /\ timer0_fract \in 0 .. FRACT_MAX - 1
    /\ sreg_i \in BOOLEAN /\ oldSREG \in BOOLEAN
    /\ clockPc \in {"idle", "timer", "flag", "loop"}
    /\ clockPc \in {"timer", "flag"} => user \in {"sketch", "start", "test"}
    /\ m \in Nat /\ t \in Nat /\ called \in Nat
    /\ start \in Words /\ ms \in Nat /\ asked \in Nat /\ delayed \in Nat

\* The overflows since reset, and those the handler has served.
Overflows == now \div TimerSize
TimerInv ==
    /\ now = TimerSize * Overflows + tcnt0 /\ Overflows \in Nat
    /\ tov => tcnt0 <= OverflowLatency /\ Overflows >= 1

\* The milliseconds and the fraction make up the time of the overflows served.
CountInv ==
    /\ timer0_overflow_count = Counted % WordSize
    /\ \E whole \in Nat :
          /\ timer0_millis = whole % WordSize
          /\ Ms * whole + FractUnit * timer0_fract = OverflowUs * Counted

\* t was read at instant r, which is now or a tick ago.
ReadAt(r) ==
    /\ r >= called /\ t = r % TimerSize
    /\ r = now \/ (r + 1 = now /\ (tcnt0 = 0 => tov))

CallInv ==
    /\ clockPc \in {"timer", "flag"} =>
          ~sreg_i /\ m = timer0_overflow_count /\ called <= now
    /\ clockPc = "flag" => \E r \in Nat : ReadAt(r)

\* delay()'s start is the instant s, in microseconds: the milliseconds counted
\* so far after the call, and not after the last look at the clock.
StartIs(s, last) ==
    /\ start = s % WordSize
    /\ ms <= asked
    /\ delayed * TickUs + (asked - ms) * Ms <= s
    /\ s <= last * TickUs

DelayInv ==
    /\ clockPc = "loop" => \E s \in Nat : StartIs(s, now)
    /\ clockPc \in {"timer", "flag"} /\ user = "test" =>
          ms > 0 /\ \E s \in Nat : StartIs(s, called)
    /\ clockPc \in {"timer", "flag"} /\ user = "start" => ms = asked /\ delayed <= called

ClockInv == ClockTypeOK /\ TimerInv /\ CountInv /\ CallInv /\ DelayInv

-----------------------------------------------------------------------------
\* The constants.

\* What the assumption about the constants means for the increments.
LEMMA ClockConstants ==
    /\ TimerSize \in Nat \ {0} /\ TickUs \in Nat \ {0} /\ WordSize \in Nat \ {0}
    /\ Ms \in Nat \ {0} /\ FractUnit \in Nat \ {0}
    /\ OverflowLatency \in Nat /\ OverflowLatency < TimerSize - 1
    /\ OverflowUs \in Nat
    /\ MILLIS_INC \in Nat /\ FRACT_INC \in Nat /\ FRACT_MAX \in Nat \ {0}
    /\ FRACT_INC < FRACT_MAX
    /\ Ms = FractUnit * FRACT_MAX
    /\ OverflowUs = Ms * MILLIS_INC + FractUnit * FRACT_INC
<1>1. /\ TimerSize \in Nat \ {0} /\ TickUs \in Nat \ {0} /\ WordSize \in Nat \ {0}
      /\ Ms \in Nat \ {0} /\ FractUnit \in Nat \ {0}
      /\ Ms % FractUnit = 0 /\ (OverflowUs % Ms) % FractUnit = 0
      /\ OverflowLatency \in Nat /\ OverflowLatency < TimerSize - 1
  BY TimerAssumption, LatencyAssumption
<1>2. OverflowUs \in Nat
  BY <1>1, TimesNat DEF OverflowUs
<1>3. /\ MILLIS_INC \in Nat /\ OverflowUs % Ms \in 0 .. Ms - 1
      /\ OverflowUs = Ms * MILLIS_INC + (OverflowUs % Ms)
  BY <1>1, <1>2, DivMod DEF MILLIS_INC
<1>4. FRACT_INC \in Nat /\ OverflowUs % Ms = FractUnit * FRACT_INC
  <2>1. OverflowUs % Ms \in Nat
    BY <1>1, <1>3
  <2>2. OverflowUs % Ms = FractUnit * ((OverflowUs % Ms) \div FractUnit)
                          + ((OverflowUs % Ms) % FractUnit)
        /\ (OverflowUs % Ms) \div FractUnit \in Nat
    BY <1>1, <2>1, DivMod
  <2> QED BY <1>1, <2>1, <2>2, TimesNat DEF FRACT_INC
<1>5. FRACT_MAX \in Nat /\ Ms = FractUnit * FRACT_MAX
  <2>1. Ms = FractUnit * (Ms \div FractUnit) + (Ms % FractUnit) /\ Ms \div FractUnit \in Nat
    BY <1>1, DivMod
  <2> QED BY <1>1, <2>1, TimesNat DEF FRACT_MAX
<1>6. FRACT_MAX # 0
  BY <1>1, <1>5
<1>7. FRACT_INC < FRACT_MAX
  <2>1. SUFFICES ASSUME FRACT_MAX <= FRACT_INC PROVE FALSE
    BY <1>4, <1>5
  <2>2. FRACT_MAX * FractUnit <= FRACT_INC * FractUnit
    BY <1>1, <1>4, <1>5, <2>1, TimesMonotone
  <2>3. FRACT_MAX * FractUnit = FractUnit * FRACT_MAX
        /\ FRACT_INC * FractUnit = FractUnit * FRACT_INC
    BY <1>1, <1>4, <1>5, TimesPlus
  <2> QED BY <1>1, <1>3, <1>4, <1>5, <2>2, <2>3, TimesNat
<1> QED BY <1>1, <1>2, <1>3, <1>4, <1>5, <1>6, <1>7

\* micros() returns a word.
LEMMA MicrosIsAWord ==
    ASSUME ClockTypeOK
    PROVE  MicrosValue \in Words
<1> DEFINE n == IF tov /\ t < TimerSize - 1 THEN m + 1 ELSE m
<1>1. n \in Nat /\ t \in Nat
  BY DEF ClockTypeOK
<1> HIDE DEF n
<1>2. (n * TimerSize + t) * TickUs \in Nat
  BY <1>1, ClockConstants, TimesNat
<1>3. ((n * TimerSize + t) * TickUs) % WordSize \in 0 .. WordSize - 1
  BY <1>2, ClockConstants, DivMod
<1> QED BY <1>3 DEF MicrosValue, n, Words

-----------------------------------------------------------------------------
\* The steps.

\* At reset no time has passed and none is counted.
LEMMA ClockInitInv == ClockInit => ClockInv
<1> SUFFICES ASSUME ClockInit PROVE ClockInv
  OBVIOUS
<1>1. 0 \div TimerSize = 0 /\ 0 % WordSize = 0
  <2>1. 0 = TimerSize * 0 + 0 /\ 0 = WordSize * 0 + 0
    BY ClockConstants
  <2>2. 0 < TimerSize /\ 0 < WordSize
    BY ClockConstants
  <2> QED BY <2>1, <2>2, ClockConstants, DivModIs
<1>2. ClockTypeOK
  <2>1. 0 \in 0 .. TimerSize - 1 /\ 0 \in Words /\ 0 \in 0 .. FRACT_MAX - 1 /\ 0 \in Nat
    BY ClockConstants DEF Words
  <2> QED BY <2>1, Zenon DEF ClockInit, ClockTypeOK
<1>3. TimerInv /\ Counted = 0
  BY <1>1, ClockConstants DEF ClockInit, TimerInv, Overflows, Counted
<1>4. CountInv
  <2>1. Ms * 0 + FractUnit * timer0_fract = OverflowUs * Counted
    BY <1>3, ClockConstants DEF ClockInit
  <2>2. timer0_millis = 0 % WordSize /\ timer0_overflow_count = Counted % WordSize
    BY <1>1, <1>3 DEF ClockInit
  <2> QED BY <2>1, <2>2 DEF CountInv
<1> QED BY <1>2, <1>3, <1>4 DEF ClockInit, ClockInv, CallInv, DelayInv

\* A tick of the timer serves no overflow.
LEMMA TickTimer ==
    ASSUME ClockTypeOK, TimerInv, Tick
    PROVE  /\ TimerInv' /\ Counted' = Counted
           /\ tcnt0' = (IF tcnt0 = TimerSize - 1 THEN 0 ELSE tcnt0 + 1)
           /\ tcnt0' = 0 => tov'
<1>1. /\ tcnt0 \in 0 .. TimerSize - 1 /\ tov \in BOOLEAN /\ now \in Nat
      /\ now = TimerSize * Overflows + tcnt0 /\ Overflows \in Nat
      /\ tov => tcnt0 <= OverflowLatency /\ Overflows >= 1
      /\ now' = now + 1 /\ tcnt0' = (tcnt0 + 1) % TimerSize
      /\ tov' = (tov \/ tcnt0' = 0)
      /\ ~ (tov /\ tcnt0 >= OverflowLatency)
  BY DEF ClockTypeOK, TimerInv, Tick
<1>2. CASE tcnt0 = TimerSize - 1
  <2>1. ~ tov
    BY <1>1, <1>2, ClockConstants
  <2>2. tcnt0' = 0
    <3>1. TimerSize = TimerSize * 1 + 0
      BY ClockConstants
    <3> QED BY <1>1, <1>2, <3>1, ClockConstants, DivModIs
  <2>3. Overflows' = Overflows + 1
    <3>1. now + 1 = TimerSize * (Overflows + 1) + 0
      BY <1>1, <1>2, ClockConstants, TimesPlus
    <3>2. (now + 1) \div TimerSize = Overflows + 1
      BY <1>1, <3>1, ClockConstants, DivModIs
    <3> QED BY <1>1, <3>2 DEF Overflows
  <2>4. now' = TimerSize * Overflows' + tcnt0'
    BY <1>1, <1>2, <2>2, <2>3, ClockConstants, TimesPlus
  <2>5. tov'
    BY <1>1, <2>2
  <2> QED BY <1>1, <1>2, <2>1, <2>2, <2>3, <2>4, <2>5, ClockConstants
          DEF TimerInv, Counted, Overflows
<1>3. CASE tcnt0 # TimerSize - 1
  <2>1. tcnt0 + 1 < TimerSize /\ tcnt0 + 1 \in Nat
    BY <1>1, <1>3, ClockConstants
  <2>2. tcnt0' = tcnt0 + 1
    <3>1. tcnt0 + 1 = TimerSize * 0 + (tcnt0 + 1)
      BY <1>1, ClockConstants
    <3> QED BY <1>1, <2>1, <3>1, ClockConstants, DivModIs
  <2>3. Overflows' = Overflows
    <3>1. now + 1 = TimerSize * Overflows + (tcnt0 + 1)
      BY <1>1, ClockConstants, TimesNat
    <3>2. (now + 1) \div TimerSize = Overflows
      BY <1>1, <2>1, <3>1, ClockConstants, DivModIs
    <3> QED BY <1>1, <3>2 DEF Overflows
  <2>4. now' = TimerSize * Overflows' + tcnt0'
    BY <1>1, <2>2, <2>3, ClockConstants, TimesNat
  <2>5. tov' = tov
    BY <1>1, <2>2
  <2> QED BY <1>1, <1>3, <2>2, <2>3, <2>4, <2>5, ClockConstants
          DEF TimerInv, Counted, Overflows
<1> QED BY <1>2, <1>3

\* The handler serves one.
LEMMA IrqTimer ==
    ASSUME ClockTypeOK, TimerInv, TimerIrq
    PROVE  /\ TimerInv' /\ Counted' = Counted + 1
           /\ Counted \in Nat
BY ClockConstants DEF ClockTypeOK, TimerInv, TimerIrq, Counted, Overflows

\* The counters stay in step with the timer.
LEMMA IrqCount ==
    ASSUME ClockTypeOK, TimerInv, CountInv, TimerIrq
    PROVE  /\ CountInv'
           /\ timer0_overflow_count' \in Words /\ timer0_millis' \in Words
           /\ timer0_fract' \in 0 .. FRACT_MAX - 1
<1>1. Counted' = Counted + 1 /\ Counted \in Nat
  BY IrqTimer
<1>2. timer0_overflow_count' = Counted' % WordSize
  <2>1. ((Counted % WordSize) + 1) % WordSize = (Counted + 1) % WordSize
    BY <1>1, ClockConstants, ModSum
  <2> QED BY <1>1, <2>1 DEF TimerIrq, CountInv
<1>3. timer0_overflow_count' \in Words
  BY <1>1, <1>2, ClockConstants, DivMod DEF Words
<1>4. PICK whole \in Nat :
          /\ timer0_millis = whole % WordSize
          /\ Ms * whole + FractUnit * timer0_fract = OverflowUs * Counted
  BY DEF CountInv
<1> DEFINE f == timer0_fract + FRACT_INC
           more == MILLIS_INC + (IF f >= FRACT_MAX THEN 1 ELSE 0)
<1>5. /\ timer0_fract \in Nat /\ timer0_fract < FRACT_MAX
      /\ timer0_fract' = IF f >= FRACT_MAX THEN f - FRACT_MAX ELSE f
      /\ timer0_millis' = (timer0_millis + more) % WordSize
  <2>1. timer0_fract \in Nat /\ timer0_fract < FRACT_MAX /\ timer0_millis \in Nat
    BY ClockConstants DEF ClockTypeOK, Words
  <2> QED BY <2>1, ClockConstants DEF TimerIrq
<1>6. timer0_fract' \in 0 .. FRACT_MAX - 1
  BY <1>5, ClockConstants
<1>7. more \in Nat /\ whole + more \in Nat
  BY ClockConstants
<1>8. timer0_millis' = (whole + more) % WordSize
  BY <1>4, <1>5, <1>7, ClockConstants, ModSum
<1>9. timer0_millis' \in Words
  BY <1>7, <1>8, ClockConstants, DivMod DEF Words
<1>10. Ms * (whole + more) + FractUnit * timer0_fract' = OverflowUs * Counted'
  <2>1. OverflowUs * Counted' = OverflowUs * Counted + OverflowUs
    BY <1>1, ClockConstants, TimesPlus
  <2>2. FractUnit * f = FractUnit * timer0_fract + FractUnit * FRACT_INC
    BY <1>5, ClockConstants, TimesPlus
  <2>3. CASE f >= FRACT_MAX
    <3>1. Ms * (whole + more) = Ms * whole + Ms * MILLIS_INC + Ms
      BY <2>3, ClockConstants, TimesPlus
    <3>2. FractUnit * (f - FRACT_MAX) = FractUnit * f - Ms
      BY <1>5, ClockConstants, TimesPlus
    <3>3. /\ Ms * whole \in Nat /\ Ms * MILLIS_INC \in Nat
          /\ FractUnit * timer0_fract \in Nat /\ FractUnit * FRACT_INC \in Nat
      BY <1>5, ClockConstants, TimesNat
    <3> QED BY <1>4, <1>5, <2>1, <2>2, <2>3, <3>1, <3>2, <3>3, ClockConstants
  <2>4. CASE ~ (f >= FRACT_MAX)
    <3>1. Ms * (whole + more) = Ms * whole + Ms * MILLIS_INC
      BY <2>4, ClockConstants, TimesPlus
    <3>2. /\ Ms * whole \in Nat /\ Ms * MILLIS_INC \in Nat
          /\ FractUnit * timer0_fract \in Nat /\ FractUnit * FRACT_INC \in Nat
      BY <1>5, ClockConstants, TimesNat
    <3> QED BY <1>4, <1>5, <2>1, <2>2, <2>4, <3>1, <3>2, ClockConstants
  <2> QED BY <2>3, <2>4
<1> QED BY <1>2, <1>3, <1>6, <1>7, <1>8, <1>9, <1>10 DEF CountInv

-----------------------------------------------------------------------------
\* What micros() is about to return is the instant at which it read the timer.

\* That instant in overflows served and one more if it is pending and t is
\* not the last value: the choice the code makes.
LEMMA InstantRead ==
    ASSUME ClockTypeOK, TimerInv, NEW r \in Nat, ReadAt(r)
    PROVE  /\ Counted \in Nat
           /\ r = TimerSize * (Counted + (IF tov /\ t < TimerSize - 1 THEN 1 ELSE 0)) + t
<1>1. /\ tcnt0 \in 0 .. TimerSize - 1 /\ tov \in BOOLEAN /\ now \in Nat
      /\ now = TimerSize * Overflows + tcnt0 /\ Overflows \in Nat
      /\ tov => tcnt0 <= OverflowLatency /\ Overflows >= 1
      /\ t = r % TimerSize
      /\ r = now \/ (r + 1 = now /\ (tcnt0 = 0 => tov))
  BY DEF ClockTypeOK, TimerInv, ReadAt
<1>2. Counted \in Nat /\ Counted = Overflows - (IF tov THEN 1 ELSE 0)
  BY <1>1 DEF Counted, Overflows
<1>3. CASE r = now
  <2>1. t = tcnt0
    BY <1>1, <1>3, ClockConstants, DivModIs
  <2>2. Overflows = Counted + (IF tov /\ t < TimerSize - 1 THEN 1 ELSE 0)
    BY <1>1, <1>2, <2>1, ClockConstants
  <2> QED BY <1>1, <1>2, <1>3, <2>1, <2>2
<1>4. CASE r + 1 = now /\ tcnt0 # 0
  <2>1. r = TimerSize * Overflows + (tcnt0 - 1)
    BY <1>1, <1>4, ClockConstants, TimesNat
  <2>2. t = tcnt0 - 1
    <3>1. TimerSize \in Nat \ {0} /\ tcnt0 - 1 \in Nat /\ tcnt0 - 1 < TimerSize
      BY <1>1, <1>4, ClockConstants
    <3>2. r % TimerSize = tcnt0 - 1
      BY <1>1, <2>1, <3>1, DivModIs
    <3> QED BY <1>1, <3>2
  <2>3. Overflows = Counted + (IF tov /\ t < TimerSize - 1 THEN 1 ELSE 0)
    BY <1>1, <1>2, <2>2, ClockConstants
  <2> QED BY <1>2, <2>1, <2>2, <2>3
<1>5. CASE r + 1 = now /\ tcnt0 = 0
  <2>1. tov /\ Overflows = Counted + 1
    BY <1>1, <1>2, <1>5
  <2>2. r = TimerSize * Counted + (TimerSize - 1)
    <3>1. TimerSize * (Counted + 1) = TimerSize * Counted + TimerSize
      BY <1>2, ClockConstants, TimesPlus
    <3> QED BY <1>1, <1>2, <1>5, <2>1, <3>1, ClockConstants, TimesNat
  <2>3. t = TimerSize - 1
    <3>1. TimerSize \in Nat \ {0} /\ TimerSize - 1 \in Nat /\ TimerSize - 1 < TimerSize
      BY ClockConstants
    <3>2. r % TimerSize = TimerSize - 1
      BY <1>2, <2>2, <3>1, DivModIs
    <3> QED BY <1>1, <3>2
  <2> QED BY <1>2, <2>2, <2>3
<1> QED BY <1>1, <1>3, <1>4, <1>5

\* What micros() computes is the time of the instant it read the timer at.
LEMMA MicrosIsTheInstant ==
    ASSUME ClockInv, clockPc = "flag", NEW r \in Nat, ReadAt(r)
    PROVE  MicrosValue = (r * TickUs) % WordSize
<1> DEFINE one == IF tov /\ t < TimerSize - 1 THEN 1 ELSE 0
           q == Counted \div WordSize
           c == Counted % WordSize
<1>1. Counted \in Nat /\ r = TimerSize * (Counted + one) + t /\ t \in Nat
  BY InstantRead DEF ClockInv, ClockTypeOK
<1>2. m = c
  BY DEF ClockInv, CallInv, CountInv
<1>3. q \in Nat /\ c \in Nat /\ Counted = WordSize * q + c
  BY <1>1, ClockConstants, DivMod
<1>4. MicrosValue = (((c + one) * TimerSize + t) * TickUs) % WordSize
  <2>1. (IF tov /\ t < TimerSize - 1 THEN m + 1 ELSE m) = c + one
    BY <1>2, <1>3
  <2> QED BY <2>1 DEF MicrosValue
<1>5. one \in Nat
  OBVIOUS
<1> HIDE DEF one, q, c
<1>6. r = ((c + one) * TimerSize + t) + WordSize * (q * TimerSize)
  <2>1. TimerSize * (WordSize * q + (c + one))
          = TimerSize * (WordSize * q) + TimerSize * (c + one)
    BY <1>3, <1>5, ClockConstants, TimesPlus, TimesNat
  <2>2. TimerSize * (WordSize * q) = WordSize * (q * TimerSize)
    BY <1>3, ClockConstants, TimesPlus
  <2>3. TimerSize * (c + one) = (c + one) * TimerSize
    BY <1>3, <1>5, ClockConstants, TimesPlus
  <2>4. Counted + one = WordSize * q + (c + one)
    BY <1>3, <1>5, ClockConstants, TimesNat
  <2>5. (c + one) * TimerSize \in Nat /\ WordSize * (q * TimerSize) \in Nat
    BY <1>3, <1>5, ClockConstants, TimesNat
  <2> QED BY <1>1, <2>1, <2>2, <2>3, <2>4, <2>5
<1> DEFINE low == (c + one) * TimerSize + t
           high == q * TimerSize
<1>7. low \in Nat /\ high \in Nat
  BY <1>1, <1>3, <1>5, ClockConstants, TimesNat
<1> HIDE DEF low, high
<1>8. r * TickUs = low * TickUs + WordSize * (high * TickUs)
  <2>1. TickUs * (low + WordSize * high) = TickUs * low + TickUs * (WordSize * high)
    BY <1>7, ClockConstants, TimesPlus
  <2>2. TickUs * (WordSize * high) = WordSize * (high * TickUs)
    BY <1>7, ClockConstants, TimesPlus
  <2>3. TickUs * low = low * TickUs /\ r * TickUs = TickUs * r
    BY <1>7, ClockConstants, TimesPlus
  <2> QED BY <1>6, <2>1, <2>2, <2>3 DEF low, high
<1>9. (low * TickUs + WordSize * (high * TickUs)) % WordSize = (low * TickUs) % WordSize
  BY <1>7, ClockConstants, TimesNat, ModPlus
<1> QED BY <1>4, <1>8, <1>9 DEF low

-----------------------------------------------------------------------------
\* Every step preserves the invariant.

\* The functions of the clock leave the timer and its counters alone.
LEMMA TimeKept ==
    ASSUME TimerInv, CountInv, UNCHANGED timerVars, UNCHANGED countVars
    PROVE  TimerInv' /\ CountInv'
BY DEF TimerInv, CountInv, Counted, Overflows, timerVars, countVars

\* The timer goes on.
LEMMA TickInv ==
    ASSUME ClockInv, Tick
    PROVE  ClockInv'
<1>1. /\ ClockTypeOK /\ TimerInv /\ CountInv /\ CallInv /\ DelayInv
      /\ now' = now + 1 /\ now \in Nat
      /\ (clockPc = "flag" => tcnt0 = t)
      /\ UNCHANGED <<timer0_overflow_count, timer0_millis, timer0_fract, sreg_i, clockPc,
                     user, oldSREG, m, t, called, start, ms, asked, delayed>>
  BY DEF ClockInv, ClockTypeOK, Tick, countVars, callVars, delayVars
<1>2. /\ TimerInv' /\ Counted' = Counted
      /\ tcnt0' = (IF tcnt0 = TimerSize - 1 THEN 0 ELSE tcnt0 + 1)
      /\ tcnt0' = 0 => tov'
  BY <1>1, TickTimer
<1>3. ClockTypeOK'
  <2>1. tcnt0' \in 0 .. TimerSize - 1 /\ now' \in Nat
    BY <1>1, <1>2, ClockConstants DEF ClockTypeOK
  <2>2. tov' \in BOOLEAN
    BY DEF Tick
  <2> QED BY <1>1, <2>1, <2>2 DEF ClockTypeOK, Words
<1>4. CountInv'
  BY <1>1, <1>2 DEF CountInv
<1>5. CallInv'
  <2>1. CASE clockPc = "flag"
    <3>1. PICK r \in Nat : ReadAt(r)
      BY <1>1, <2>1 DEF CallInv
    <3>2. tcnt0 \in 0 .. TimerSize - 1 /\ now = TimerSize * Overflows + tcnt0 /\ Overflows \in Nat
      BY <1>1 DEF ClockTypeOK, TimerInv
    <3>3. r = now
      <4>1. SUFFICES ASSUME r + 1 = now PROVE FALSE
        BY <3>1 DEF ReadAt
      <4>2. r % TimerSize = tcnt0
        BY <1>1, <2>1, <3>1 DEF ReadAt
      <4>3. r = TimerSize * (r \div TimerSize) + tcnt0 /\ r \div TimerSize \in Nat
        BY <4>2, ClockConstants, DivMod
      <4>4. CASE tcnt0 = TimerSize - 1
        <5>1. now = TimerSize * ((r \div TimerSize) + 1) + 0
          BY <4>1, <4>3, <4>4, <3>2, ClockConstants, TimesPlus
        <5>2. (r \div TimerSize) + 1 \in Nat /\ 0 < TimerSize /\ TimerSize \in Nat \ {0}
          BY <4>3, ClockConstants
        <5>3. now % TimerSize = 0
          BY <1>1, <5>1, <5>2, DivModIs
        <5>4. now % TimerSize = tcnt0
          BY <1>1, <3>2, ClockConstants, DivModIs
        <5> QED BY <4>4, <5>3, <5>4, ClockConstants
      <4>5. CASE tcnt0 # TimerSize - 1
        <5>1. now = TimerSize * (r \div TimerSize) + (tcnt0 + 1)
              /\ tcnt0 + 1 \in Nat /\ tcnt0 + 1 < TimerSize
          BY <4>1, <4>3, <4>5, <3>2, ClockConstants, TimesNat
        <5>2. now % TimerSize = tcnt0 + 1
          BY <1>1, <4>3, <5>1, ClockConstants, DivModIs
        <5>3. now % TimerSize = tcnt0
          BY <1>1, <3>2, ClockConstants, DivModIs
        <5> QED BY <5>2, <5>3, <3>2
      <4> QED BY <4>4, <4>5
    <3>4. ReadAt(r)'
      BY <1>1, <1>2, <3>1, <3>3 DEF ReadAt
    <3>5. called' <= now'
      BY <1>1, <2>1 DEF CallInv, ClockTypeOK
    <3> QED BY <1>1, <2>1, <3>4, <3>5 DEF CallInv
  <2>2. CASE clockPc # "flag"
    BY <1>1, <2>2 DEF CallInv, ClockTypeOK
  <2> QED BY <2>1, <2>2
<1>6. DelayInv'
  <2>1. ASSUME clockPc = "loop"
        PROVE  \E s \in Nat : StartIs(s, now)'
    <3>1. PICK s \in Nat : StartIs(s, now)
      BY <1>1, <2>1 DEF DelayInv
    <3>2. (now + 1) * TickUs = now * TickUs + TickUs
      BY <1>1, ClockConstants, TimesPlus
    <3>3. now * TickUs \in Nat
      BY <1>1, ClockConstants, TimesNat
    <3>4. StartIs(s, now)'
      BY <1>1, <3>1, <3>2, <3>3, ClockConstants DEF StartIs
    <3> QED BY <3>4
  <2>2. ASSUME NEW s \in Nat, StartIs(s, called)
        PROVE  StartIs(s, called)'
    BY <1>1, <2>2 DEF StartIs
  <2> QED BY <1>1, <2>1, <2>2 DEF DelayInv
<1> QED BY <1>2, <1>3, <1>4, <1>5, <1>6 DEF ClockInv

\* The handler counts the overflow that is pending.
LEMMA IrqInv ==
    ASSUME ClockInv, TimerIrq
    PROVE  ClockInv'
<1>1. /\ ClockTypeOK /\ TimerInv /\ CountInv /\ CallInv /\ DelayInv
      /\ sreg_i /\ tov' = FALSE
      /\ UNCHANGED <<tcnt0, now, sreg_i, clockPc, user, oldSREG, m, t, called, start, ms,
                     asked, delayed>>
  BY DEF ClockInv, TimerIrq, callVars, delayVars
<1>2. /\ CountInv'
      /\ timer0_overflow_count' \in Words /\ timer0_millis' \in Words
      /\ timer0_fract' \in 0 .. FRACT_MAX - 1
  BY <1>1, IrqCount
<1>3. TimerInv'
  BY <1>1, IrqTimer
<1>4. ClockTypeOK'
  BY <1>1, <1>2 DEF ClockTypeOK, Words
<1>5. clockPc \notin {"timer", "flag"}
  BY <1>1 DEF CallInv
<1>6. CallInv'
  BY <1>1, <1>5 DEF CallInv
<1>7. DelayInv'
  BY <1>1, <1>5 DEF DelayInv, StartIs
<1> QED BY <1>2, <1>3, <1>4, <1>6, <1>7 DEF ClockInv

\* The steps of micros(), by themselves and in delay().
LEMMA MicrosStepsInv ==
    ASSUME ClockInv, ReadTimer \/ CallMicros \/ MicrosReturn \/ SwitchInterrupts
    PROVE  ClockInv'
<1> USE DEF delayVars
<1>1. ClockTypeOK /\ TimerInv /\ CountInv /\ CallInv /\ DelayInv
  BY DEF ClockInv
<1>2. UNCHANGED timerVars /\ UNCHANGED countVars
  BY DEF ReadTimer, CallMicros, MicrosReturn, MicrosEnd, SwitchInterrupts
<1>3. TimerInv' /\ CountInv'
  BY <1>1, <1>2, TimeKept
<1>4. CASE ReadTimer
  <2>1. ClockTypeOK'
    BY <1>1, <1>2, <1>4 DEF ClockTypeOK, ReadTimer, timerVars, countVars, Words
  <2>2. now \in Nat /\ called <= now /\ tcnt0 = now % TimerSize
    <3>1. /\ tcnt0 \in 0 .. TimerSize - 1 /\ now \in Nat
          /\ now = TimerSize * Overflows + tcnt0 /\ Overflows \in Nat
      BY <1>1 DEF ClockTypeOK, TimerInv
    <3>2. now % TimerSize = tcnt0
      BY <3>1, ClockConstants, DivModIs
    <3> QED BY <1>1, <1>4, <3>1, <3>2 DEF CallInv, ReadTimer
  <2>3. ReadAt(now)'
    BY <1>2, <1>4, <2>2, <1>1 DEF ReadAt, ReadTimer, timerVars, ClockTypeOK
  <2>4. now' \in Nat
    BY <1>2, <2>2 DEF timerVars
  <2>5. CallInv'
    BY <1>1, <1>2, <1>4, <2>3, <2>4 DEF CallInv, ReadTimer, timerVars, countVars
  <2>6. DelayInv'
    BY <1>1, <1>2, <1>4 DEF DelayInv, StartIs, ReadTimer, timerVars
  <2> QED BY <1>3, <2>1, <2>5, <2>6 DEF ClockInv
<1>5. CASE CallMicros
  <2>1. ClockTypeOK'
    <3>1. timer0_overflow_count \in Nat /\ now \in Nat
      BY <1>1, ClockConstants DEF ClockTypeOK, Words
    <3> QED BY <1>1, <1>2, <1>5, <3>1, Zenon
            DEF ClockTypeOK, CallMicros, ReadCount, timerVars, countVars
  <2>2. CallInv'
    BY <1>1, <1>2, <1>5 DEF CallInv, CallMicros, ReadCount, timerVars, countVars, ClockTypeOK
  <2>3. DelayInv'
    BY <1>5 DEF DelayInv, CallMicros, ReadCount
  <2> QED BY <1>3, <2>1, <2>2, <2>3 DEF ClockInv
<1>6. CASE MicrosReturn
  <2>1. ClockTypeOK'
    BY <1>1, <1>2, <1>6 DEF ClockTypeOK, MicrosReturn, MicrosEnd, timerVars, countVars, Words
  <2>2. CallInv' /\ DelayInv'
    BY <1>6 DEF CallInv, DelayInv, MicrosReturn, MicrosEnd
  <2> QED BY <1>3, <2>1, <2>2 DEF ClockInv
<1>7. CASE SwitchInterrupts
  <2>1. ClockTypeOK'
    BY <1>1, <1>2, <1>7
    DEF ClockTypeOK, SwitchInterrupts, callVars, timerVars, countVars, Words
  <2>2. CallInv' /\ DelayInv'
    BY <1>7 DEF CallInv, DelayInv, SwitchInterrupts, callVars
  <2> QED BY <1>3, <2>1, <2>2 DEF ClockInv
<1> QED BY <1>4, <1>5, <1>6, <1>7

\* delay() is called.
LEMMA DelayCallInv ==
    ASSUME ClockInv, NEW n \in Delays, CallDelay(n)
    PROVE  ClockInv'
<1> USE DEF delayVars
<1>1. ClockTypeOK /\ TimerInv /\ CountInv /\ CallInv /\ DelayInv /\ n \in Nat
  BY WatchAssumption DEF ClockInv
<1>2. UNCHANGED timerVars /\ UNCHANGED countVars
  BY DEF CallDelay
<1>3. TimerInv' /\ CountInv'
  BY <1>1, <1>2, TimeKept
<1>4. ClockTypeOK'
  <2>1. timer0_overflow_count \in Nat /\ now \in Nat
    BY <1>1, ClockConstants DEF ClockTypeOK, Words
  <2> QED BY <1>1, <1>2, <2>1, Zenon
          DEF ClockTypeOK, CallDelay, ReadCount, timerVars, countVars
<1>5. CallInv'
  BY <1>1, <1>2 DEF CallInv, CallDelay, ReadCount, timerVars, countVars, ClockTypeOK
<1>6. DelayInv'
  BY <1>1, <1>2 DEF DelayInv, CallDelay, ReadCount, ClockTypeOK
<1> QED BY <1>3, <1>4, <1>5, <1>6 DEF ClockInv

\* start is the instant at which micros() read the timer: not before the call.
LEMMA DelayStartInv ==
    ASSUME ClockInv, DelayStart
    PROVE  ClockInv'
<1>1. /\ ClockTypeOK /\ TimerInv /\ CountInv /\ CallInv /\ DelayInv
      /\ clockPc = "flag" /\ user = "start" /\ clockPc' = "loop"
      /\ start' = MicrosValue
      /\ UNCHANGED <<ms, asked, delayed>> /\ UNCHANGED timerVars /\ UNCHANGED countVars
  BY DEF ClockInv, DelayStart, MicrosEnd
<1>2. TimerInv' /\ CountInv'
  BY <1>1, TimeKept
<1>3. ClockTypeOK'
  BY <1>1, MicrosIsAWord DEF ClockTypeOK, DelayStart, MicrosEnd, timerVars, countVars, Words
<1>4. CallInv'
  BY <1>1 DEF CallInv
<1>5. DelayInv'
  <2>1. PICK r \in Nat : ReadAt(r)
    BY <1>1 DEF CallInv
  <2>2. MicrosValue = (r * TickUs) % WordSize
    BY <1>1, <2>1, MicrosIsTheInstant DEF ClockInv
  <2>3. /\ delayed \in Nat /\ called \in Nat /\ now \in Nat /\ ms = asked /\ asked \in Nat
        /\ delayed <= r /\ r <= now
    BY <1>1, <2>1 DEF ClockTypeOK, DelayInv, ReadAt
  <2>4. delayed * TickUs <= r * TickUs /\ r * TickUs <= now * TickUs
    BY <2>3, ClockConstants, TimesMonotone
  <2>5. r * TickUs \in Nat /\ delayed * TickUs \in Nat /\ (asked - ms) * Ms = 0
    BY <2>3, ClockConstants, TimesNat
  <2>6. StartIs(r * TickUs, now)'
    BY <1>1, <2>2, <2>3, <2>4, <2>5 DEF StartIs, timerVars
  <2> QED BY <1>1, <2>5, <2>6 DEF DelayInv
<1> QED BY <1>2, <1>3, <1>4, <1>5 DEF ClockInv

\* The loop of delay() reads micros() again.
LEMMA DelayPollInv ==
    ASSUME ClockInv, DelayPoll
    PROVE  ClockInv'
<1> USE DEF delayVars
<1>1. ClockTypeOK /\ TimerInv /\ CountInv /\ CallInv /\ DelayInv
  BY DEF ClockInv
<1>2. UNCHANGED timerVars /\ UNCHANGED countVars
  BY DEF DelayPoll
<1>3. TimerInv' /\ CountInv'
  BY <1>1, <1>2, TimeKept
<1>4. ClockTypeOK'
  <2>1. timer0_overflow_count \in Nat /\ now \in Nat
    BY <1>1, ClockConstants DEF ClockTypeOK, Words
  <2> QED BY <1>1, <1>2, <2>1, Zenon
          DEF ClockTypeOK, DelayPoll, ReadCount, timerVars, countVars
<1>5. CallInv'
  BY <1>1, <1>2 DEF CallInv, DelayPoll, ReadCount, timerVars, countVars, ClockTypeOK
<1>6. DelayInv'
  <2>1. PICK s \in Nat : StartIs(s, now)
    BY <1>1 DEF DelayInv, DelayPoll
  <2>2. StartIs(s, called)'
    BY <2>1 DEF StartIs, DelayPoll, ReadCount
  <2>3. clockPc' = "timer" /\ user' = "test" /\ ms' > 0
    BY DEF DelayPoll, ReadCount
  <2> QED BY <2>2, <2>3 DEF DelayInv
<1> QED BY <1>3, <1>4, <1>5, <1>6 DEF ClockInv

\* A millisecond is counted only when it has passed since the one before, also
\* when the clock or start came round meanwhile.
LEMMA DelayTestInv ==
    ASSUME ClockInv, DelayTest
    PROVE  ClockInv'
<1>1. /\ ClockTypeOK /\ TimerInv /\ CountInv /\ CallInv /\ DelayInv
      /\ clockPc = "flag" /\ user = "test" /\ clockPc' = "loop"
      /\ UNCHANGED <<asked, delayed>> /\ UNCHANGED timerVars /\ UNCHANGED countVars
  BY DEF ClockInv, DelayTest, MicrosEnd
<1>2. TimerInv' /\ CountInv'
  BY <1>1, TimeKept
<1>3. /\ ms \in Nat /\ ms > 0 /\ asked \in Nat /\ delayed \in Nat
      /\ called \in Nat /\ now \in Nat /\ start \in Words
  BY <1>1 DEF ClockTypeOK, DelayInv
<1>4. PICK s \in Nat : StartIs(s, called)
  BY <1>1 DEF DelayInv
<1>5. PICK r \in Nat : ReadAt(r)
  BY <1>1 DEF CallInv
<1>6. called <= r /\ r <= now
  BY <1>3, <1>5 DEF ReadAt
<1>7. s <= called * TickUs /\ called * TickUs <= r * TickUs /\ r * TickUs <= now * TickUs
  BY <1>3, <1>4, <1>6, ClockConstants, TimesMonotone DEF StartIs
<1>8. called * TickUs \in Nat /\ r * TickUs \in Nat /\ now * TickUs \in Nat
  BY <1>3, ClockConstants, TimesNat
<1>9. MicrosSinceStart <= r * TickUs - s
  <2>1. MicrosValue = (r * TickUs) % WordSize
    BY <1>1, <1>5, MicrosIsTheInstant DEF ClockInv
  <2>2. start = s % WordSize
    BY <1>4 DEF StartIs
  <2>3. s <= r * TickUs
    BY <1>7, <1>8
  <2>4. MicrosSinceStart = (r * TickUs - s) % WordSize
    <3> DEFINE a == r * TickUs
    <3>1. a \in Nat /\ s <= a
      BY <1>8, <2>3
    <3> HIDE DEF a
    <3>w. WordSize \in Nat \ {0}
      BY ClockConstants
    <3>2. ((a % WordSize) + WordSize - (s % WordSize)) % WordSize = (a - s) % WordSize
      BY <3>1, <3>w, ModDifference, Zenon
    <3>3. MicrosSinceStart = ((a % WordSize) + WordSize - (s % WordSize)) % WordSize
      BY <2>1, <2>2 DEF MicrosSinceStart, a
    <3>4. MicrosSinceStart = (a - s) % WordSize
      BY <3>2, <3>3, Zenon
    <3> QED BY <3>4, Zenon DEF a
  <2>5. r * TickUs - s \in Nat
    BY <1>8, <2>3
  <2> DEFINE a == r * TickUs - s
  <2> HIDE DEF a
  <2>6. a \in Nat
    BY <2>5 DEF a
  <2>7. a = WordSize * (a \div WordSize) + (a % WordSize) /\ a \div WordSize \in Nat
        /\ a % WordSize \in Nat
    BY <2>6, ClockConstants, DivMod
  <2>8. WordSize * (a \div WordSize) \in Nat
    BY <2>7, ClockConstants, TimesNat
  <2>9. a % WordSize <= a
    BY <2>6, <2>7, <2>8
  <2> QED BY <2>4, <2>9 DEF a
<1>10. MicrosSinceStart \in Nat
  <2>1. MicrosValue \in Nat /\ start \in Nat /\ start < WordSize
    BY <1>1, MicrosIsAWord, ClockConstants DEF Words, ClockTypeOK
  <2>2. MicrosValue + WordSize - start \in Nat
    BY <2>1, ClockConstants
  <2> QED BY <2>2, ClockConstants, DivMod DEF MicrosSinceStart
<1>11. CASE MicrosSinceStart >= Ms
  <2>1. ms' = ms - 1 /\ start' = (start + Ms) % WordSize
    BY <1>11 DEF DelayTest
  <2>2. s + Ms <= r * TickUs
    BY <1>7, <1>8, <1>9, <1>10, <1>11, ClockConstants
  <2>3. start' = (s + Ms) % WordSize
    BY <1>4, <2>1, ClockConstants, ModSum DEF StartIs
  <2>4. (asked - (ms - 1)) * Ms = (asked - ms) * Ms + Ms
    <3>1. Ms * ((asked - ms) + 1) = Ms * (asked - ms) + Ms * 1
      BY <1>3, ClockConstants, TimesPlus
    <3>2. Ms * (asked - (ms - 1)) = (asked - (ms - 1)) * Ms
          /\ Ms * (asked - ms) = (asked - ms) * Ms
      BY <1>3, ClockConstants, TimesPlus
    <3>3. (asked - ms) + 1 = asked - (ms - 1)
      BY <1>3
    <3> QED BY <3>1, <3>2, <3>3, ClockConstants
  <2>5. StartIs(s + Ms, now)'
    <3>1. ms <= asked /\ delayed * TickUs + (asked - ms) * Ms <= s
      BY <1>4 DEF StartIs
    <3>2. delayed * TickUs \in Nat /\ (asked - ms) * Ms \in Nat
      BY <1>3, <3>1, ClockConstants, TimesNat
    <3>3. /\ ms - 1 <= asked
          /\ delayed * TickUs + (asked - (ms - 1)) * Ms <= s + Ms
          /\ s + Ms <= now * TickUs
      BY <1>3, <1>7, <1>8, <2>2, <2>4, <3>1, <3>2, ClockConstants
    <3> QED BY <1>1, <2>1, <2>3, <3>3 DEF StartIs, timerVars
  <2>6. ms' \in Nat /\ start' \in Words
    <3>1. s + Ms \in Nat
      BY ClockConstants
    <3> QED BY <1>3, <2>1, <2>3, <3>1, ClockConstants, DivMod DEF Words
  <2>7. ClockTypeOK'
    BY <1>1, <2>6, Zenon DEF ClockTypeOK, DelayTest, MicrosEnd, timerVars, countVars
  <2>8. s + Ms \in Nat
    BY ClockConstants
  <2>9. CallInv' /\ DelayInv'
    BY <1>1, <2>5, <2>8 DEF CallInv, DelayInv
  <2> QED BY <1>2, <2>7, <2>9 DEF ClockInv
<1>12. CASE ~ (MicrosSinceStart >= Ms)
  <2>1. ms' = ms /\ start' = start
    BY <1>12 DEF DelayTest
  <2>2. StartIs(s, now)'
    <3>1. s <= now * TickUs
      BY <1>7, <1>8
    <3> QED BY <1>1, <1>4, <2>1, <3>1 DEF StartIs, timerVars
  <2>3. ClockTypeOK'
    BY <1>1, <1>3, <2>1, Zenon DEF ClockTypeOK, DelayTest, MicrosEnd, timerVars, countVars
  <2>4. CallInv' /\ DelayInv'
    BY <1>1, <2>2 DEF CallInv, DelayInv
  <2> QED BY <1>2, <2>3, <2>4 DEF ClockInv
<1> QED BY <1>11, <1>12

\* delay() returns.
LEMMA DelayReturnInv ==
    ASSUME ClockInv, DelayReturn
    PROVE  ClockInv'
<1>1. ClockTypeOK /\ TimerInv /\ CountInv /\ CallInv /\ DelayInv
  BY DEF ClockInv
<1>2. UNCHANGED timerVars /\ UNCHANGED countVars
  BY DEF DelayReturn
<1>3. TimerInv' /\ CountInv'
  BY <1>1, <1>2, TimeKept
<1>4. ClockTypeOK'
  <2>1. 0 \in Words /\ 0 \in Nat
    BY ClockConstants DEF Words
  <2> QED BY <1>1, <1>2, <2>1, Zenon DEF ClockTypeOK, DelayReturn, timerVars, countVars
<1>5. clockPc' = "idle"
  BY DEF DelayReturn
<1>6. CallInv' /\ DelayInv'
  BY <1>5 DEF CallInv, DelayInv
<1> QED BY <1>3, <1>4, <1>6 DEF ClockInv

\* Nothing happens.
LEMMA ClockStutterInv ==
    ASSUME ClockInv, UNCHANGED clockVars
    PROVE  ClockInv'
<1>1. /\ UNCHANGED timerVars /\ UNCHANGED countVars
      /\ UNCHANGED <<sreg_i, clockPc, user, oldSREG, m, t, called, start, ms, asked, delayed>>
  BY DEF clockVars, callVars, delayVars
<1>2. TimerInv' /\ CountInv'
  BY <1>1, TimeKept DEF ClockInv
<1>3. ClockTypeOK'
  BY <1>1, Zenon DEF ClockInv, ClockTypeOK, timerVars, countVars
<1>4. CallInv' /\ DelayInv'
  BY <1>1 DEF ClockInv, CallInv, DelayInv, ReadAt, StartIs, timerVars, countVars
<1> QED BY <1>2, <1>3, <1>4 DEF ClockInv

-----------------------------------------------------------------------------
\* The theorems.

\* The invariant holds in every reachable state of the clock, for every timer,
\* word size and argument of delay().
THEOREM ClockInvariant == ClockSpec => []ClockInv
<1>1. ClockInit => ClockInv
  BY ClockInitInv
<1>2. ClockInv /\ [ClockNext]_clockVars => ClockInv'
  <2> SUFFICES ASSUME ClockInv, [ClockNext]_clockVars PROVE ClockInv'
    OBVIOUS
  <2>1. CASE Tick
    BY <2>1, TickInv
  <2>2. CASE TimerIrq
    BY <2>2, IrqInv
  <2>3. CASE ReadTimer \/ CallMicros \/ MicrosReturn \/ SwitchInterrupts
    BY <2>3, MicrosStepsInv
  <2>4. CASE \E n \in Delays : CallDelay(n)
    BY <2>4, DelayCallInv
  <2>5. CASE DelayStart
    BY <2>5, DelayStartInv
  <2>6. CASE DelayPoll
    BY <2>6, DelayPollInv
  <2>7. CASE DelayTest
    BY <2>7, DelayTestInv
  <2>8. CASE DelayReturn
    BY <2>8, DelayReturnInv
  <2>9. CASE UNCHANGED clockVars
    BY <2>9, ClockStutterInv
  <2> QED BY <2>1, <2>2, <2>3, <2>4, <2>5, <2>6, <2>7, <2>8, <2>9 DEF ClockNext, ClockCalls
<1> QED BY <1>1, <1>2, PTL DEF ClockSpec

\* The milliseconds and the fraction make up the time of the overflows served.
LEMMA MillisNow == ClockInv => MillisIsTrue
<1> SUFFICES ASSUME ClockInv PROVE MillisIsTrue
  OBVIOUS
<1>1. PICK whole \in Nat :
        /\ timer0_millis = whole % WordSize
        /\ Ms * whole + FractUnit * timer0_fract = OverflowUs * Counted
  BY DEF ClockInv, CountInv
<1>2. Counted \in Nat /\ timer0_fract \in Nat /\ timer0_fract < FRACT_MAX
  BY ClockConstants DEF ClockInv, ClockTypeOK, TimerInv, Counted, Overflows
<1>3. FractUnit * timer0_fract \in Nat /\ FractUnit * timer0_fract < Ms
  <2>1. (timer0_fract + 1) * FractUnit <= FRACT_MAX * FractUnit
    BY <1>2, ClockConstants, TimesMonotone
  <2>2. FractUnit * (timer0_fract + 1) = FractUnit * timer0_fract + FractUnit
    BY <1>2, ClockConstants, TimesPlus
  <2>3. FractUnit * (timer0_fract + 1) = (timer0_fract + 1) * FractUnit
        /\ FractUnit * FRACT_MAX = FRACT_MAX * FractUnit
    BY <1>2, ClockConstants, TimesPlus
  <2>4. FractUnit * timer0_fract \in Nat
    BY <1>2, ClockConstants, TimesNat
  <2> QED BY <2>1, <2>2, <2>3, <2>4, ClockConstants
<1>4. Counted * OverflowUs \in Nat
      /\ Counted * OverflowUs = Ms * whole + FractUnit * timer0_fract
  BY <1>1, <1>2, ClockConstants, TimesNat, TimesPlus
<1>5. (Counted * OverflowUs) \div Ms = whole
  BY <1>3, <1>4, ClockConstants, DivModIs
<1> QED BY <1>1, <1>5 DEF MillisIsTrue

\* timer0_millis, kept by TIMER0_OVF_vect, is the time in milliseconds of the
\* overflows it has served, modulo the word, however long the board runs.
THEOREM MillisTellsTime == ClockSpec => []MillisIsTrue
BY MillisNow, ClockInvariant, PTL

\* What micros() is about to return is the time of an instant within the call,
\* wherever the timer overflowed in it.
THEOREM MicrosTellsTime == ClockSpec => []MicrosIsTrue
<1>1. ClockInv => MicrosIsTrue
  <2> SUFFICES ASSUME ClockInv, clockPc = "flag"
               PROVE  \E k \in called .. now : MicrosValue = (k * TickUs) % WordSize
    BY DEF MicrosIsTrue
  <2>1. PICK r \in Nat : ReadAt(r)
    BY DEF ClockInv, CallInv
  <2>2. MicrosValue = (r * TickUs) % WordSize
    BY <2>1, MicrosIsTheInstant
  <2>3. r \in called .. now
    BY <2>1 DEF ClockInv, ClockTypeOK, ReadAt
  <2> QED BY <2>2, <2>3
<1> QED BY <1>1, ClockInvariant, PTL

\* delay() takes at least as long as it was asked to.
THEOREM DelayIsLongEnough == ClockSpec => DelayLongEnough
<1>1. ClockInv /\ DelayReturn => (now - delayed) * TickUs >= asked * Ms
  <2> SUFFICES ASSUME ClockInv, DelayReturn
               PROVE  (now - delayed) * TickUs >= asked * Ms
    OBVIOUS
  <2>1. PICK s \in Nat : StartIs(s, now)
    BY DEF ClockInv, DelayInv, DelayReturn
  <2>2. ms = 0 /\ asked \in Nat /\ delayed \in Nat /\ now \in Nat
    BY DEF ClockInv, ClockTypeOK, DelayReturn
  <2>3. delayed * TickUs + asked * Ms <= s /\ s <= now * TickUs
    BY <2>1, <2>2 DEF StartIs
  <2>4. (now - delayed) * TickUs = now * TickUs - delayed * TickUs
    <3>1. TickUs * (now - delayed) = TickUs * now - TickUs * delayed
      BY <2>2, ClockConstants, TimesPlus
    <3>2. TickUs * (now - delayed) = (now - delayed) * TickUs
          /\ TickUs * now = now * TickUs /\ TickUs * delayed = delayed * TickUs
      BY <2>2, ClockConstants, TimesPlus
    <3> QED BY <3>1, <3>2
  <2>5. now * TickUs \in Nat /\ delayed * TickUs \in Nat /\ asked * Ms \in Nat
    BY <2>2, ClockConstants, TimesNat
  <2> QED BY <2>3, <2>4, <2>5
<1> QED BY <1>1, ClockInvariant, PTL DEF ClockSpec, DelayLongEnough

-----------------------------------------------------------------------------
\* The code of a function.

Ops == {"work", "yield", "micros", "switch", "sleep", "delay", "spawn"}
LastOps == {"forever", "exit", "end"}

\* What a statement has besides its name.
LEMMA StatementIs ==
    ASSUME NEW s \in Statements
    PROVE  /\ s.op \in Ops
           /\ s.op = "delay" => s.ms \in Delays
           /\ s.op = "sleep" => s.ms \in Nat
           /\ s.op = "spawn" => s.of \in Blocks
BY DEF Statements, Ops

\* Events, blocks and the functions added to blocks are different functions.
LEMMA FunctionsDiffer ==
    /\ \A e \in Events : e \notin Blocks
    /\ \A b \in Blocks : Rec(b) \notin Events \cup Blocks /\ <<"block", Rec(b)[2]>> = b
<1>1. \A e \in Events : e[1] = "event"
  BY ScheduleAssumption
<1>2. \A b \in Blocks : b = <<"block", b[2]>>
  BY ScheduleAssumption
<1>3. \A b \in Blocks : b[1] = "block"
  BY <1>2
<1>4. \A b \in Blocks : Rec(b)[1] = "rec" /\ Rec(b)[2] = b[2]
  BY DEF Rec
<1> QED BY <1>1, <1>2, <1>3, <1>4

\* The body of a function ends with a statement that never goes on, and every
\* statement has what its name asks for.
BodyOK(f, body) ==
    /\ Len(body) \in Nat \ {0}
    /\ \A i \in 1 .. Len(body) :
          /\ body[i].op \in Ops \cup LastOps
          /\ i = Len(body) => body[i].op \in LastOps
          /\ body[i].op = "delay" => body[i].ms \in Delays
          /\ body[i].op = "sleep" => body[i].ms \in Nat
          /\ body[i].op = "spawn" =>
                IF f \in Events \cup Blocks THEN body[i].of \in Blocks
                ELSE body[i].of \in Functions

\* Appending the end of an event or a block to its code makes a body.
LEMMA AppendOK ==
    ASSUME NEW f \in Events \cup Blocks, NEW c \in Seq(Statements),
           NEW op \in {"forever", "exit"}
    PROVE  BodyOK(f, Append(c, [op |-> op]))
<1> DEFINE e == [op |-> op]
           body == Append(c, e)
<1>1. Len(c) \in Nat /\ Len(body) = Len(c) + 1
  OBVIOUS
<1>2. e.op = op /\ e.op \in LastOps /\ e.op \notin Ops
  BY DEF LastOps, Ops
<1>3. \A i \in 1 .. Len(body) : IF i = Len(body) THEN body[i] = e
                                ELSE body[i] = c[i] /\ i \in 1 .. Len(c)
  OBVIOUS
<1>4. \A i \in 1 .. Len(c) : c[i] \in Statements
  OBVIOUS
<1> HIDE DEF e, body
<1> SUFFICES BodyOK(f, body)
  BY DEF e, body
<1> QED BY <1>1, <1>2, <1>3, <1>4, StatementIs DEF BodyOK, Ops

\* So do a statement in front of a body, and the body of an added function.
LEMMA BodyIsOK ==
    ASSUME NEW f \in Functions
    PROVE  BodyOK(f, Body(f))
<1>1. CASE f \in Events
  <2>1. Code[f] \in Seq(Statements)
    BY <1>1, CodeAssumption
  <2> QED BY <1>1, <2>1, AppendOK DEF Body
<1>2. CASE f \in Blocks
  <2> DEFINE y == [op |-> "yield"]
             c == Append(Code[f], [op |-> "exit"])
             body == <<y>> \o c
  <2>1. Code[f] \in Seq(Statements)
    BY <1>2, CodeAssumption
  <2>2. BodyOK(f, c)
    BY <1>2, <2>1, AppendOK
  <2>3. f \notin Events
    BY <1>2, FunctionsDiffer
  <2>4. Body(f) = body
    BY <1>2, <2>3 DEF Body
  <2>5. /\ Len(body) = Len(c) + 1
        /\ \A i \in 1 .. Len(body) : IF i = 1 THEN body[i] = y
                                     ELSE body[i] = c[i - 1] /\ i - 1 \in 1 .. Len(c)
    <3>1. \E S : c \in Seq(S)
      <4>1. c \in Seq(Statements \cup {[op |-> "exit"]})
        BY <2>1
      <4> QED BY <4>1
    <3> QED BY <3>1
  <2>6. y.op = "yield"
    OBVIOUS
  <2> HIDE DEF y, c, body
  <2>7. BodyOK(f, body)
    BY <1>2, <2>2, <2>5, <2>6 DEF BodyOK, Ops, LastOps
  <2> QED BY <2>4, <2>7
<1>3. CASE f \notin Events \cup Blocks
  <2>1. PICK b \in Blocks : f = Rec(b)
    BY <1>3 DEF Functions
  <2>2. <<"block", f[2]>> = b
    BY <2>1, FunctionsDiffer
  <2> DEFINE s == [op |-> "spawn", of |-> b]
             e == [op |-> "end"]
  <2>3. Body(f) = <<s, e>>
    BY <1>3, <2>2 DEF Body
  <2>4. b \in Functions
    BY DEF Functions
  <2>5. s.op = "spawn" /\ s.of = b /\ e.op = "end"
    OBVIOUS
  <2> HIDE DEF s, e
  <2>6. BodyOK(f, <<s, e>>)
    BY <1>3, <2>4, <2>5 DEF BodyOK, Ops, LastOps
  <2> QED BY <2>3, <2>6
<1> QED BY <1>1, <1>2, <1>3

-----------------------------------------------------------------------------
\* The control state of the threads: every label and every frame points at a
\* statement of its function.

Frames ==
    {fr \in [fn : Functions, at : Nat, byGoto : BOOLEAN] :
        fr.at \in 1 .. Len(Body(fr.fn))}

ControlInv ==
    /\ lc \in [Functions -> Nat]
    /\ \A f \in Functions : lc[f] <= Len(Body(f))
    /\ stack \in Seq(Frames)
    /\ turn \in 1 .. Len(Schedule)

\* The operations on the stack.
LEMMA StackIs ==
    ASSUME NEW S, NEW s \in Seq(S), NEW x \in S
    PROVE  /\ Append(s, x) \in Seq(S)
           /\ s # <<>> => /\ Len(s) \in 1 .. Len(s) /\ s[Len(s)] \in S
                          /\ SubSeq(s, 1, Len(s) - 1) \in Seq(S)
                          /\ [s EXCEPT ![Len(s)] = x] \in Seq(S)
OBVIOUS

\* The frame on top and its statement.
LEMMA TopIs ==
    ASSUME ControlInv, stack # <<>>
    PROVE  /\ Top \in Frames /\ Top.fn \in Functions /\ Top.at \in Nat
           /\ Top.at \in 1 .. Len(Body(Top.fn))
           /\ Stmt.op \in Ops \cup LastOps
           /\ Top.at = Len(Body(Top.fn)) => Stmt.op \in LastOps
           /\ Stmt.op = "delay" => Stmt.ms \in Delays
           /\ Stmt.op = "sleep" => Stmt.ms \in Nat
           /\ Stmt.op = "spawn" => Child \in Functions
<1>1. Top \in Frames
  BY DEF ControlInv, Top
<1>2. /\ Top.fn \in Functions /\ Top.at \in Nat
      /\ Top.at \in 1 .. Len(Body(Top.fn))
  BY <1>1 DEF Frames
<1>3. BodyOK(Top.fn, Body(Top.fn))
  BY <1>2, BodyIsOK
<1>4. Stmt.op = "spawn" => Child \in Functions
  <2>1. \A b \in Blocks : Rec(b) \in Functions
    BY DEF Functions
  <2> QED BY <1>2, <1>3, <2>1 DEF BodyOK, Stmt, Child
<1> QED BY <1>1, <1>2, <1>3, <1>4 DEF BodyOK, Stmt

\* A call begins with a frame.
LEMMA CallOK ==
    ASSUME ControlInv, NEW f \in Functions, Call(f)
    PROVE  stack' \in Seq(Frames)
<1>1. /\ lc[f] \in Nat /\ lc[f] <= Len(Body(f))
      /\ Len(Body(f)) \in Nat \ {0}
  BY BodyIsOK DEF ControlInv, BodyOK
<1>2. Frame(f) \in Frames
  BY <1>1 DEF Frame, Frames
<1> QED BY <1>2, StackIs DEF Call, ControlInv

\* Only a statement that is not the last goes on.
LEMMA GoOnOK ==
    ASSUME ControlInv, stack # <<>>, Stmt.op \in Ops, GoOn
    PROVE  stack' \in Seq(Frames)
<1> DEFINE x == [fn |-> Top.fn, at |-> Top.at + 1, byGoto |-> FALSE]
<1>1. Top \in Frames /\ Top.at \in 1 .. Len(Body(Top.fn)) /\ Top.fn \in Functions
  BY TopIs
<1>2. Top.at # Len(Body(Top.fn))
  BY TopIs DEF Ops, LastOps
<1>3. Len(Body(Top.fn)) \in Nat
  BY <1>1, BodyIsOK DEF BodyOK
<1>4. /\ x \in [fn : Functions, at : Nat, byGoto : BOOLEAN]
      /\ x.fn = Top.fn /\ x.at = Top.at + 1
  BY <1>1 DEF Frames
<1>5. x \in Frames
  BY <1>1, <1>2, <1>3, <1>4 DEF Frames
<1>6. stack' = [stack EXCEPT ![Len(stack)] = x]
  BY DEF GoOn
<1> QED BY <1>5, <1>6, StackIs DEF ControlInv

\* The label that is set is that of the statement on top.
LEMMA LabelledOK ==
    ASSUME ControlInv, stack # <<>>, Labelled
    PROVE  stack' \in Seq(Frames)
<1> DEFINE x == [Top EXCEPT !.byGoto = TRUE]
<1>1. Top \in Frames
  BY TopIs
<1>2. /\ x \in [fn : Functions, at : Nat, byGoto : BOOLEAN]
      /\ x.fn = Top.fn /\ x.at = Top.at
  BY <1>1 DEF Frames
<1>3. x \in Frames
  BY <1>1, <1>2 DEF Frames
<1>4. stack' = [stack EXCEPT ![Len(stack)] = x]
  BY DEF Labelled, Top
<1> QED BY <1>3, <1>4, StackIs DEF ControlInv

\* A return leaves the frames below.
LEMMA LeaveOK ==
    ASSUME ControlInv, stack # <<>>, NEW status, Leave(status)
    PROVE  stack' \in Seq(Frames)
BY StackIs DEF Leave, ControlInv

\* A label is NULL or that of a statement.
LEMMA LabelOK ==
    ASSUME ControlInv, stack # <<>>, SetLabel
    PROVE  lc' \in [Functions -> Nat] /\ \A f \in Functions : lc'[f] <= Len(Body(f))
BY TopIs DEF SetLabel, ControlInv

\* Every step keeps labels and frames within the code.
LEMMA ControlStep == ControlInv /\ [ThreadsNext]_allVars => ControlInv'
<1> SUFFICES ASSUME ControlInv, [ThreadsNext]_allVars PROVE ControlInv'
  OBVIOUS
<1> DEFINE LcOK == lc' \in [Functions -> Nat]
                   /\ \A f \in Functions : lc'[f] <= Len(Body(f))
<1>n. ASSUME LcOK, stack' \in Seq(Frames), turn' \in 1 .. Len(Schedule)
      PROVE  ControlInv'
  BY <1>n DEF ControlInv
<1>u. /\ UNCHANGED lc => LcOK
      /\ UNCHANGED stack => stack' \in Seq(Frames)
      /\ UNCHANGED turn => turn' \in 1 .. Len(Schedule)
  BY DEF ControlInv
<1> HIDE DEF LcOK
<1>o. {"work", "yield", "micros", "switch", "sleep", "delay", "spawn"} \subseteq Ops
  BY DEF Ops
<1>1. CASE ScheduleEvent
  <2>1. turn \in 1 .. Len(Schedule) /\ Len(Schedule) \in Nat \ {0}
    BY ScheduleAssumption DEF ControlInv
  <2>2. Schedule[turn] \in Functions
    BY <2>1 DEF Functions, Events
  <2>3. turn' \in 1 .. Len(Schedule)
    BY <1>1, <2>1 DEF ScheduleEvent
  <2> QED BY <1>1, <1>n, <1>u, <2>2, <2>3, CallOK DEF ScheduleEvent
<1>2. CASE Work
  BY <1>2, <1>n, <1>u, <1>o, GoOnOK DEF Work, At
<1>3. CASE PT_YIELD
  <2>1. LcOK
    BY <1>3, LabelOK DEF PT_YIELD, At, LcOK
  <2>2. stack' \in Seq(Frames)
    BY <1>3, <1>o, GoOnOK, LeaveOK DEF PT_YIELD, At
  <2> QED BY <1>3, <1>n, <1>u, <2>1, <2>2 DEF PT_YIELD
<1>4. CASE EventEnd
  BY <1>4, <1>n, <1>u, LabelOK, LeaveOK DEF EventEnd, LcOK
<1>5. CASE SleepStart
  BY <1>5, <1>n, <1>u, LabelOK, LabelledOK DEF SleepStart, At, LcOK
<1>6. CASE SleepOver
  BY <1>6, <1>n, <1>u, <1>o, GoOnOK DEF SleepOver, At
<1>7. CASE SleepOn
  BY <1>7, <1>n, <1>u, LeaveOK DEF SleepOn, At
<1>8. CASE SpawnStart
  <2>1. LcOK
    BY <1>8, TopIs DEF SpawnStart, At, ControlInv, LcOK
  <2> QED BY <1>8, <1>n, <1>u, <2>1, LabelledOK DEF SpawnStart, At
<1>9. CASE SpawnCall
  BY <1>9, <1>n, <1>u, TopIs, CallOK DEF SpawnCall, At
<1>10. CASE SpawnWaits
  BY <1>10, <1>n, <1>u, LeaveOK DEF SpawnWaits, At
<1>11. CASE SpawnDone
  BY <1>11, <1>n, <1>u, <1>o, GoOnOK DEF SpawnDone, At
<1>12. ASSUME NEW op, NEW status, Finish(op, status)
       PROVE  ControlInv'
  <2>1. LcOK
    <3>1. Len(Body(Top.fn)) \in Nat /\ Top.fn \in Functions
      BY <1>12, TopIs, BodyIsOK DEF Finish, At, BodyOK
    <3> QED BY <1>12, <3>1 DEF Finish, ControlInv, LcOK
  <2> QED BY <1>12, <1>n, <1>u, <2>1, LeaveOK DEF Finish, At
<1>13. CASE ClockCall
  BY <1>13, <1>n, <1>u, LabelledOK DEF ClockCall, At
<1>14. CASE ClockReturned
  BY <1>14, <1>n, <1>u, <1>o, GoOnOK DEF ClockReturned, At
<1>15. CASE UNCHANGED threadVars
  BY <1>15, <1>n, <1>u DEF threadVars
<1> QED
  BY <1>1, <1>2, <1>3, <1>4, <1>5, <1>6, <1>7, <1>8, <1>9, <1>10, <1>11, <1>12,
     <1>13, <1>14, <1>15
  DEF ThreadsNext, ThreadStep, allVars

\* No thread has run.
LEMMA ControlInit == ThreadsInit => ControlInv
<1> SUFFICES ASSUME ThreadsInit PROVE ControlInv
  OBVIOUS
<1>1. \A f \in Functions : Len(Body(f)) \in Nat
  BY BodyIsOK DEF BodyOK
<1>2. <<>> \in Seq(Frames)
  OBVIOUS
<1>3. Len(Schedule) \in Nat \ {0}
  BY ScheduleAssumption
<1> QED BY <1>1, <1>2, <1>3 DEF ThreadsInit, ControlInv

-----------------------------------------------------------------------------
\* The clock under the threads is the clock of module Timers.

\* A step of the threads is a step of the clock, or leaves it alone.
LEMMA ClockStep ==
    ControlInv /\ [ThreadsNext]_allVars => [ClockNext]_clockVars
<1> SUFFICES ASSUME ControlInv, [ThreadsNext]_allVars
             PROVE  [ClockNext]_clockVars
  OBVIOUS
<1>1. CASE ClockCall
  BY <1>1, TopIs DEF ClockCall, At, ClockNext, ClockCalls
<1>2. CASE Clock
  BY <1>2 DEF Clock, ClockNext, ClockCalls
<1> QED BY <1>1, <1>2 DEF ThreadsNext, allVars

\* Whatever the sketch is, what it does to the clock is what module Timers says.
THEOREM ThreadsUseTheClock == ThreadsSpec => ClockSpec
<1>1. ThreadsInit => ClockInit
  BY DEF ThreadsInit
<1> QED
  BY <1>1, ControlInit, ControlStep, ClockStep, PTL DEF ThreadsSpec, ClockSpec

\* millis() tells the time under every sketch.
THEOREM ThreadsMillis == ThreadsSpec => []MillisIsTrue
BY ThreadsUseTheClock, MillisTellsTime, PTL

\* micros() tells the time under every sketch.
THEOREM ThreadsMicros == ThreadsSpec => []MicrosIsTrue
BY ThreadsUseTheClock, MicrosTellsTime, PTL

\* delay() takes as long as it was asked to under every sketch.
THEOREM ThreadsDelay == ThreadsSpec => DelayLongEnough
BY ThreadsUseTheClock, DelayIsLongEnough, PTL

-----------------------------------------------------------------------------
\* The milliseconds millis() shows after c overflows were served.
Time(c) == (c * OverflowUs) \div Ms

\* What a function remembers of its last sleep: the time after the overflows
\* served when it fell asleep, and that was at most a period and the handler's
\* delay ago.
SleptAt(f, c) ==
    /\ protothreads_sleep[f] = Time(c) % WordSize
    /\ fellAsleep[f] <= c * TimerSize + TimerSize + OverflowLatency

SleepInv ==
    /\ protothreads_sleep \in [Functions -> Nat] /\ fellAsleep \in [Functions -> Nat]
    /\ \A f \in Functions : \E c \in Nat : c <= Counted /\ SleptAt(f, c)

\* The overflows served make up the time that has passed, but for the period
\* that runs and one that may be pending.
LEMMA CountedIs ==
    ASSUME ClockInv
    PROVE  /\ Counted \in Nat /\ now \in Nat
           /\ Counted * TimerSize \in Nat /\ Counted * TimerSize <= now
           /\ now <= Counted * TimerSize + TimerSize + OverflowLatency
<1>1. /\ now = TimerSize * Overflows + tcnt0 /\ Overflows \in Nat /\ now \in Nat
      /\ tov \in BOOLEAN /\ tcnt0 \in 0 .. TimerSize - 1
      /\ tov => tcnt0 <= OverflowLatency /\ Overflows >= 1
  BY DEF ClockInv, ClockTypeOK, TimerInv
<1>2. Counted = IF tov THEN Overflows - 1 ELSE Overflows
  BY <1>1 DEF Counted, Overflows
<1>3. Counted \in Nat
  BY <1>1, <1>2
<1>4. TimerSize * Overflows = IF tov THEN Counted * TimerSize + TimerSize
                              ELSE Counted * TimerSize
  BY <1>1, <1>2, <1>3, ClockConstants, TimesPlus
<1>5. Counted * TimerSize \in Nat
  BY <1>3, ClockConstants, TimesNat
<1> QED BY <1>1, <1>3, <1>4, <1>5, ClockConstants

\* The count never goes back.
LEMMA CountedGrows ==
    ASSUME ClockInv, [ClockNext]_clockVars
    PROVE  Counted' >= Counted /\ Counted' \in Nat
<1>0. Counted \in Nat /\ ClockTypeOK /\ TimerInv
  BY CountedIs DEF ClockInv
<1>1. CASE Tick
  BY <1>0, <1>1, TickTimer
<1>2. CASE TimerIrq
  BY <1>0, <1>2, IrqTimer
<1>3. CASE ClockCalls \/ UNCHANGED clockVars
  <2>1. now' = now /\ tov' = tov
    BY <1>3
    DEF ClockCalls, ReadTimer, CallMicros, MicrosReturn, MicrosEnd, CallDelay,
        DelayStart, DelayPoll, DelayTest, DelayReturn, SwitchInterrupts, clockVars,
        timerVars
  <2> QED BY <1>0, <2>1 DEF Counted
<1> QED BY <1>1, <1>2, <1>3 DEF ClockNext

\* No thread has slept.
LEMMA SleepInit == ThreadsInit => SleepInv
<1> SUFFICES ASSUME ThreadsInit PROVE SleepInv
  OBVIOUS
<1>1. ClockInv
  BY ClockInitInv DEF ThreadsInit
<1>2. 0 \in Nat /\ 0 <= Counted
  BY <1>1, CountedIs
<1>3. Time(0) % WordSize = 0
  <2>1. 0 * OverflowUs = Ms * 0 + 0 /\ 0 = WordSize * 0 + 0
    BY ClockConstants
  <2> QED BY <2>1, ClockConstants, DivModIs DEF Time
<1>4. \A f \in Functions : SleptAt(f, 0)
  BY <1>3, ClockConstants DEF ThreadsInit, SleptAt
<1> QED BY <1>2, <1>4 DEF ThreadsInit, SleepInv

\* PT_SLEEP takes the time of the overflows served so far; nothing else changes
\* what a function remembers.
LEMMA SleepStep ==
    ClockInv /\ ControlInv /\ SleepInv /\ [ThreadsNext]_allVars => SleepInv'
<1> SUFFICES ASSUME ClockInv, ControlInv, SleepInv, [ThreadsNext]_allVars
             PROVE  SleepInv'
  OBVIOUS
<1>0. Counted \in Nat /\ Counted' \in Nat /\ Counted' >= Counted
  BY CountedIs, CountedGrows, ClockStep
<1>1. CASE UNCHANGED <<protothreads_sleep, fellAsleep>>
  BY <1>0, <1>1 DEF SleepInv, SleptAt
<1>2. CASE SleepStart
  <2>1. /\ Top.fn \in Functions
        /\ protothreads_sleep' = [protothreads_sleep EXCEPT ![Top.fn] = timer0_millis]
        /\ fellAsleep' = [fellAsleep EXCEPT ![Top.fn] = now]
    BY <1>2, TopIs DEF SleepStart, At
  <2>2. timer0_millis = Time(Counted) % WordSize /\ timer0_millis \in Nat
    BY MillisNow DEF MillisIsTrue, Time, ClockInv, ClockTypeOK, Words
  <2>3. now \in Nat /\ now <= Counted * TimerSize + TimerSize + OverflowLatency
    BY CountedIs
  <2>4. \A f \in Functions : \E c \in Nat : c <= Counted /\ SleptAt(f, c)'
    <3> TAKE f \in Functions
    <3>1. CASE f = Top.fn
      <4>1. PICK c \in Nat : c = Counted
        BY <1>0
      <4>2. SleptAt(f, c)'
        BY <2>1, <2>2, <2>3, <3>1, <4>1 DEF SleepInv, SleptAt, Time
      <4> QED BY <4>1, <4>2
    <3>2. CASE f # Top.fn
      BY <2>1, <3>2 DEF SleepInv, SleptAt
    <3> QED BY <3>1, <3>2
  <2>5. \A f \in Functions : \E c \in Nat : c <= Counted' /\ SleptAt(f, c)'
    BY <1>0, <2>4
  <2> QED BY <2>1, <2>2, <2>3, <2>5 DEF SleepInv
<1>3. CASE ThreadStep /\ ~ SleepStart
  BY <1>1, <1>3
  DEF ThreadStep, ScheduleEvent, Work, PT_YIELD, EventEnd, SleepOver, SleepOn,
      SpawnStart, SpawnCall, SpawnWaits, SpawnDone, Finish
<1> QED
  BY <1>1, <1>2, <1>3
  DEF ThreadsNext, ClockCall, ClockReturned, threadVars, allVars

\* The quotient of a larger number is not smaller.
LEMMA DivMonotone ==
    ASSUME NEW a \in Nat, NEW b \in Nat, NEW d \in Nat \ {0}, a <= b
    PROVE  a \div d <= b \div d
<1> DEFINE p == a \div d  q == b \div d  ra == a % d  rb == b % d
<1>1. /\ p \in Nat /\ ra \in 0 .. d - 1 /\ a = d * p + ra
      /\ q \in Nat /\ rb \in 0 .. d - 1 /\ b = d * q + rb
  BY DivMod
<1> HIDE DEF p, q, ra, rb
<1>2. SUFFICES ASSUME q + 1 <= p PROVE FALSE
  BY <1>1 DEF p, q
<1>3. (q + 1) * d <= p * d
  BY <1>1, <1>2, TimesMonotone
<1>4. (q + 1) * d = d * q + d /\ p * d = d * p /\ d * q \in Nat
  BY <1>1, TimesPlus, TimesNat
<1> QED BY <1>1, <1>3, <1>4

\* The remainder of a number is not larger.
LEMMA ModAtMost ==
    ASSUME NEW a \in Nat, NEW b \in Nat \ {0}
    PROVE  a % b <= a
<1>1. /\ a \div b \in Nat /\ a % b \in 0 .. b - 1
      /\ a = b * (a \div b) + (a % b) /\ b * (a \div b) \in Nat
  BY DivMod, TimesNat
<1> QED BY <1>1

\* A thread that wakes up has slept long enough.
LEMMA AwakeIsLate ==
    ASSUME ClockInv, ControlInv, SleepInv, SleepOver
    PROVE  (now - fellAsleep[Top.fn] + TimerSize + OverflowLatency) * TickUs > Stmt.ms * Ms
<1>1. Top.fn \in Functions /\ Stmt.ms \in Nat
  BY TopIs DEF SleepOver, At
<1>2. PICK c \in Nat : c <= Counted /\ SleptAt(Top.fn, c)
  BY <1>1 DEF SleepInv
<1> DEFINE C == Counted
           w0 == Time(c)
           w1 == Time(C)
           fell == fellAsleep[Top.fn]
           n == Stmt.ms
           passed == now - fell + TimerSize + OverflowLatency
<1>3. /\ C \in Nat /\ now \in Nat /\ C * TimerSize \in Nat /\ C * TimerSize <= now
      /\ fell \in Nat /\ fell <= c * TimerSize + TimerSize + OverflowLatency
      /\ c * TimerSize \in Nat /\ c * OverflowUs \in Nat /\ C * OverflowUs \in Nat
  BY <1>1, <1>2, CountedIs, ClockConstants, TimesNat DEF SleepInv, SleptAt
<1>4. /\ w0 \in Nat /\ w1 \in Nat
      /\ c * OverflowUs < Ms * w0 + Ms /\ Ms * w1 <= C * OverflowUs
      /\ Ms * w0 \in Nat /\ Ms * w1 \in Nat
  <2>1. /\ w0 \in Nat /\ (c * OverflowUs) % Ms \in 0 .. Ms - 1
        /\ c * OverflowUs = Ms * w0 + ((c * OverflowUs) % Ms)
    BY <1>3, ClockConstants, DivMod, ZenonT(40) DEF Time
  <2>2. /\ w1 \in Nat /\ (C * OverflowUs) % Ms \in 0 .. Ms - 1
        /\ C * OverflowUs = Ms * w1 + ((C * OverflowUs) % Ms)
    BY <1>3, ClockConstants, DivMod, ZenonT(40) DEF Time
  <2>3. Ms * w0 \in Nat /\ Ms * w1 \in Nat
    BY <2>1, <2>2, ClockConstants, TimesNat
  <2> HIDE DEF w0, w1, C
  <2> QED BY <1>3, <2>1, <2>2, <2>3, ClockConstants
<1>5. w0 <= w1
  <2>1. c * OverflowUs <= C * OverflowUs
    BY <1>2, <1>3, ClockConstants, TimesMonotone
  <2> QED BY <1>3, <2>1, ClockConstants, DivMonotone DEF Time
<1>6. n + 1 <= w1 - w0
  <2>1. timer0_millis = w1 % WordSize
    BY MillisNow DEF MillisIsTrue, Time
  <2>2. protothreads_sleep[Top.fn] = w0 % WordSize
    BY <1>2 DEF SleptAt
  <2>3. ((w1 % WordSize) + WordSize - (w0 % WordSize)) % WordSize > n
    BY <2>1, <2>2 DEF SleepOver, Awake
  <2>w. w0 \in Nat /\ w1 \in Nat /\ w0 <= w1 /\ WordSize \in Nat \ {0}
    BY <1>4, <1>5, ClockConstants
  <2> HIDE DEF w0, w1, n
  <2>4. ((w1 % WordSize) + WordSize - (w0 % WordSize)) % WordSize = (w1 - w0) % WordSize
    BY <2>w, ModDifference
  <2>5. w1 - w0 \in Nat /\ (w1 - w0) % WordSize <= w1 - w0 /\ (w1 - w0) % WordSize \in Nat
    <3>1. PICK d \in Nat : d = w1 - w0
      BY <2>w
    <3>2. d % WordSize <= d /\ d % WordSize \in 0 .. WordSize - 1
      BY <2>w, ModAtMost, DivMod
    <3> QED BY <2>w, <3>1, <3>2
  <2> QED BY <1>1, <2>w, <2>3, <2>4, <2>5 DEF n
<1>7. C * OverflowUs - c * OverflowUs > n * Ms
  <2>1. n \in Nat /\ n * Ms \in Nat
    BY <1>1, ClockConstants, TimesNat
  <2> HIDE DEF C, w0, w1, n
  <2>2. (n + 1) * Ms <= (w1 - w0) * Ms
    BY <1>4, <1>5, <1>6, <2>1, ClockConstants, TimesMonotone
  <2>3. (n + 1) * Ms = n * Ms + Ms /\ (w1 - w0) * Ms = Ms * w1 - Ms * w0
    BY <1>4, <2>1, ClockConstants, TimesPlus
  <2> QED BY <1>3, <1>4, <2>1, <2>2, <2>3, ClockConstants
<1>8. C * OverflowUs - c * OverflowUs = (C * TimerSize - c * TimerSize) * TickUs
  <2> HIDE DEF C
  <2>1. /\ (C * TimerSize - c * TimerSize) * TickUs
             = (C * TimerSize) * TickUs - (c * TimerSize) * TickUs
        /\ (C * TimerSize) * TickUs = C * OverflowUs
        /\ (c * TimerSize) * TickUs = c * OverflowUs
    BY <1>3, ClockConstants, TimesPlus DEF OverflowUs
  <2> QED BY <2>1
<1>9. (C * TimerSize - c * TimerSize) * TickUs <= passed * TickUs
  <2> HIDE DEF C, fell
  <2>1. c * TimerSize <= C * TimerSize
    BY <1>2, <1>3, ClockConstants, TimesMonotone DEF C
  <2>2. /\ C * TimerSize - c * TimerSize \in Nat /\ passed \in Nat
        /\ C * TimerSize - c * TimerSize <= passed
    BY <1>3, <2>1, ClockConstants
  <2> HIDE DEF passed
  <2> QED BY <2>2, ClockConstants, TimesMonotone
<1>10. /\ n * Ms \in Nat /\ passed * TickUs \in Int
       /\ (C * TimerSize - c * TimerSize) * TickUs \in Int
  <2> HIDE DEF C, fell, n
  <2> QED BY <1>1, <1>3, ClockConstants, TimesPlus, TimesNat DEF n
<1> HIDE DEF C, n, passed
<1>11. passed * TickUs > n * Ms
  BY <1>3, <1>7, <1>8, <1>9, <1>10
<1> QED BY <1>11 DEF n, passed

\* A sleep is at most one period of timer 0, and the time its handler may be
\* late, shorter than was asked, however often millis() has wrapped and whatever
\* the other events do.
THEOREM ThreadsSleep == ThreadsSpec => SleepsLongEnough
<1>1. ClockInv /\ ControlInv /\ SleepInv /\ [ThreadsNext]_allVars
        => [SleepOver => (now - fellAsleep[Top.fn] + TimerSize + OverflowLatency) * TickUs
                            > Stmt.ms * Ms]_allVars
  BY AwakeIsLate
<1>2. ClockInv /\ ControlInv /\ SleepInv /\ [ThreadsNext]_allVars => SleepInv'
  BY SleepStep
<1> QED
  BY <1>1, <1>2, ThreadsUseTheClock, ClockInvariant, ControlInit, ControlStep,
     SleepInit, PTL
  DEF ThreadsSpec, SleepsLongEnough

-----------------------------------------------------------------------------
\* The refinement of SequentialThreads.  CallsFrom is a recursive function: what
\* it computes is a chain of nodes, one for an event and one for each block that
\* is being waited for.  A node has what its function contributes to the call
\* stack, whether the chain goes on, and where.

Programs == Events \cup Blocks
CallFrames == [fn : Programs, at : Nat]
Nodes == [own : Seq(CallFrames), goes : BOOLEAN, next : Programs]

\* c[f] is the call stack that starts at node f.
Chains(n, c) ==
    /\ c \in [Programs -> Seq(CallFrames)]
    /\ \A f \in Programs :
          c[f] = IF n[f].goes THEN n[f].own \o c[n[f].next] ELSE n[f].own

\* The chains go down: no block waits for itself.
Deeper(n, d, top) ==
    /\ d \in [Programs -> 0 .. top]
    /\ \A f \in Programs : n[f].goes => d[f] < d[n[f].next]

\* Chains that go down end, so there is a call stack at every node.
LEMMA ChainsExist ==
    ASSUME NEW n \in [Programs -> Nodes], NEW top \in Nat, NEW d, Deeper(n, d, top)
    PROVE  \E c : Chains(n, c)
<1> DEFINE Up(k) == {f \in Programs : d[f] + k > top}
           Partly(c, k) ==
               /\ c \in [Programs -> Seq(CallFrames)]
               /\ \A f \in Up(k) :
                     c[f] = IF n[f].goes THEN n[f].own \o c[n[f].next] ELSE n[f].own
           T == {k \in Nat : ~ \E c : Partly(c, k)}
<1>d. \A f \in Programs : d[f] \in Nat /\ d[f] <= top
  BY DEF Deeper
<1>n. \A f \in Programs : /\ n[f].own \in Seq(CallFrames) /\ n[f].goes \in BOOLEAN
                          /\ n[f].next \in Programs
  BY DEF Nodes
<1>1. 0 \notin T
  <2> DEFINE c == [f \in Programs |-> <<>>]
  <2>1. c \in [Programs -> Seq(CallFrames)]
    OBVIOUS
  <2>2. Up(0) = {}
    BY <1>d
  <2> HIDE DEF c
  <2>3. Partly(c, 0)
    BY <2>1, <2>2
  <2> QED BY <2>3
<1>2. ASSUME NEW k \in Nat, k \notin T
      PROVE  k + 1 \notin T
  <2>1. PICK c : Partly(c, k)
    BY <1>2
  <2> DEFINE g(f) == IF n[f].goes THEN n[f].own \o c[n[f].next] ELSE n[f].own
             e == [f \in Programs |-> g(f)]
  <2>2. \A f \in Programs : g(f) \in Seq(CallFrames)
    BY <1>n, <2>1
  <2>3. e \in [Programs -> Seq(CallFrames)]
    BY <2>2
  <2>4. \A f \in Programs : f \in Up(k) => e[f] = c[f]
    BY <2>1
  <2>5. ASSUME NEW f \in Up(k + 1), n[f].goes
        PROVE  n[f].next \in Up(k)
    BY <1>d, <1>n, <2>5 DEF Deeper
  <2>6. \A f \in Up(k + 1) :
           e[f] = IF n[f].goes THEN n[f].own \o e[n[f].next] ELSE n[f].own
    <3> SUFFICES ASSUME NEW f \in Up(k + 1)
                 PROVE  e[f] = IF n[f].goes THEN n[f].own \o e[n[f].next] ELSE n[f].own
      OBVIOUS
    <3>1. f \in Programs /\ e[f] = g(f)
      OBVIOUS
    <3>2. n[f].goes => e[n[f].next] = c[n[f].next]
      BY <2>4, <2>5, <3>1, <1>n
    <3> HIDE DEF e, Up, Partly
    <3> QED BY <3>1, <3>2
  <2>7. Partly(e, k + 1)
    BY <2>3, <2>6
  <2> HIDE DEF e, Partly
  <2> QED BY <2>7
<1>3. T = {}
  <2> SUFFICES ASSUME T # {} PROVE FALSE
    OBVIOUS
  <2>1. PICK k \in T : \A j \in T : k <= j
    <3>1. T \subseteq Nat
      OBVIOUS
    <3> HIDE DEF T
    <3> QED BY <3>1, LeastNat
  <2>2. k \in Nat /\ k # 0
    BY <1>1
  <2>3. k - 1 \in Nat /\ (k - 1) + 1 = k /\ ~ (k <= k - 1)
    BY <2>2
  <2>4. k - 1 \notin T
    BY <2>1, <2>3
  <2> HIDE DEF T
  <2> QED BY <1>2, <2>1, <2>3, <2>4
<1>4. top + 1 \notin T
  BY <1>3
<1>5. PICK c : Partly(c, top + 1)
  <2> HIDE DEF Partly
  <2> QED BY <1>4
<1>6. Up(top + 1) = Programs
  BY <1>d
<1>7. Chains(n, c)
  BY <1>5, <1>6 DEF Chains
<1> QED BY <1>7

\* If one node changes, the call stacks that change end with its own, and all of
\* them begin in a set that is closed under going on.
Changes(n, u, c, e, f, Inner) ==
    /\ n \in [Programs -> Nodes] /\ u \in [Programs -> Nodes]
    /\ \E top \in Nat : \E d : Deeper(n, d, top)
    /\ Chains(n, c) /\ Chains(u, e)
    /\ f \in Programs /\ \A g \in Programs : g # f => u[g] = n[g]
    /\ f \in Inner /\ \A g \in Programs : n[g].goes /\ n[g].next \in Inner => g \in Inner

\* The call stack at a node stays, or leads to the node that changed.
LEMMA OneNodeChanges ==
    ASSUME NEW n, NEW u, NEW c, NEW e, NEW f, NEW Inner, Changes(n, u, c, e, f, Inner)
    PROVE  \A g \in Programs :
              \/ e[g] = c[g]
              \/ /\ g \in Inner
                 /\ \E p \in Seq(CallFrames) : c[g] = p \o c[f] /\ e[g] = p \o e[f]
<1>p. PICK top \in Nat : \E d : Deeper(n, d, top)
  BY DEF Changes
<1>q. PICK d : Deeper(n, d, top)
  BY <1>p
<1>h. /\ n \in [Programs -> Nodes] /\ u \in [Programs -> Nodes]
      /\ Chains(n, c) /\ Chains(u, e)
      /\ f \in Programs /\ \A g \in Programs : g # f => u[g] = n[g]
      /\ f \in Inner /\ \A g \in Programs : n[g].goes /\ n[g].next \in Inner => g \in Inner
  BY DEF Changes
<1> DEFINE Ends(g) ==
              \/ e[g] = c[g]
              \/ /\ g \in Inner
                 /\ \E p \in Seq(CallFrames) : c[g] = p \o c[f] /\ e[g] = p \o e[f]
           T == {k \in Nat : \E g \in Programs : ~ Ends(g) /\ d[g] + k = top}
<1>d. \A g \in Programs : d[g] \in Nat /\ d[g] <= top
  BY <1>q DEF Deeper
<1>n. \A g \in Programs : /\ n[g].own \in Seq(CallFrames) /\ n[g].goes \in BOOLEAN
                          /\ n[g].next \in Programs
                          /\ c[g] \in Seq(CallFrames) /\ e[g] \in Seq(CallFrames)
  BY <1>h DEF Nodes, Chains
<1>1. ASSUME NEW g \in Programs,
             n[g].goes => Ends(n[g].next)
      PROVE  Ends(g)
  <2>1. CASE g = f
    <3>1. <<>> \in Seq(CallFrames) /\ c[g] = <<>> \o c[f] /\ e[g] = <<>> \o e[f]
      BY <1>n, <2>1
    <3> QED BY <1>h, <2>1, <3>1
  <2>2. CASE g # f /\ ~ n[g].goes
    BY <1>h, <2>2 DEF Chains
  <2>3. CASE g # f /\ n[g].goes
    <3> DEFINE b == n[g].next
    <3>1. b \in Programs /\ u[g] = n[g]
      BY <1>h, <1>n, <2>3
    <3>2. c[g] = n[g].own \o c[b] /\ e[g] = n[g].own \o e[b]
      BY <1>h, <2>3, <3>1 DEF Chains
    <3>3. CASE e[b] = c[b]
      BY <3>2, <3>3
    <3>4. CASE b \in Inner
               /\ \E p \in Seq(CallFrames) : c[b] = p \o c[f] /\ e[b] = p \o e[f]
      <4>1. PICK p \in Seq(CallFrames) : c[b] = p \o c[f] /\ e[b] = p \o e[f]
        BY <3>4
      <4> DEFINE q == n[g].own \o p
      <4>2. q \in Seq(CallFrames)
        BY <1>n
      <4>3. c[g] = q \o c[f] /\ e[g] = q \o e[f]
        <5> HIDE DEF b
        <5>1. \A s \in Seq(CallFrames) : n[g].own \o (p \o s) = (n[g].own \o p) \o s
          <6>1. IsAssociative(CallFrames)
            BY Associates
          <6>2. n[g].own \in Seq(CallFrames) /\ p \in Seq(CallFrames)
            BY <1>n, <4>1
          <6> QED BY <6>1, <6>2 DEF IsAssociative
        <5> QED BY <1>h, <1>n, <3>2, <4>1, <5>1
      <4>4. g \in Inner
        BY <1>h, <2>3, <3>4
      <4> QED BY <4>2, <4>3, <4>4
    <3> QED BY <1>1, <2>3, <3>3, <3>4
  <2> QED BY <2>1, <2>2, <2>3
<1>2. T = {}
  <2> SUFFICES ASSUME T # {} PROVE FALSE
    OBVIOUS
  <2>1. PICK k \in T : \A j \in T : k <= j
    <3>1. T \subseteq Nat
      OBVIOUS
    <3> HIDE DEF T
    <3> QED BY <3>1, LeastNat
  <2>2. PICK g \in Programs : ~ Ends(g) /\ d[g] + k = top
    OBVIOUS
  <2> HIDE DEF Ends
  <2>3. n[g].goes /\ ~ Ends(n[g].next)
    BY <1>1, <2>2
  <2> DEFINE b == n[g].next
             j == top - d[b]
  <2>4. b \in Programs /\ d[g] < d[b] /\ d[b] \in Nat /\ d[b] <= top /\ d[g] \in Nat
    BY <1>d, <1>n, <1>q, <2>3 DEF Deeper
  <2>5. j \in Nat /\ d[b] + j = top /\ ~ (k <= j)
    BY <2>2, <2>4
  <2>6. j \in T
    BY <2>3, <2>4, <2>5
  <2> QED BY <2>1, <2>5, <2>6
<1>3. ASSUME NEW g \in Programs PROVE Ends(g)
  <2>1. top - d[g] \in Nat /\ d[g] + (top - d[g]) = top
    BY <1>d
  <2> HIDE DEF Ends
  <2>2. top - d[g] \notin T
    BY <1>2
  <2> QED BY <2>1, <2>2
<1> QED BY <1>3

\* A function that adds the nodes up is made of call stacks.
LEMMA ChainsAreCalls ==
    ASSUME NEW n \in [Programs -> Nodes], NEW top \in Nat, NEW d, Deeper(n, d, top),
           NEW c, c = [f \in Programs |-> c[f]],
           \A f \in Programs :
              c[f] = IF n[f].goes THEN n[f].own \o c[n[f].next] ELSE n[f].own
    PROVE  Chains(n, c)
<1> DEFINE T == {k \in Nat : \E f \in Programs : c[f] \notin Seq(CallFrames) /\ d[f] + k = top}
<1>d. \A f \in Programs : d[f] \in Nat /\ d[f] <= top
  BY DEF Deeper
<1>n. \A f \in Programs : /\ n[f].own \in Seq(CallFrames) /\ n[f].goes \in BOOLEAN
                          /\ n[f].next \in Programs
  BY DEF Nodes
<1>1. T = {}
  <2> SUFFICES ASSUME T # {} PROVE FALSE
    OBVIOUS
  <2>1. PICK k \in T : \A j \in T : k <= j
    <3>1. T \subseteq Nat
      OBVIOUS
    <3> HIDE DEF T
    <3> QED BY <3>1, LeastNat
  <2>2. PICK f \in Programs : c[f] \notin Seq(CallFrames) /\ d[f] + k = top
    OBVIOUS
  <2> DEFINE b == n[f].next
             j == top - d[b]
  <2>3. n[f].goes /\ c[b] \notin Seq(CallFrames)
    <3>1. n[f].goes /\ c[f] = n[f].own \o c[b]
      BY <1>n, <2>2
    <3>2. c[b] \in Seq(CallFrames) => n[f].own \o c[b] \in Seq(CallFrames)
      BY <1>n
    <3> QED BY <2>2, <3>1, <3>2
  <2>4. b \in Programs /\ d[f] < d[b] /\ d[b] \in Nat /\ d[b] <= top /\ d[f] \in Nat
    BY <1>d, <1>n, <2>3 DEF Deeper
  <2>5. j \in Nat /\ d[b] + j = top /\ ~ (k <= j)
    BY <2>2, <2>4
  <2>6. j \in T
    BY <2>3, <2>4, <2>5
  <2> QED BY <2>1, <2>5, <2>6
<1>2. ASSUME NEW f \in Programs PROVE c[f] \in Seq(CallFrames)
  <2>1. top - d[f] \in Nat /\ d[f] + (top - d[f]) = top
    BY <1>d
  <2>2. top - d[f] \notin T
    BY <1>1
  <2> QED BY <2>1, <2>2
<1>3. c \in [Programs -> Seq(CallFrames)]
  BY <1>2
<1> QED BY <1>3 DEF Chains

-----------------------------------------------------------------------------
\* The nodes of a sketch.

Spawns(f) == {b \in Blocks : \E i \in 1 .. Len(Code[f]) :
                                Code[f][i].op = "spawn" /\ Code[f][i].of = b}

\* Every block is spawned by one event or block, however often.
OneCaller ==
    \A f, g \in Programs : f # g => Spawns(f) \cap Spawns(g) = {}

\* Blocks spawn blocks to a bounded depth, and none spawns itself.
NoRecursion ==
    \E top \in Nat : \E d \in [Programs -> 0 .. top] :
       \A f \in Programs : \A b \in Spawns(f) : d[f] < d[b]

Spawned(f) == Body(f)[FrameNow(f).at].of
Returned(f) == stack # <<>> /\ Top.fn = f /\ ret = "ended"
Here(f) == [fn |-> f, at |-> Position(f)]
Goes(f) == Inside(f) /\ ~ Returned(f) /\ ~ BlockOver(Spawned(f))
Own(f) ==
    IF ~ Inside(f) THEN <<Here(f)>>
    ELSE IF Returned(f) THEN <<[fn |-> f, at |-> Position(f) + 1]>>
    ELSE IF BlockOver(Spawned(f))
         THEN <<Here(f), [fn |-> Spawned(f), at |-> Len(Code[Spawned(f)]) + 1]>>
    ELSE <<Here(f)>>
Node(f) == [own |-> Own(f), goes |-> Goes(f), next |-> IF Goes(f) THEN Spawned(f) ELSE f]
AllNodes == [f \in Programs |-> Node(f)]

\* Where the code of a sketch is in the body of its function.
LEMMA EventBody ==
    ASSUME NEW f \in Events
    PROVE  /\ Len(Code[f]) \in Nat /\ Len(Body(f)) = Len(Code[f]) + 1
           /\ \A i \in 1 .. Len(Code[f]) : Body(f)[i] = Code[f][i]
           /\ Body(f)[Len(Code[f]) + 1].op = "forever"
<1>1. Code[f] \in Seq(Statements)
  BY CodeAssumption
<1> DEFINE e == [op |-> "forever"]
<1>2. e.op = "forever"
  OBVIOUS
<1>3. Body(f) = Append(Code[f], e)
  BY DEF Body
<1> HIDE DEF e
<1> QED BY <1>1, <1>2, <1>3

\* A block yields, runs its code and exits.
LEMMA BlockBody ==
    ASSUME NEW f \in Blocks
    PROVE  /\ Len(Code[f]) \in Nat /\ Len(Body(f)) = Len(Code[f]) + 2
           /\ Body(f)[1].op = "yield"
           /\ \A i \in 1 .. Len(Code[f]) : Body(f)[i + 1] = Code[f][i]
           /\ Body(f)[Len(Code[f]) + 2].op = "exit"
<1>1. Code[f] \in Seq(Statements) /\ f \notin Events
  BY CodeAssumption, FunctionsDiffer
<1> DEFINE y == [op |-> "yield"]
           e == [op |-> "exit"]
           S == Statements \cup {y, e}
<1>2. y.op = "yield" /\ e.op = "exit"
  OBVIOUS
<1>3. Body(f) = <<y>> \o Append(Code[f], e)
  BY <1>1 DEF Body
<1>4. y \in S /\ e \in S /\ Code[f] \in Seq(S)
  BY <1>1
<1> HIDE DEF y, e, S
<1> DEFINE c == Append(Code[f], e)
<1>5. /\ c \in Seq(S) /\ Len(c) = Len(Code[f]) + 1 /\ Len(Code[f]) \in Nat
      /\ \A i \in 1 .. Len(Code[f]) : c[i] = Code[f][i]
      /\ c[Len(Code[f]) + 1] = e
  BY <1>4
<1> HIDE DEF c
<1>6. /\ Len(<<y>> \o c) = Len(c) + 1 /\ (<<y>> \o c)[1] = y
      /\ \A i \in 1 .. Len(c) : (<<y>> \o c)[i + 1] = c[i]
  BY <1>4, <1>5, SMTT(30)
<1>7. Body(f) = <<y>> \o c
  BY <1>3 DEF c
<1>8. Body(f)[Len(Code[f]) + 2] = e
  <2>1. Len(Code[f]) + 1 \in 1 .. Len(c) /\ (Len(Code[f]) + 1) + 1 = Len(Code[f]) + 2
    BY <1>5
  <2> QED BY <1>5, <1>6, <1>7, <2>1
<1> QED BY <1>2, <1>5, <1>6, <1>7, <1>8

\* The function of a block spawns the block and ends.
LEMMA RecBody ==
    ASSUME NEW b \in Blocks
    PROVE  /\ Len(Body(Rec(b))) = 2
           /\ Body(Rec(b))[1].op = "spawn" /\ Body(Rec(b))[1].of = b
           /\ Body(Rec(b))[2].op = "end"
BY FunctionsDiffer DEF Body

\* What a function spawns, its code spawns.
LEMMA SpawnInCode ==
    ASSUME NEW f \in Programs, NEW i \in 1 .. Len(Body(f)), Body(f)[i].op = "spawn"
    PROVE  Body(f)[i].of \in Spawns(f) /\ Body(f)[i].of \in Blocks
<1>1. Body(f)[i].of \in Blocks
  <2>1. f \in Functions /\ BodyOK(f, Body(f))
    BY BodyIsOK DEF Programs, Functions
  <2> QED BY <2>1 DEF BodyOK, Programs
<1>2. \E j \in 1 .. Len(Code[f]) : Body(f)[i] = Code[f][j]
  <2>1. CASE f \in Events
    <3>1. i # Len(Code[f]) + 1
      BY <2>1, EventBody
    <3> QED BY <2>1, <3>1, EventBody
  <2>2. CASE f \in Blocks
    <3>1. i # Len(Code[f]) + 2 /\ i # 1
      BY <2>2, BlockBody
    <3>2. i - 1 \in 1 .. Len(Code[f]) /\ (i - 1) + 1 = i
      BY <2>2, <3>1, BlockBody
    <3> QED BY <2>2, <3>2, BlockBody
  <2> QED BY <2>1, <2>2 DEF Programs
<1> QED BY <1>1, <1>2 DEF Spawns

\* The frame a function has, or would have if it were called.
LEMMA FrameNowIs ==
    ASSUME ControlInv, NEW f \in Functions
    PROVE  /\ Frame(f) \in Frames /\ Frame(f).fn = f
           /\ FrameNow(f) \in Frames /\ FrameNow(f).fn = f
           /\ FrameNow(f).at \in 1 .. Len(Body(f))
           /\ OnStack(f) = {} => FrameNow(f) = Frame(f)
<1>1. /\ lc[f] \in Nat /\ lc[f] <= Len(Body(f)) /\ Len(Body(f)) \in Nat \ {0}
  BY BodyIsOK DEF ControlInv, BodyOK
<1>2. Frame(f) \in Frames /\ Frame(f).fn = f
  BY <1>1 DEF Frame, Frames
<1>3. CASE OnStack(f) = {}
  <2>1. FrameNow(f) = Frame(f)
    BY <1>3 DEF FrameNow
  <2> QED BY <1>2, <2>1 DEF Frames
<1>4. CASE OnStack(f) # {}
  <2>1. PICK i \in OnStack(f) : FrameNow(f) = stack[i]
    BY <1>4 DEF FrameNow
  <2>2. i \in 1 .. Len(stack) /\ stack[i].fn = f
    BY <2>1 DEF OnStack
  <2>3. stack[i] \in Frames
    BY <2>2 DEF ControlInv
  <2> QED BY <1>2, <1>4, <2>1, <2>2, <2>3 DEF Frames
<1> QED BY <1>3, <1>4

\* The nodes of every state.
LEMMA NodesAre ==
    ASSUME ControlInv
    PROVE  AllNodes \in [Programs -> Nodes]
<1> SUFFICES ASSUME NEW f \in Programs PROVE Node(f) \in Nodes
  BY DEF AllNodes
<1> DEFINE b == Spawned(f)
<1>1. f \in Functions
  BY DEF Programs, Functions
<1>2. FrameNow(f).at \in 1 .. Len(Body(f)) /\ FrameNow(f).at \in Nat
  BY <1>1, FrameNowIs DEF Frames
<1>3. Position(f) \in Nat
  BY <1>2 DEF Position
<1>4. Inside(f) => b \in Programs /\ Len(Code[b]) \in Nat
  <2>1. Inside(f) => b \in Blocks
    BY <1>2, SpawnInCode DEF Inside, Spawned
  <2> QED BY <2>1, BlockBody DEF Programs
<1>5. Own(f) \in Seq(CallFrames)
  <2>1. Here(f) \in CallFrames /\ [fn |-> f, at |-> Position(f) + 1] \in CallFrames
    BY <1>3 DEF Here, CallFrames
  <2>2. Inside(f) => [fn |-> b, at |-> Len(Code[b]) + 1] \in CallFrames
    BY <1>4 DEF CallFrames
  <2> QED BY <2>1, <2>2 DEF Own
<1>6. Goes(f) \in BOOLEAN /\ (Goes(f) => Inside(f))
  BY DEF Goes
<1> QED BY <1>4, <1>5, <1>6 DEF Node, Nodes

\* The nodes go down the code.
LEMMA NodesGoDown ==
    ASSUME ControlInv, NEW top \in Nat, NEW d \in [Programs -> 0 .. top],
           \A f \in Programs : \A b \in Spawns(f) : d[f] < d[b]
    PROVE  Deeper(AllNodes, d, top)
<1> SUFFICES ASSUME NEW f \in Programs, AllNodes[f].goes
             PROVE  d[f] < d[AllNodes[f].next]
  BY DEF Deeper
<1>1. AllNodes[f] = Node(f)
  BY DEF AllNodes
<1>2. Goes(f) /\ AllNodes[f].next = Spawned(f)
  BY <1>1 DEF Node
<1>3. FrameNow(f).at \in 1 .. Len(Body(f))
  BY FrameNowIs DEF Programs, Functions
<1>4. Spawned(f) \in Spawns(f)
  BY <1>2, <1>3, SpawnInCode DEF Goes, Inside, Spawned
<1> QED BY <1>2, <1>4

\* CallsFrom is what the nodes make.
LEMMA CallsAreChains ==
    ASSUME NoRecursion
    PROVE  ControlInv => Chains(AllNodes, CallsFrom)
<1> SUFFICES ASSUME ControlInv PROVE Chains(AllNodes, CallsFrom)
  OBVIOUS
<1>1. PICK top \in Nat : \E d \in [Programs -> 0 .. top] :
                            \A f \in Programs : \A b \in Spawns(f) : d[f] < d[b]
  BY DEF NoRecursion
<1>2. PICK d \in [Programs -> 0 .. top] :
              \A f \in Programs : \A b \in Spawns(f) : d[f] < d[b]
  BY <1>1
<1>3. AllNodes \in [Programs -> Nodes] /\ Deeper(AllNodes, d, top)
  BY <1>1, <1>2, NodesAre, NodesGoDown
<1> DEFINE Rest1(h, f) ==
               LET here == [fn |-> f, at |-> Position(f)]
                   b == Body(f)[FrameNow(f).at].of
               IN  IF ~ Inside(f) THEN <<here>>
                   ELSE IF stack # <<>> /\ Top.fn = f /\ ret = "ended"
                        THEN <<[here EXCEPT !.at = @ + 1]>>
                   ELSE IF BlockOver(b)
                        THEN <<here, [fn |-> b, at |-> Len(Code[b]) + 1]>>
                   ELSE <<here>> \o h[b]
           Solves(h) == h = [f \in Events \cup Blocks |-> Rest1(h, f)]
<1>4. ASSUME NEW h, NEW f \in Programs
      PROVE  Rest1(h, f) = IF AllNodes[f].goes THEN AllNodes[f].own \o h[AllNodes[f].next]
                           ELSE AllNodes[f].own
  <2>1. AllNodes[f] = Node(f)
    BY DEF AllNodes
  <2>2. [[fn |-> f, at |-> Position(f)] EXCEPT !.at = @ + 1]
          = [fn |-> f, at |-> Position(f) + 1]
    OBVIOUS
  <2>3. /\ AllNodes[f].own = Own(f) /\ AllNodes[f].goes = Goes(f)
        /\ Goes(f) => AllNodes[f].next = Spawned(f)
    BY <2>1 DEF Node
  <2>4. CASE Goes(f)
    <3>1. Own(f) = <<Here(f)>>
      BY <2>4 DEF Goes, Own
    <3>2. Rest1(h, f) = <<Here(f)>> \o h[Spawned(f)]
      BY <2>4 DEF Goes, Here, Spawned, Returned
    <3> QED BY <2>3, <2>4, <3>1, <3>2
  <2>5. CASE ~ Goes(f)
    <3>1. Rest1(h, f) = Own(f)
      BY <2>2, <2>5 DEF Goes, Own, Here, Spawned, Returned
    <3> QED BY <2>3, <2>5, <3>1
  <2> QED BY <2>4, <2>5
<1>5. \E h : Solves(h)
  <2>1. PICK c : Chains(AllNodes, c)
    BY <1>1, <1>3, ChainsExist
  <2>2. c = [f \in Programs |-> c[f]] /\ \A f \in Programs : c[f] = Rest1(c, f)
    BY <1>4, <2>1 DEF Chains
  <2> HIDE DEF Rest1
  <2> QED BY <2>2 DEF Programs
<1>6. Solves(CallsFrom)
  <2>1. CallsFrom = CHOOSE h : Solves(h)
    BY DEF CallsFrom
  <2> HIDE DEF Solves
  <2> QED BY <1>5, <2>1
<1>7. CallsFrom = [f \in Programs |-> CallsFrom[f]]
  <2> HIDE DEF Rest1
  <2> QED BY <1>6 DEF Programs
<1>8. \A f \in Programs : CallsFrom[f] = Rest1(CallsFrom, f)
  <2> HIDE DEF Rest1
  <2> QED BY <1>6 DEF Programs
<1> HIDE DEF Rest1
<1>9. \A f \in Programs :
         CallsFrom[f] = IF AllNodes[f].goes THEN AllNodes[f].own \o CallsFrom[AllNodes[f].next]
                        ELSE AllNodes[f].own
  BY <1>4, <1>8
<1> QED BY <1>1, <1>3, <1>7, <1>9, ChainsAreCalls

-----------------------------------------------------------------------------
\* How calls are nested: below a frame are those of its callers, each at the spawn
\* it waits in; a label tells where its function goes on, and that of a block is
\* set only while the block's caller waits for it.

Waits(fr) == Body(fr.fn)[fr.at].op = "spawn" /\ fr.byGoto
ChildOf(fr) ==
    IF fr.fn \in Programs THEN Rec(Body(fr.fn)[fr.at].of) ELSE Body(fr.fn)[fr.at].of

StackInv ==
    /\ stack # <<>> => stack[1].fn \in Events
    /\ \A i \in 1 .. Len(stack) - 1 : Waits(stack[i]) /\ stack[i + 1].fn = ChildOf(stack[i])
    /\ \A i, j \in 1 .. Len(stack) : stack[i].fn = stack[j].fn => i = j

\* A call that returned did so to a frame that waits, and a block that ended has no
\* label.
RetInv ==
    stack # <<>> =>
       /\ ~ Waits(Top) => ret = "none"
       /\ ret \in {"none", "waiting", "yielded"}
                     \cup IF Top.fn \in Programs THEN {"ended"} ELSE {"exited"}
       /\ ret \in {"ended", "exited"} => lc[Stmt.of] = 0

LabelInv ==
    \A i \in 1 .. Len(stack) :
       stack[i].byGoto /\ Body(stack[i].fn)[stack[i].at].op \in {"spawn", "sleep"} =>
          lc[stack[i].fn] = stack[i].at

\* The block was spawned and its caller waits for it.
Started(b) ==
    /\ Waits(FrameNow(Rec(b)))
    /\ \E f \in Programs : Waits(FrameNow(f)) /\ ChildOf(FrameNow(f)) = Rec(b)
BlockInv == \A b \in Blocks : lc[b] # 0 => Started(b)

NestInv == StackInv /\ RetInv /\ LabelInv /\ BlockInv

\* A sequence without its last element.
LEMMA WithoutLast ==
    ASSUME NEW S, NEW s \in Seq(S), s # <<>>
    PROVE  /\ SubSeq(s, 1, Len(s) - 1) \in Seq(S)
           /\ Len(SubSeq(s, 1, Len(s) - 1)) = Len(s) - 1
           /\ \A i \in 1 .. Len(s) - 1 : SubSeq(s, 1, Len(s) - 1)[i] = s[i]
<1> DEFINE n == Len(s) - 1
<1>1. Len(s) \in Nat \ {0} /\ \A i \in 1 .. Len(s) : s[i] \in S
  OBVIOUS
<1>2. n \in Nat /\ Len(s) = n + 1
  BY <1>1
<1> HIDE DEF n
<1>3. \A i \in 1 .. n : s[i] \in S
  BY <1>1, <1>2
<1>4. /\ SubSeq(s, 1, n) \in Seq(S)
      /\ Len(SubSeq(s, 1, n)) = IF 1 <= n THEN n - 1 + 1 ELSE 0
      /\ \A i \in 1 .. n - 1 + 1 : SubSeq(s, 1, n)[i] = s[1 + i - 1]
  BY <1>2, <1>3, SubSeqProperties
<1>5. /\ Len(SubSeq(s, 1, n)) = n /\ \A i \in 1 .. n : SubSeq(s, 1, n)[i] = s[i]
  BY <1>2, <1>4
<1> QED BY <1>2, <1>4, <1>5 DEF n

\* A call puts a frame on the stack where the function would be anyway.
LEMMA Pushed ==
    ASSUME ControlInv, NEW f \in Functions, OnStack(f) = {}, Call(f), lc' = lc
    PROVE  /\ stack' # <<>> /\ Top' = Frame(f) /\ Len(stack') = Len(stack) + 1
           /\ \A i \in 1 .. Len(stack) : stack'[i] = stack[i]
           /\ stack'[Len(stack) + 1] = Frame(f)
           /\ \A g \in Functions : FrameNow(g)' = FrameNow(g)
<1>1. stack \in Seq(Frames) /\ Frame(f) \in Frames /\ Frame(f).fn = f
  BY FrameNowIs DEF ControlInv
<1>2. stack' = Append(stack, Frame(f))
  BY DEF Call
<1>3. /\ Len(stack) \in Nat /\ Len(stack') = Len(stack) + 1 /\ stack' # <<>>
      /\ \A i \in 1 .. Len(stack) : stack'[i] = stack[i]
      /\ stack'[Len(stack) + 1] = Frame(f)
  BY <1>1, <1>2
<1>4. Top' = Frame(f)
  BY <1>3 DEF Top
<1>5. ASSUME NEW g \in Functions, g # f
      PROVE  FrameNow(g)' = FrameNow(g)
  <2>1. OnStack(g)' = OnStack(g)
    BY <1>1, <1>3, <1>5 DEF OnStack
  <2>2. Frame(g)' = Frame(g)
    BY DEF Frame
  <2>3. CASE OnStack(g) = {}
    BY <2>1, <2>2, <2>3 DEF FrameNow
  <2>4. CASE OnStack(g) # {}
    <3> DEFINE k == CHOOSE i \in OnStack(g) : TRUE
    <3>1. k \in OnStack(g)
      BY <2>4
    <3>2. FrameNow(g) = stack[k]
      BY <2>4 DEF FrameNow
    <3>3. FrameNow(g)' = stack'[k]
      BY <2>1, <2>4 DEF FrameNow
    <3> HIDE DEF k
    <3>4. k \in 1 .. Len(stack)
      BY <3>1 DEF OnStack
    <3> QED BY <1>3, <3>2, <3>3, <3>4
  <2> QED BY <2>3, <2>4
<1>6. FrameNow(f)' = FrameNow(f)
  <2>1. OnStack(f)' = {Len(stack) + 1}
    <3>1. \A i \in 1 .. Len(stack) : stack[i].fn # f
      BY DEF OnStack
    <3> QED BY <1>1, <1>3, <3>1 DEF OnStack
  <2>2. FrameNow(f)' = stack'[Len(stack) + 1]
    BY <2>1 DEF FrameNow
  <2> QED BY <1>3, <2>2, FrameNowIs
<1> QED BY <1>3, <1>4, <1>5, <1>6

\* A step in a function changes its frame alone.
LEMMA Replaced ==
    ASSUME ControlInv, StackInv, stack # <<>>, NEW fr \in Frames, fr.fn = Top.fn,
           stack' = [stack EXCEPT ![Len(stack)] = fr]
    PROVE  /\ stack' # <<>> /\ Len(stack') = Len(stack) /\ Top' = fr
           /\ \A i \in 1 .. Len(stack) : /\ i # Len(stack) => stack'[i] = stack[i]
                                         /\ stack'[i].fn = stack[i].fn
           /\ stack'[Len(stack)] = fr
           /\ FrameNow(Top.fn) = Top
           /\ \A g \in Functions : g = Top.fn => FrameNow(g)' = fr
           /\ \A g \in Functions : OnStack(g)' = OnStack(g)
           /\ \A g \in Functions :
                 g # Top.fn /\ (lc'[g] = lc[g] \/ OnStack(g) # {}) => FrameNow(g)' = FrameNow(g)
<1>1. stack \in Seq(Frames) /\ Len(stack) \in Nat \ {0}
  BY DEF ControlInv
<1>2. /\ Len(stack') = Len(stack) /\ stack' # <<>>
      /\ \A i \in 1 .. Len(stack) : i # Len(stack) => stack'[i] = stack[i]
      /\ stack'[Len(stack)] = fr
  BY <1>1
<1>3. Top' = fr /\ Top = stack[Len(stack)]
  BY <1>2 DEF Top
<1>4. \A i \in 1 .. Len(stack) : stack'[i].fn = stack[i].fn
  BY <1>2, <1>3
<1>5. \A g \in Functions : OnStack(g)' = OnStack(g)
  BY <1>2, <1>4 DEF OnStack
<1>6. OnStack(Top.fn) = {Len(stack)}
  BY <1>1, <1>3 DEF OnStack, StackInv
<1>7. FrameNow(Top.fn) = Top
  BY <1>3, <1>6 DEF FrameNow
<1>8. ASSUME NEW g \in Functions, g = Top.fn
      PROVE  FrameNow(g)' = fr
  <2>1. OnStack(g)' = {Len(stack)}
    BY <1>5, <1>6, <1>8
  <2> QED BY <1>2, <2>1 DEF FrameNow
<1>9. ASSUME NEW g \in Functions, g # Top.fn, lc'[g] = lc[g] \/ OnStack(g) # {}
      PROVE  FrameNow(g)' = FrameNow(g)
  <2>1. OnStack(g)' = OnStack(g)
    BY <1>5
  <2>2. CASE OnStack(g) = {}
    <3>1. Frame(g)' = Frame(g)
      BY <1>9, <2>2 DEF Frame
    <3> QED BY <2>1, <2>2, <3>1 DEF FrameNow
  <2>3. CASE OnStack(g) # {}
    <3> DEFINE k == CHOOSE i \in OnStack(g) : TRUE
    <3>1. k \in OnStack(g)
      BY <2>3
    <3>2. FrameNow(g) = stack[k]
      BY <2>3 DEF FrameNow
    <3>3. FrameNow(g)' = stack'[k]
      BY <2>1, <2>3 DEF FrameNow
    <3> HIDE DEF k
    <3>4. k \in 1 .. Len(stack) /\ stack[k].fn = g
      BY <3>1 DEF OnStack
    <3>5. k # Len(stack)
      BY <1>3, <1>9, <3>4
    <3> QED BY <1>2, <3>2, <3>3, <3>4, <3>5
  <2> QED BY <2>2, <2>3
<1> QED BY <1>2, <1>3, <1>4, <1>5, <1>7, <1>8, <1>9

\* A return takes the frame away; its label is what is left of it.
LEMMA Popped ==
    ASSUME ControlInv, StackInv, stack # <<>>,
           stack' = SubSeq(stack, 1, Len(stack) - 1)
    PROVE  /\ Len(stack') = Len(stack) - 1
           /\ \A i \in 1 .. Len(stack) - 1 : stack'[i] = stack[i]
           /\ stack' # <<>> => Len(stack) - 1 \in 1 .. Len(stack) /\ Top' = stack[Len(stack) - 1]
           /\ FrameNow(Top.fn) = Top
           /\ \A g \in Functions : g = Top.fn => FrameNow(g)' = Frame(g)'
           /\ \A g \in Functions :
                 g # Top.fn /\ lc'[g] = lc[g] => FrameNow(g)' = FrameNow(g)
<1>1. stack \in Seq(Frames) /\ Len(stack) \in Nat \ {0}
  BY DEF ControlInv
<1>2. /\ Len(stack') = Len(stack) - 1
      /\ \A i \in 1 .. Len(stack) - 1 : stack'[i] = stack[i]
      /\ stack' # <<>> => Len(stack) - 1 \in 1 .. Len(stack)
  <2>1. /\ Len(stack') = Len(stack) - 1
        /\ \A i \in 1 .. Len(stack) - 1 : stack'[i] = stack[i]
    BY <1>1, WithoutLast
  <2>2. Len(stack) = 1 => stack' = <<>>
    BY <1>1, <2>1
  <2> QED BY <1>1, <2>1, <2>2
<1>3. stack' # <<>> => Top' = stack[Len(stack) - 1]
  BY <1>1, <1>2 DEF Top
<1>4. Top = stack[Len(stack)]
  BY DEF Top
<1>5. OnStack(Top.fn) = {Len(stack)}
  BY <1>1, <1>4 DEF OnStack, StackInv
<1>6. FrameNow(Top.fn) = Top
  BY <1>4, <1>5 DEF FrameNow
<1>7. ASSUME NEW g \in Functions, g = Top.fn
      PROVE  FrameNow(g)' = Frame(g)'
  <2>1. \A i \in 1 .. Len(stack) - 1 : stack[i].fn # g
    BY <1>1, <1>4, <1>7 DEF StackInv
  <2>2. OnStack(g)' = {}
    BY <1>2, <2>1 DEF OnStack
  <2> QED BY <2>2 DEF FrameNow
<1>8. ASSUME NEW g \in Functions, g # Top.fn, lc'[g] = lc[g]
      PROVE  FrameNow(g)' = FrameNow(g)
  <2>1. OnStack(g)' = OnStack(g)
    <3>1. \A i \in OnStack(g) : i \in 1 .. Len(stack) - 1
      BY <1>1, <1>4, <1>8 DEF OnStack
    <3> QED BY <1>1, <1>2, <3>1 DEF OnStack
  <2>2. CASE OnStack(g) = {}
    <3>1. Frame(g)' = Frame(g)
      BY <1>8 DEF Frame
    <3> QED BY <2>1, <2>2, <3>1 DEF FrameNow
  <2>3. CASE OnStack(g) # {}
    <3> DEFINE k == CHOOSE i \in OnStack(g) : TRUE
    <3>1. k \in OnStack(g)
      BY <2>3
    <3>2. FrameNow(g) = stack[k]
      BY <2>3 DEF FrameNow
    <3>3. FrameNow(g)' = stack'[k]
      BY <2>1, <2>3 DEF FrameNow
    <3> HIDE DEF k
    <3>4. k \in 1 .. Len(stack) /\ stack[k].fn = g
      BY <3>1 DEF OnStack
    <3>5. k # Len(stack)
      BY <1>4, <1>8, <3>4
    <3>6. k \in 1 .. Len(stack) - 1
      BY <1>1, <3>4, <3>5
    <3> QED BY <1>2, <3>2, <3>3, <3>6
  <2> QED BY <2>2, <2>3
<1> QED BY <1>2, <1>3, <1>6, <1>7, <1>8

\* The function that an added function spawns is its block, at its first statement.
LEMMA RecIs ==
    ASSUME NEW f \in Functions, f \notin Programs
    PROVE  \E b \in Blocks : f = Rec(b)
BY DEF Functions, Programs

\* It is the function of one block, and neither an event nor a block.
LEMMA RecOfOne ==
    /\ \A b, c \in Blocks : Rec(b) = Rec(c) => b = c
    /\ \A b \in Blocks : Rec(b) \notin Programs /\ Rec(b) \in Functions /\ b \in Functions
<1>1. \A b \in Blocks : <<"block", Rec(b)[2]>> = b
  BY FunctionsDiffer
<1>2. \A b, c \in Blocks : Rec(b) = Rec(c) => b = c
  BY <1>1
<1> QED BY <1>2, FunctionsDiffer DEF Programs, Functions

\* Who is spawned at a frame.
LEMMA ChildIs ==
    ASSUME NEW fr \in Frames, Body(fr.fn)[fr.at].op = "spawn"
    PROVE  LET b == Body(fr.fn)[fr.at].of
           IN  /\ b \in Blocks
               /\ fr.fn \in Programs => ChildOf(fr) = Rec(b) /\ b \in Spawns(fr.fn)
               /\ fr.fn \notin Programs => ChildOf(fr) = b /\ fr.fn = Rec(b) /\ fr.at = 1
               /\ ChildOf(fr) \in Functions /\ ChildOf(fr) \notin Events
<1>1. fr.fn \in Functions /\ fr.at \in 1 .. Len(Body(fr.fn))
  BY DEF Frames
<1>2. CASE fr.fn \in Programs
  <2>1. Body(fr.fn)[fr.at].of \in Spawns(fr.fn) /\ Body(fr.fn)[fr.at].of \in Blocks
    BY <1>1, <1>2, SpawnInCode
  <2> QED BY <1>2, <2>1, RecOfOne DEF ChildOf, Programs
<1>3. CASE fr.fn \notin Programs
  <2>1. PICK b \in Blocks : fr.fn = Rec(b)
    BY <1>1, <1>3, RecIs
  <2>2. fr.at = 1
    <3>1. fr.at \in 1 .. 2 /\ fr.at # 2
      BY <1>1, <2>1, RecBody
    <3> QED BY <3>1
  <2>3. Body(fr.fn)[fr.at].of = b
    BY <2>1, <2>2, RecBody
  <2> QED BY <1>3, <2>1, <2>2, <2>3, RecOfOne, FunctionsDiffer DEF ChildOf
<1> QED BY <1>2, <1>3

\* The frame of a function on the stack.
LEMMA FrameOnStack ==
    ControlInv /\ StackInv => \A i \in 1 .. Len(stack) : FrameNow(stack[i].fn) = stack[i]
<1> SUFFICES ASSUME ControlInv, StackInv, NEW i \in 1 .. Len(stack)
             PROVE  FrameNow(stack[i].fn) = stack[i]
  OBVIOUS
<1>1. OnStack(stack[i].fn) = {i}
  BY DEF OnStack, StackInv
<1> QED BY <1>1 DEF FrameNow

\* A block on the stack was called by the function that was added to it, and that
\* by a function that spawns the block.
LEMMA CallersAre ==
    ControlInv /\ StackInv =>
       \A b \in Blocks : \A i \in 1 .. Len(stack) :
          /\ stack[i].fn = b =>
                /\ i - 1 \in 1 .. Len(stack) - 1
                /\ stack[i - 1].fn = Rec(b) /\ Waits(stack[i - 1])
          /\ stack[i].fn = Rec(b) =>
                /\ i - 1 \in 1 .. Len(stack) - 1
                /\ stack[i - 1].fn \in Programs /\ b \in Spawns(stack[i - 1].fn)
                /\ Waits(stack[i - 1]) /\ ChildOf(stack[i - 1]) = Rec(b)
<1> SUFFICES ASSUME ControlInv, StackInv, NEW b \in Blocks, NEW i \in 1 .. Len(stack),
                    stack[i].fn = b \/ stack[i].fn = Rec(b)
             PROVE  /\ i - 1 \in 1 .. Len(stack) - 1 /\ Waits(stack[i - 1])
                    /\ stack[i].fn = b => stack[i - 1].fn = Rec(b)
                    /\ stack[i].fn = Rec(b) =>
                          /\ stack[i - 1].fn \in Programs /\ b \in Spawns(stack[i - 1].fn)
                          /\ ChildOf(stack[i - 1]) = Rec(b)
  OBVIOUS
<1>1. stack \in Seq(Frames) /\ Len(stack) \in Nat
  BY DEF ControlInv
<1>2. i # 1
  <2>1. b \notin Events /\ Rec(b) \notin Events /\ stack # <<>>
    BY <1>1, FunctionsDiffer
  <2> QED BY <2>1 DEF StackInv
<1>3. i - 1 \in 1 .. Len(stack) - 1 /\ (i - 1) + 1 = i /\ i - 1 \in 1 .. Len(stack)
  BY <1>1, <1>2
<1>4. Waits(stack[i - 1]) /\ stack[i].fn = ChildOf(stack[i - 1]) /\ stack[i - 1] \in Frames
  BY <1>1, <1>3 DEF StackInv
<1> DEFINE fr == stack[i - 1]
           a == Body(fr.fn)[fr.at].of
<1>5. /\ a \in Blocks
      /\ fr.fn \in Programs => stack[i].fn = Rec(a) /\ a \in Spawns(fr.fn)
      /\ fr.fn \notin Programs => stack[i].fn = a /\ fr.fn = Rec(a)
  BY <1>4, ChildIs DEF Waits
<1>6. CASE stack[i].fn = b
  <2>1. b # Rec(a) /\ b # Rec(b)
    BY <1>5, RecOfOne DEF Programs
  <2> QED BY <1>3, <1>4, <1>5, <1>6, <2>1
<1>7. CASE stack[i].fn = Rec(b)
  <2>1. a # Rec(b) /\ b # Rec(b) /\ (Rec(a) = Rec(b) => a = b)
    BY <1>5, RecOfOne DEF Programs
  <2> QED BY <1>3, <1>4, <1>5, <1>7, <2>1
<1> QED BY <1>6, <1>7

\* A block on the stack is one that is waited for.
LEMMA OnStackStarted ==
    ControlInv /\ StackInv => \A b \in Blocks : OnStack(b) # {} => Started(b)
<1> SUFFICES ASSUME ControlInv, StackInv, NEW b \in Blocks, OnStack(b) # {}
             PROVE  Started(b)
  OBVIOUS
<1>1. PICK i \in 1 .. Len(stack) : stack[i].fn = b
  BY DEF OnStack
<1>2. Len(stack) \in Nat
  BY DEF ControlInv
<1>3. /\ i - 1 \in 1 .. Len(stack) /\ stack[i - 1].fn = Rec(b) /\ Waits(stack[i - 1])
  BY <1>1, <1>2, CallersAre
<1> DEFINE j == (i - 1) - 1
<1>4. /\ j \in 1 .. Len(stack) /\ stack[j].fn \in Programs /\ Waits(stack[j])
      /\ ChildOf(stack[j]) = Rec(b)
  BY <1>2, <1>3, CallersAre
<1>5. FrameNow(Rec(b)) = stack[i - 1] /\ FrameNow(stack[j].fn) = stack[j]
  BY <1>3, <1>4, FrameOnStack
<1> QED BY <1>3, <1>4, <1>5 DEF Started

\* A function that is spawned is not on the stack.
LEMMA ChildIsOff ==
    ASSUME OneCaller, ControlInv, StackInv, stack # <<>>, Stmt.op = "spawn"
    PROVE  Child = ChildOf(Top) /\ OnStack(Child) = {}
<1>1. stack \in Seq(Frames) /\ Len(stack) \in Nat \ {0} /\ Top = stack[Len(stack)] /\ Top \in Frames
  BY TopIs DEF ControlInv, Top
<1>2. Child = ChildOf(Top)
  BY DEF Child, ChildOf, Stmt, Programs
<1> DEFINE a == Body(Top.fn)[Top.at].of
<1>3. /\ a \in Blocks
      /\ Top.fn \in Programs => Child = Rec(a) /\ a \in Spawns(Top.fn)
      /\ Top.fn \notin Programs => Child = a /\ Top.fn = Rec(a)
  BY <1>1, <1>2, ChildIs DEF Stmt
<1> HIDE DEF a
<1>4. ASSUME NEW i \in 1 .. Len(stack), stack[i].fn = Child
      PROVE  FALSE
  <2>1. i - 1 \in 1 .. Len(stack) - 1 /\ stack[i - 1].fn = Top.fn
    <3>1. CASE Top.fn \in Programs
      <4>1. /\ i - 1 \in 1 .. Len(stack) - 1
            /\ stack[i - 1].fn \in Programs /\ a \in Spawns(stack[i - 1].fn)
        BY <1>3, <1>4, <3>1, CallersAre
      <4> QED BY <1>3, <3>1, <4>1 DEF OneCaller
    <3>2. CASE Top.fn \notin Programs
      BY <1>3, <1>4, <3>2, CallersAre
    <3> QED BY <3>1, <3>2
  <2>2. i - 1 \in 1 .. Len(stack) /\ Len(stack) \in 1 .. Len(stack) /\ i - 1 # Len(stack)
    BY <1>1, <2>1
  <2> QED BY <1>1, <2>1, <2>2 DEF StackInv
<1> QED BY <1>2, <1>4 DEF OnStack

\* After a step as before it.
LEMMA NextStarted ==
    ControlInv' /\ StackInv' => \A b \in Blocks : OnStack(b)' # {} => Started(b)'
<1> DEFINE Waited == \A b \in Blocks : OnStack(b) # {} => Started(b)
<1>1. ControlInv /\ StackInv => Waited
  BY OnStackStarted
<1> HIDE DEF Waited
<1>2. ControlInv' /\ StackInv' => Waited'
  BY <1>1, PTL
<1> QED BY <1>2 DEF Waited

\* A call keeps the nesting.
LEMMA PushNests ==
    ASSUME ControlInv, NestInv, ControlInv',
           NEW f \in Functions, OnStack(f) = {}, Call(f), lc' = lc, ret' = "none",
           \/ stack = <<>> /\ f \in Events
           \/ stack # <<>> /\ Waits(Top) /\ f = ChildOf(Top)
    PROVE  NestInv'
<1>1. /\ stack' # <<>> /\ Top' = Frame(f) /\ Len(stack') = Len(stack) + 1
      /\ \A i \in 1 .. Len(stack) : stack'[i] = stack[i]
      /\ stack'[Len(stack) + 1] = Frame(f)
      /\ \A g \in Functions : FrameNow(g)' = FrameNow(g)
  BY Pushed
<1>2. Len(stack) \in Nat /\ (stack = <<>> <=> Len(stack) = 0)
  BY DEF ControlInv
<1>3. Frame(f).fn = f /\ \A i \in 1 .. Len(stack) : stack[i].fn # f
  BY FrameNowIs DEF OnStack
<1>4. StackInv'
  <2>1. stack'[1].fn \in Events
    <3>1. CASE stack = <<>>
      BY <1>1, <1>2, <1>3, <3>1
    <3>2. CASE stack # <<>>
      BY <1>1, <1>2, <3>2 DEF NestInv, StackInv
    <3> QED BY <3>1, <3>2
  <2>2. ASSUME NEW i \in 1 .. Len(stack') - 1
        PROVE  Waits(stack'[i]) /\ stack'[i + 1].fn = ChildOf(stack'[i])
    <3>1. CASE i = Len(stack)
      <4>1. stack # <<>> /\ stack'[i] = Top /\ stack'[i + 1] = Frame(f)
        BY <1>1, <1>2, <3>1 DEF Top
      <4> QED BY <1>3, <4>1
    <3>2. CASE i # Len(stack)
      <4>1. i \in 1 .. Len(stack) - 1 /\ i \in 1 .. Len(stack) /\ i + 1 \in 1 .. Len(stack)
        BY <1>1, <1>2, <3>2
      <4> QED BY <1>1, <4>1 DEF NestInv, StackInv
    <3> QED BY <3>1, <3>2
  <2>3. \A i, j \in 1 .. Len(stack') : stack'[i].fn = stack'[j].fn => i = j
    <3>1. \A i \in 1 .. Len(stack') : i = Len(stack) + 1 \/ i \in 1 .. Len(stack)
      BY <1>1, <1>2
    <3> QED BY <1>1, <1>3, <3>1 DEF NestInv, StackInv
  <2> QED BY <2>1, <2>2, <2>3 DEF StackInv, Waits, ChildOf, Body
<1>5. RetInv'
  BY DEF RetInv
<1>6. LabelInv'
  <2> SUFFICES ASSUME NEW i \in 1 .. Len(stack'), stack'[i].byGoto,
                      Body(stack'[i].fn)[stack'[i].at].op \in {"spawn", "sleep"}
               PROVE  lc[stack'[i].fn] = stack'[i].at
    BY DEF LabelInv, Body
  <2>1. CASE i = Len(stack) + 1
    <3>1. stack'[i] = Frame(f) /\ stack'[i].fn = f
      BY <1>1, <1>3, <2>1
    <3>2. Frame(f).byGoto
      BY <3>1
    <3>3. lc[f] # 0
      BY <3>2 DEF Frame
    <3>4. Frame(f).at = lc[f]
      BY <3>3 DEF Frame
    <3> QED BY <3>1, <3>4
  <2>2. CASE i # Len(stack) + 1
    <3>1. i \in 1 .. Len(stack)
      BY <1>1, <1>2, <2>2
    <3> QED BY <1>1, <3>1 DEF NestInv, LabelInv
  <2> QED BY <2>1, <2>2
<1>7. BlockInv'
  <2> SUFFICES ASSUME NEW b \in Blocks, lc[b] # 0
               PROVE  Started(b)'
    BY DEF BlockInv
  <2>1. PICK g \in Programs : Waits(FrameNow(g)) /\ ChildOf(FrameNow(g)) = Rec(b)
    BY DEF NestInv, BlockInv, Started
  <2>2. Waits(FrameNow(Rec(b)))
    BY DEF NestInv, BlockInv, Started
  <2>3. g \in Functions /\ Rec(b) \in Functions
    BY RecOfOne DEF Programs, Functions
  <2>4. FrameNow(g)' = FrameNow(g) /\ FrameNow(Rec(b))' = FrameNow(Rec(b))
    BY <1>1, <2>3
  <2> QED BY <2>1, <2>2, <2>4 DEF Started, Waits, ChildOf, Body
<1> QED BY <1>4, <1>5, <1>6, <1>7 DEF NestInv

\* So does a step within a function, if it leaves no block with a label behind.
LEMMA ReplaceNests ==
    ASSUME ControlInv, NestInv, ControlInv', stack # <<>>,
           NEW fr \in Frames, fr.fn = Top.fn,
           stack' = [stack EXCEPT ![Len(stack)] = fr], ret' = "none",
           \A g \in Functions :
              g # Top.fn => \/ lc'[g] = lc[g]
                            \/ OnStack(g) = {} /\ \E b \in Blocks : g = Rec(b) /\ lc[b] = 0,
           fr.byGoto /\ Body(fr.fn)[fr.at].op \in {"spawn", "sleep"} => lc'[fr.fn] = fr.at,
           Waits(Top) => lc[Stmt.of] = 0
    PROVE  NestInv'
<1>1. /\ stack' # <<>> /\ Len(stack') = Len(stack) /\ Top' = fr
      /\ \A i \in 1 .. Len(stack) : /\ i # Len(stack) => stack'[i] = stack[i]
                                    /\ stack'[i].fn = stack[i].fn
      /\ stack'[Len(stack)] = fr
      /\ FrameNow(Top.fn) = Top
      /\ \A g \in Functions : OnStack(g)' = OnStack(g)
      /\ \A g \in Functions :
            g # Top.fn /\ (lc'[g] = lc[g] \/ OnStack(g) # {}) => FrameNow(g)' = FrameNow(g)
  BY Replaced DEF NestInv
<1>2. Len(stack) \in Nat \ {0} /\ Top = stack[Len(stack)]
  BY DEF ControlInv, Top
<1>3. StackInv'
  <2>1. stack'[1].fn \in Events
    <3>1. 1 \in 1 .. Len(stack)
      BY <1>2
    <3>2. stack'[1].fn = stack[1].fn
      BY <1>1, <3>1
    <3> QED BY <3>2 DEF NestInv, StackInv
  <2>2. ASSUME NEW i \in 1 .. Len(stack') - 1
        PROVE  Waits(stack'[i]) /\ stack'[i + 1].fn = ChildOf(stack'[i])
    <3>1. /\ i \in 1 .. Len(stack) - 1 /\ i \in 1 .. Len(stack) /\ i # Len(stack)
          /\ i + 1 \in 1 .. Len(stack)
      <4>1. Len(stack') = Len(stack)
        BY <1>1
      <4> QED BY <1>2, <4>1
    <3> QED BY <1>1, <3>1 DEF NestInv, StackInv
  <2>3. \A i, j \in 1 .. Len(stack') : stack'[i].fn = stack'[j].fn => i = j
    BY <1>1 DEF NestInv, StackInv
  <2> QED BY <2>1, <2>2, <2>3 DEF StackInv, Waits, ChildOf, Body
<1>4. RetInv'
  BY DEF RetInv
<1>e. Len(stack) \in 1 .. Len(stack)
  BY <1>2
<1>5. LabelInv'
  <2> SUFFICES ASSUME NEW i \in 1 .. Len(stack'), stack'[i].byGoto,
                      Body(stack'[i].fn)[stack'[i].at].op \in {"spawn", "sleep"}
               PROVE  lc'[stack'[i].fn] = stack'[i].at
    BY DEF LabelInv, Body
  <2>1. CASE i = Len(stack)
    <3>1. stack'[i] = fr
      <4>1. stack'[Len(stack)] = fr
        BY <1>1
      <4> QED BY <2>1, <4>1
    <3>2. fr.byGoto /\ Body(fr.fn)[fr.at].op \in {"spawn", "sleep"}
      BY <3>1
    <3>3. lc'[fr.fn] = fr.at
      BY <3>2, Zenon
    <3> QED BY <3>1, <3>3
  <2>2. CASE i # Len(stack)
    <3>0. Len(stack) \in 1 .. Len(stack) /\ i \in 1 .. Len(stack)
      <4>1. Len(stack') = Len(stack)
        BY <1>1, Zenon
      <4>2. i \in 1 .. Len(stack)
        BY <4>1, Zenon
      <4> QED BY <1>e, <4>2, Zenon
    <3>1. stack'[i] = stack[i]
      BY <1>1, <2>2, <3>0, Zenon
    <3>2. stack[i].fn # Top.fn /\ OnStack(stack[i].fn) # {} /\ stack[i].fn \in Functions
      <4>1. stack[i].fn # Top.fn
        BY <1>2, <2>2, <3>0 DEF NestInv, StackInv
      <4>2. i \in OnStack(stack[i].fn)
        BY <3>0 DEF OnStack
      <4>3. stack[i] \in Frames
        BY <3>0 DEF ControlInv
      <4> QED BY <4>1, <4>2, <4>3 DEF Frames
    <3>3. lc'[stack[i].fn] = lc[stack[i].fn]
      BY <3>2
    <3> QED BY <3>0, <3>1, <3>3 DEF NestInv, LabelInv
  <2> QED BY <2>1, <2>2
<1>6. BlockInv'
  <2> SUFFICES ASSUME NEW b \in Blocks, lc'[b] # 0
               PROVE  Started(b)'
    BY DEF BlockInv
  <2>1. CASE OnStack(b)' # {}
    BY <1>3, <2>1, NextStarted
  <2>2. CASE OnStack(b)' = {}
    <3>1. b \in Functions /\ Rec(b) \in Functions /\ \A c \in Blocks : b # Rec(c)
      BY RecOfOne DEF Programs
    <3>2. OnStack(b) = {} /\ b # Top.fn
      <4>1. OnStack(b) = {}
        BY <1>1, <2>2, <3>1
      <4>2. Len(stack) \in 1 .. Len(stack)
        BY <1>2
      <4> QED BY <1>2, <4>1, <4>2 DEF OnStack
    <3>3. lc'[b] = lc[b] /\ lc[b] # 0
      BY <3>1, <3>2
    <3>4. Waits(FrameNow(Rec(b)))
      BY <3>3 DEF NestInv, BlockInv, Started
    <3>5. PICK g \in Programs : Waits(FrameNow(g)) /\ ChildOf(FrameNow(g)) = Rec(b)
      BY <3>3 DEF NestInv, BlockInv, Started
    <3>6. g \in Functions /\ \A c \in Blocks : g # Rec(c)
      BY RecOfOne DEF Programs, Functions
    <3>7. Top \in Frames
      BY TopIs
    <3>8. Rec(b) # Top.fn
      <4> SUFFICES ASSUME Rec(b) = Top.fn PROVE FALSE
        OBVIOUS
      <4>1. Waits(Top)
        BY <1>1, <3>4
      <4>2. Stmt.of = b
        BY <3>7, <4>1, ChildIs, RecOfOne DEF Waits, Stmt
      <4> QED BY <3>3, <4>1, <4>2
    <3>9. g # Top.fn
      <4> SUFFICES ASSUME g = Top.fn PROVE FALSE
        OBVIOUS
      <4>1. Waits(Top) /\ ChildOf(Top) = Rec(b)
        BY <1>1, <3>5
      <4>2. Stmt.of = b
        BY <3>7, <4>1, ChildIs, RecOfOne DEF Waits, Stmt
      <4> QED BY <3>3, <4>1, <4>2
    <3>10. lc'[Rec(b)] = lc[Rec(b)]
      BY <3>1, <3>3, <3>8, RecOfOne
    <3>11. lc'[g] = lc[g]
      BY <3>6, <3>9
    <3>12. FrameNow(g)' = FrameNow(g) /\ FrameNow(Rec(b))' = FrameNow(Rec(b))
      BY <1>1, <3>1, <3>6, <3>8, <3>9, <3>10, <3>11
    <3> QED BY <3>4, <3>5, <3>12 DEF Started, Waits, ChildOf, Body
  <2> QED BY <2>1, <2>2
<1> QED BY <1>3, <1>4, <1>5, <1>6 DEF NestInv

\* And a return, if it leaves a label where the frame waited.
LEMMA PopNests ==
    ASSUME ControlInv, NestInv, ControlInv', stack # <<>>,
           stack' = SubSeq(stack, 1, Len(stack) - 1),
           \A g \in Functions : g # Top.fn => lc'[g] = lc[g],
           Waits(Top) => lc'[Top.fn] = Top.at,
           \/ ret' \in {"waiting", "yielded"}
           \/ ret' = "exited" /\ Top.fn \in Blocks /\ lc'[Top.fn] = 0
           \/ ret' = "ended" /\ Top.fn \notin Programs /\ ~ Waits(Top)
    PROVE  NestInv'
<1>1. /\ Len(stack') = Len(stack) - 1
      /\ \A i \in 1 .. Len(stack) - 1 : stack'[i] = stack[i]
      /\ stack' # <<>> => Len(stack) - 1 \in 1 .. Len(stack) /\ Top' = stack[Len(stack) - 1]
      /\ FrameNow(Top.fn) = Top
      /\ \A g \in Functions : g = Top.fn => FrameNow(g)' = Frame(g)'
      /\ \A g \in Functions : g # Top.fn /\ lc'[g] = lc[g] => FrameNow(g)' = FrameNow(g)
  BY Popped DEF NestInv
<1>2. Len(stack) \in Nat \ {0} /\ Top = stack[Len(stack)] /\ Top \in Frames
  BY TopIs DEF ControlInv, Top
<1>3. /\ \A i \in 1 .. Len(stack) - 1 : i \in 1 .. Len(stack) /\ i + 1 \in 1 .. Len(stack)
      /\ \A i \in 1 .. Len(stack) - 1 : i # Len(stack) /\ Len(stack) \in 1 .. Len(stack)
      /\ stack' # <<>> => 1 \in 1 .. Len(stack) - 1 /\ Len(stack) - 1 \in 1 .. Len(stack) - 1
      /\ \A i \in 1 .. Len(stack') - 1 : i \in 1 .. Len(stack) - 1 /\ i + 1 \in 1 .. Len(stack) - 1
  <2>1. Len(stack') = Len(stack) - 1
    BY <1>1
  <2>2. stack' # <<>> => Len(stack') # 0
    BY DEF ControlInv
  <2> QED BY <1>2, <2>1, <2>2
<1>4. StackInv'
  <2>1. stack' # <<>> => stack'[1].fn \in Events
    <3>1. stack' # <<>> => stack'[1] = stack[1]
      BY <1>1, <1>3
    <3> QED BY <3>1 DEF NestInv, StackInv
  <2>2. ASSUME NEW i \in 1 .. Len(stack') - 1
        PROVE  Waits(stack'[i]) /\ stack'[i + 1].fn = ChildOf(stack'[i])
    <3>1. i \in 1 .. Len(stack) - 1 /\ i + 1 \in 1 .. Len(stack) - 1
      BY <1>3
    <3>2. stack'[i] = stack[i] /\ stack'[i + 1] = stack[i + 1]
      BY <1>1, <3>1
    <3> QED BY <3>1, <3>2 DEF NestInv, StackInv
  <2>3. \A i, j \in 1 .. Len(stack') : stack'[i].fn = stack'[j].fn => i = j
    <3>1. \A i \in 1 .. Len(stack') : i \in 1 .. Len(stack) - 1
      BY <1>1
    <3>2. \A i \in 1 .. Len(stack') : i \in 1 .. Len(stack) /\ stack'[i] = stack[i]
      BY <1>1, <1>3, <3>1
    <3> QED BY <3>2 DEF NestInv, StackInv
  <2> QED BY <2>1, <2>2, <2>3 DEF StackInv, Waits, ChildOf, Body
<1>5. RetInv'
  <2> SUFFICES ASSUME stack' # <<>>
               PROVE  /\ Waits(Top')
                      /\ ret' \in {"waiting", "yielded"}
                                     \cup IF Top'.fn \in Programs THEN {"ended"} ELSE {"exited"}
                      /\ ret' \in {"ended", "exited"} => lc'[Stmt'.of] = 0
    BY DEF RetInv, Waits, Body
  <2> DEFINE below == stack[Len(stack) - 1]
             a == Body(below.fn)[below.at].of
  <2>1. Top' = below /\ Len(stack) - 1 \in 1 .. Len(stack) - 1
    BY <1>1, <1>3
  <2>2. Waits(below) /\ Top.fn = ChildOf(below) /\ below \in Frames
    <3>1. Len(stack) - 1 \in 1 .. Len(stack) /\ (Len(stack) - 1) + 1 = Len(stack)
      BY <1>2, <1>3, <2>1
    <3>2. below \in Frames
      BY <3>1 DEF ControlInv
    <3> QED BY <1>2, <2>1, <3>1, <3>2 DEF NestInv, StackInv
  <2>3. Stmt'.of = a
    BY <2>1 DEF Stmt, Body
  <2>4. /\ a \in Blocks
        /\ below.fn \in Programs => Top.fn = Rec(a)
        /\ below.fn \notin Programs => Top.fn = a
    BY <2>2, ChildIs DEF Waits
  <2> HIDE DEF below, a
  <2>5. CASE below.fn \in Programs
    <3>1. Top.fn \notin Blocks
      BY <2>4, <2>5, RecOfOne DEF Programs
    <3>2. ret' = "ended" => lc'[a] = 0
      <4> SUFFICES ASSUME ret' = "ended" PROVE lc'[a] = 0
        OBVIOUS
      <4>1. ~ Waits(FrameNow(Rec(a)))
        BY <1>1, <2>4, <2>5
      <4>2. lc[a] = 0
        BY <2>4, <4>1 DEF NestInv, BlockInv, Started
      <4>3. a # Top.fn /\ a \in Functions
        BY <2>4, <2>5, RecOfOne DEF Programs
      <4> QED BY <4>2, <4>3
    <3> QED BY <2>1, <2>2, <2>3, <2>5, <3>1, <3>2 DEF Programs
  <2>6. CASE below.fn \notin Programs
    <3>1. Top.fn \in Programs
      BY <2>4, <2>6 DEF Programs
    <3> QED BY <2>1, <2>2, <2>3, <2>4, <2>6, <3>1
  <2> QED BY <2>5, <2>6
<1>6. LabelInv'
  <2> SUFFICES ASSUME NEW i \in 1 .. Len(stack'), stack'[i].byGoto,
                      Body(stack'[i].fn)[stack'[i].at].op \in {"spawn", "sleep"}
               PROVE  lc'[stack'[i].fn] = stack'[i].at
    BY DEF LabelInv, Body
  <2>1. i \in 1 .. Len(stack) - 1
    BY <1>1
  <2>2. stack'[i] = stack[i] /\ i \in 1 .. Len(stack) /\ i # Len(stack)
        /\ Len(stack) \in 1 .. Len(stack)
    BY <1>1, <1>3, <2>1
  <2>3. stack[i] \in Frames /\ stack[i].fn # Top.fn
    <3>1. stack[i] \in Frames
      BY <2>2 DEF ControlInv
    <3>2. stack[i].fn # stack[Len(stack)].fn
      BY <2>2 DEF NestInv, StackInv
    <3> QED BY <1>2, <3>1, <3>2
  <2>4. lc'[stack[i].fn] = lc[stack[i].fn]
    BY <2>3 DEF Frames
  <2> QED BY <2>2, <2>4 DEF NestInv, LabelInv
<1>7. BlockInv'
  <2>1. ASSUME NEW g \in Functions, Waits(FrameNow(g))
        PROVE  Waits(FrameNow(g)') /\ ChildOf(FrameNow(g)') = ChildOf(FrameNow(g))
    <3>1. CASE g # Top.fn
      BY <1>1, <2>1, <3>1
    <3>2. CASE g = Top.fn
      <4>1. lc'[g] = Top.at /\ Waits(Top)
        BY <1>1, <2>1, <3>2
      <4>2. Top.at # 0
        BY <1>2 DEF Frames
      <4>3. Frame(g)'.fn = g /\ Frame(g)'.at = Top.at /\ Frame(g)'.byGoto
        BY <4>1, <4>2 DEF Frame
      <4> QED BY <1>1, <3>2, <4>1, <4>3 DEF Waits, ChildOf
    <3> QED BY <3>1, <3>2
  <2> SUFFICES ASSUME NEW b \in Blocks, lc'[b] # 0
               PROVE  Started(b)'
    BY DEF BlockInv
  <2>2. b \in Functions /\ Rec(b) \in Functions
    BY RecOfOne
  <2>3. Started(b)
    <3>1. CASE b = Top.fn
      <4>1. Len(stack) \in OnStack(b)
        BY <1>2, <3>1 DEF OnStack
      <4> QED BY <4>1, OnStackStarted DEF NestInv
    <3>2. CASE b # Top.fn
      BY <2>2, <3>2 DEF NestInv, BlockInv
    <3> QED BY <3>1, <3>2
  <2>4. PICK g \in Programs : Waits(FrameNow(g)) /\ ChildOf(FrameNow(g)) = Rec(b)
    BY <2>3 DEF Started
  <2>5. g \in Functions
    BY DEF Programs, Functions
  <2>6. Waits(FrameNow(g)') /\ ChildOf(FrameNow(g)') = Rec(b) /\ Waits(FrameNow(Rec(b))')
    BY <2>1, <2>2, <2>3, <2>4, <2>5 DEF Started
  <2> QED BY <2>6 DEF Started, Waits, ChildOf, Body
<1> QED BY <1>4, <1>5, <1>6, <1>7 DEF NestInv

-----------------------------------------------------------------------------
\* The frame of a function that goes on, and of one that set its label.
NextFrame == [fn |-> Top.fn, at |-> Top.at + 1, byGoto |-> FALSE]
GotoFrame == [Top EXCEPT !.byGoto = TRUE]

\* A frame that goes on is at the next statement.
LEMMA GoesOn ==
    ASSUME ControlInv, stack # <<>>, Stmt.op \in Ops
    PROVE  /\ NextFrame \in Frames /\ NextFrame.fn = Top.fn /\ NextFrame.at = Top.at + 1
           /\ ~ NextFrame.byGoto
           /\ GoOn => stack' = [stack EXCEPT ![Len(stack)] = NextFrame]
<1>1. Top \in Frames /\ Top.at \in 1 .. Len(Body(Top.fn)) /\ Top.fn \in Functions
  BY TopIs
<1>2. Top.at # Len(Body(Top.fn))
  BY TopIs DEF Ops, LastOps
<1>3. Len(Body(Top.fn)) \in Nat
  BY <1>1, BodyIsOK DEF BodyOK
<1>4. /\ NextFrame \in [fn : Functions, at : Nat, byGoto : BOOLEAN]
      /\ NextFrame.fn = Top.fn /\ NextFrame.at = Top.at + 1 /\ ~ NextFrame.byGoto
  BY <1>1 DEF Frames, NextFrame
<1> QED BY <1>1, <1>2, <1>3, <1>4 DEF Frames, GoOn, NextFrame

\* A frame that set its label is at the same statement, reached by the goto.
LEMMA Relabelled ==
    ASSUME ControlInv, stack # <<>>
    PROVE  /\ GotoFrame \in Frames /\ GotoFrame.fn = Top.fn /\ GotoFrame.at = Top.at
           /\ GotoFrame.byGoto
           /\ Labelled => stack' = [stack EXCEPT ![Len(stack)] = GotoFrame]
<1>1. Top \in Frames
  BY TopIs
<1>2. /\ GotoFrame \in [fn : Functions, at : Nat, byGoto : BOOLEAN]
      /\ GotoFrame.fn = Top.fn /\ GotoFrame.at = Top.at /\ GotoFrame.byGoto
  BY <1>1 DEF Frames, GotoFrame
<1> QED BY <1>1, <1>2 DEF Frames, Labelled, GotoFrame, Top

\* Where a statement of the code is, and what the other statements are.
LEMMA CodeOp ==
    ASSUME NEW f \in Programs, NEW i \in 1 .. Len(Code[f])
    PROVE  Code[f][i].op \in {"work", "yield", "micros", "switch", "sleep", "delay", "spawn"}
<1>1. Code[f] \in Seq(Statements)
  BY CodeAssumption DEF Programs
<1>2. Code[f][i] \in Statements
  BY <1>1
<1> QED BY <1>2 DEF Statements

\* Where in a function each kind of statement is.
LEMMA WhereOps ==
    ASSUME ControlInv, stack # <<>>
    PROVE  /\ Stmt.op = "exit" => Top.fn \in Blocks /\ Top.at = Len(Code[Top.fn]) + 2
           /\ Stmt.op = "end" => Top.at = 2 /\ \E b \in Blocks : Top.fn = Rec(b)
           /\ Stmt.op \notin {"spawn", "end"} => Top.fn \in Programs
           /\ Stmt.op = "forever" => Top.fn \in Events
           /\ Stmt.op \notin LastOps /\ Top.fn \in Events =>
                 Top.at \in 1 .. Len(Code[Top.fn]) /\ Stmt = Code[Top.fn][Top.at]
           /\ Stmt.op \notin LastOps /\ Top.fn \in Blocks =>
                 \/ Top.at = 1 /\ Stmt.op = "yield"
                 \/ /\ Top.at > 1 /\ Top.at - 1 \in 1 .. Len(Code[Top.fn])
                    /\ Stmt = Code[Top.fn][Top.at - 1]
<1> DEFINE f == Top.fn
<1>1. f \in Functions /\ Top.at \in 1 .. Len(Body(f)) /\ Stmt = Body(f)[Top.at]
  BY TopIs DEF Stmt
<1>2. CASE f \in Events
  <2>1. f \in Programs /\ f \notin Blocks
    BY <1>2, FunctionsDiffer DEF Programs
  <2>2. CASE Top.at = Len(Code[f]) + 1
    <3>1. Stmt.op = "forever"
      BY <1>1, <1>2, <2>2, EventBody
    <3> QED BY <1>2, <2>1, <3>1 DEF LastOps
  <2>3. CASE Top.at # Len(Code[f]) + 1
    <3>1. Top.at \in 1 .. Len(Code[f]) /\ Stmt = Code[f][Top.at]
      BY <1>1, <1>2, <2>3, EventBody, SMTT(20)
    <3>2. Stmt.op \in {"work", "yield", "micros", "switch", "sleep", "delay", "spawn"}
      BY <2>1, <3>1, CodeOp
    <3> QED BY <1>2, <2>1, <3>1, <3>2
  <2> QED BY <2>2, <2>3
<1>3. CASE f \in Blocks
  <2>1. f \in Programs /\ f \notin Events
    BY <1>3, FunctionsDiffer DEF Programs
  <2>2. CASE Top.at = Len(Code[f]) + 2
    <3>1. Stmt.op = "exit"
      BY <1>1, <1>3, <2>2, BlockBody
    <3> QED BY <1>3, <2>1, <2>2, <3>1 DEF LastOps
  <2>3. CASE Top.at = 1
    <3>1. Stmt.op = "yield"
      BY <1>1, <1>3, <2>3, BlockBody
    <3> QED BY <1>3, <2>1, <2>3, <3>1
  <2>4. CASE Top.at # Len(Code[f]) + 2 /\ Top.at # 1
    <3>1. Top.at - 1 \in 1 .. Len(Code[f]) /\ (Top.at - 1) + 1 = Top.at /\ Top.at > 1
      BY <1>1, <1>3, <2>4, BlockBody
    <3>2. Stmt = Code[f][Top.at - 1]
      BY <1>1, <1>3, <3>1, BlockBody
    <3>3. Stmt.op \in {"work", "yield", "micros", "switch", "sleep", "delay", "spawn"}
      BY <2>1, <3>1, <3>2, CodeOp
    <3> QED BY <1>3, <2>1, <3>1, <3>2, <3>3
  <2> QED BY <2>2, <2>3, <2>4
<1>4. CASE f \notin Programs
  <2>1. PICK b \in Blocks : f = Rec(b)
    BY <1>1, <1>4, RecIs
  <2>2. Top.at \in 1 .. 2
    BY <1>1, <2>1, RecBody
  <2>3. Top.at = 1 => Stmt.op = "spawn"
    BY <1>1, <2>1, RecBody
  <2>4. Top.at = 2 => Stmt.op = "end"
    BY <1>1, <2>1, RecBody
  <2> QED BY <1>4, <2>1, <2>2, <2>3, <2>4 DEF Programs
<1> QED BY <1>2, <1>3, <1>4 DEF Programs

\* A frame that does not wait for a call has nothing to return to it.
LEMMA QuietTop ==
    ASSUME ControlInv, NestInv, stack # <<>>, Stmt.op # "spawn" \/ ~ Top.byGoto
    PROVE  ~ Waits(Top) /\ ret = "none"
BY DEF Waits, Stmt, NestInv, RetInv

\* A block that is about to be spawned is not waited for.
LEMMA NotStarted ==
    ASSUME OneCaller, ControlInv, NestInv, stack # <<>>, Stmt.op = "spawn", ~ Top.byGoto
    PROVE  Stmt.of \in Blocks /\ ~ Started(Stmt.of) /\ lc[Stmt.of] = 0
<1> DEFINE a == Body(Top.fn)[Top.at].of
<1>1. Len(stack) \in 1 .. Len(stack) /\ Top = stack[Len(stack)] /\ Top \in Frames
  <2>1. Len(stack) \in Nat \ {0}
    BY DEF ControlInv
  <2> QED BY <2>1, TopIs DEF Top
<1>2. FrameNow(Top.fn) = Top
  BY <1>1, FrameOnStack DEF NestInv
<1>3. /\ a \in Blocks
      /\ Top.fn \in Programs => a \in Spawns(Top.fn)
      /\ Top.fn \notin Programs => Top.fn = Rec(a)
  BY <1>1, ChildIs DEF Stmt
<1> HIDE DEF a
<1>4. ~ Started(a)
  <2> SUFFICES ASSUME Started(a) PROVE FALSE
    OBVIOUS
  <2>1. ~ Waits(Top)
    BY DEF Waits
  <2>2. CASE Top.fn \notin Programs
    BY <1>2, <1>3, <2>1, <2>2 DEF Started
  <2>3. CASE Top.fn \in Programs
    <3>1. PICK g \in Programs : Waits(FrameNow(g)) /\ ChildOf(FrameNow(g)) = Rec(a)
      BY DEF Started
    <3>2. FrameNow(g) \in Frames /\ FrameNow(g).fn = g
      BY FrameNowIs DEF Programs, Functions
    <3>3. a \in Spawns(g)
      BY <1>3, <3>1, <3>2, ChildIs, RecOfOne DEF Waits
    <3>4. g = Top.fn
      BY <1>3, <2>3, <3>3 DEF OneCaller
    <3> QED BY <1>2, <2>1, <3>1, <3>4
  <2> QED BY <2>2, <2>3
<1>5. lc[a] = 0
  BY <1>3, <1>4 DEF NestInv, BlockInv
<1> QED BY <1>3, <1>4, <1>5 DEF a, Stmt

\* What a thread does after the nesting it has found.
LEMMA NestStep ==
    ASSUME OneCaller
    PROVE  ControlInv /\ NestInv /\ [ThreadsNext]_allVars => NestInv'
<1> SUFFICES ASSUME ControlInv, NestInv, [ThreadsNext]_allVars PROVE NestInv'
  OBVIOUS
<1>c. ControlInv'
  BY ControlStep
<1>t. stack # <<>> => /\ Top.fn \in Functions /\ Top.at \in Nat /\ Top \in Frames
                      /\ Len(stack) \in 1 .. Len(stack) /\ Top = stack[Len(stack)]
  <2>1. stack # <<>> => Len(stack) \in Nat \ {0}
    BY DEF ControlInv
  <2> QED BY <2>1, TopIs DEF Top
<1>l. /\ lc' = lc => \A g \in Functions : lc'[g] = lc[g]
      /\ \A x : stack # <<>> /\ lc' = [lc EXCEPT ![Top.fn] = x] =>
            lc'[Top.fn] = x /\ \A g \in Functions : g # Top.fn => lc'[g] = lc[g]
  BY <1>t DEF ControlInv
<1>s. ASSUME stack # <<>>, SetLabel
      PROVE  lc'[Top.fn] = Top.at /\ \A g \in Functions : g # Top.fn => lc'[g] = lc[g]
  BY <1>s, <1>l DEF SetLabel
<1>g. ASSUME stack # <<>>, Stmt.op \in Ops, GoOn, ret' = "none",
             \A g \in Functions : g # Top.fn => lc'[g] = lc[g],
             Waits(Top) => lc[Stmt.of] = 0
      PROVE  NestInv'
  BY <1>c, <1>g, GoesOn, ReplaceNests
<1>r. ASSUME stack # <<>>, Labelled, ret' = "none",
             \A g \in Functions :
                g # Top.fn => \/ lc'[g] = lc[g]
                              \/ OnStack(g) = {} /\ \E b \in Blocks : g = Rec(b) /\ lc[b] = 0,
             Stmt.op \in {"spawn", "sleep"} => lc'[Top.fn] = Top.at,
             ~ Waits(Top)
      PROVE  NestInv'
  <2>1. Body(GotoFrame.fn)[GotoFrame.at] = Stmt
    BY <1>r, Relabelled DEF Stmt
  <2>2. GotoFrame.byGoto /\ Body(GotoFrame.fn)[GotoFrame.at].op \in {"spawn", "sleep"}
           => lc'[GotoFrame.fn] = GotoFrame.at
    BY <1>r, <2>1, Relabelled
  <2> QED BY <1>c, <1>r, <2>2, Relabelled, ReplaceNests
<1>p. ASSUME stack # <<>>, Leave(ret'),
             \A g \in Functions : g # Top.fn => lc'[g] = lc[g],
             Waits(Top) => lc'[Top.fn] = Top.at,
             \/ ret' \in {"waiting", "yielded"}
             \/ ret' = "exited" /\ Top.fn \in Blocks /\ lc'[Top.fn] = 0
             \/ ret' = "ended" /\ Top.fn \notin Programs /\ ~ Waits(Top)
      PROVE  NestInv'
  BY <1>c, <1>p, PopNests DEF Leave
<1>o. {"work", "yield", "micros", "switch", "sleep", "delay", "spawn"} = Ops
  BY DEF Ops
<1>1. CASE ScheduleEvent
  <2>1. Schedule[turn] \in Events
    BY DEF ControlInv, Events
  <2>2. Schedule[turn] \in Functions /\ OnStack(Schedule[turn]) = {}
    BY <1>1, <2>1 DEF Functions, OnStack, ScheduleEvent
  <2> QED BY <1>1, <1>c, <2>1, <2>2, PushNests DEF ScheduleEvent
<1>2. CASE Work
  <2>1. stack # <<>> /\ Stmt.op = "work"
    BY <1>2 DEF Work, At
  <2>2. ~ Waits(Top) /\ ret = "none"
    BY <2>1, QuietTop
  <2> QED BY <1>2, <1>g, <1>l, <1>o, <2>1, <2>2 DEF Work
<1>3. CASE PT_YIELD
  <2>1. stack # <<>> /\ Stmt.op = "yield"
    BY <1>3 DEF PT_YIELD, At
  <2>2. ~ Waits(Top) /\ ret = "none"
    BY <2>1, QuietTop
  <2>3. \A g \in Functions : g # Top.fn => lc'[g] = lc[g]
    BY <1>3, <1>s, <2>1 DEF PT_YIELD
  <2>4. CASE Leave("yielded")
    <3>1. ret' = "yielded"
      BY <2>4 DEF Leave
    <3>2. Leave(ret')
      BY <2>4, <3>1
    <3> QED BY <1>p, <2>1, <2>2, <2>3, <3>1, <3>2
  <2>5. CASE GoOn /\ UNCHANGED ret
    BY <1>g, <1>o, <2>1, <2>2, <2>3, <2>5
  <2> QED BY <1>3, <2>4, <2>5 DEF PT_YIELD
<1>4. CASE EventEnd
  <2>1. stack # <<>> /\ Stmt.op = "forever"
    BY <1>4 DEF EventEnd
  <2>2. ~ Waits(Top)
    BY <2>1, QuietTop
  <2>3. \A g \in Functions : g # Top.fn => lc'[g] = lc[g]
    BY <1>4, <1>s, <2>1 DEF EventEnd
  <2>4. ret' = "yielded" /\ Leave(ret')
    BY <1>4 DEF EventEnd, Leave
  <2> QED BY <1>p, <2>1, <2>2, <2>3, <2>4
<1>5. CASE SleepStart
  <2>1. stack # <<>> /\ Stmt.op = "sleep"
    BY <1>5 DEF SleepStart, At
  <2>2. ~ Waits(Top) /\ ret = "none"
    BY <2>1, QuietTop
  <2> QED BY <1>5, <1>r, <1>s, <2>1, <2>2 DEF SleepStart
<1>6. CASE SleepOver
  <2>1. stack # <<>> /\ Stmt.op = "sleep"
    BY <1>6 DEF SleepOver, At
  <2>2. ~ Waits(Top) /\ ret = "none"
    BY <2>1, QuietTop
  <2> QED BY <1>6, <1>g, <1>l, <1>o, <2>1, <2>2 DEF SleepOver
<1>7. CASE SleepOn
  <2>1. stack # <<>> /\ Stmt.op = "sleep"
    BY <1>7 DEF SleepOn, At
  <2>2. ~ Waits(Top)
    BY <2>1, QuietTop
  <2>3. ret' = "waiting" /\ Leave(ret')
    BY <1>7 DEF SleepOn, Leave
  <2> QED BY <1>7, <1>p, <1>l, <2>1, <2>2, <2>3 DEF SleepOn
<1>8. CASE SpawnStart
  <2>1. stack # <<>> /\ Stmt.op = "spawn" /\ ~ Top.byGoto
    BY <1>8 DEF SpawnStart, At
  <2>2. ~ Waits(Top) /\ ret = "none"
    BY <2>1, QuietTop
  <2>3. Stmt.of \in Blocks /\ lc[Stmt.of] = 0
    BY <2>1, NotStarted
  <2>4. OnStack(Child) = {} /\ (Child = Rec(Stmt.of) \/ Child = Stmt.of)
    BY <2>1, ChildIsOff DEF NestInv, Child
  <2>5. lc'[Top.fn] = Top.at /\ \A g \in Functions : g # Top.fn =>
           lc'[g] = IF g = Child THEN 0 ELSE lc[g]
    BY <1>8, <1>t, <2>1 DEF SpawnStart, ControlInv
  <2>6. \A g \in Functions :
           g # Top.fn => \/ lc'[g] = lc[g]
                         \/ OnStack(g) = {} /\ \E b \in Blocks : g = Rec(b) /\ lc[b] = 0
    BY <2>3, <2>4, <2>5
  <2> QED BY <1>8, <1>r, <2>1, <2>2, <2>5, <2>6 DEF SpawnStart
<1>9. CASE SpawnCall
  <2>1. stack # <<>> /\ Stmt.op = "spawn" /\ Top.byGoto /\ ret = "none"
    BY <1>9 DEF SpawnCall, At
  <2>2. Waits(Top)
    BY <2>1 DEF Waits, Stmt
  <2>3. Child \in Functions /\ Child = ChildOf(Top) /\ OnStack(Child) = {}
    BY <2>1, TopIs, ChildIsOff DEF NestInv
  <2> QED BY <1>9, <1>c, <2>1, <2>2, <2>3, PushNests DEF SpawnCall
<1>10. CASE SpawnWaits
  <2>1. stack # <<>> /\ Stmt.op = "spawn" /\ Top.byGoto
    BY <1>10 DEF SpawnWaits, At
  <2>2. lc[Top.fn] = Top.at
    BY <1>t, <2>1 DEF NestInv, LabelInv, Stmt
  <2>3. ret' = "waiting" /\ Leave(ret')
    BY <1>10 DEF SpawnWaits, Leave
  <2>4. lc' = lc
    BY <1>10 DEF SpawnWaits
  <2> QED BY <1>p, <1>l, <2>1, <2>2, <2>3, <2>4
<1>11. CASE SpawnDone
  <2>1. stack # <<>> /\ Stmt.op = "spawn" /\ Top.byGoto /\ ret # "none" /\ ~ Running(ret)
    BY <1>11 DEF SpawnDone, At
  <2>2. lc[Stmt.of] = 0
    BY <2>1 DEF NestInv, RetInv, Running
  <2> QED BY <1>11, <1>g, <1>l, <1>o, <2>1, <2>2 DEF SpawnDone
<1>12. CASE Finish("exit", "exited")
  <2>1. stack # <<>> /\ Stmt.op = "exit"
    BY <1>12 DEF Finish, At
  <2>2. ~ Waits(Top) /\ Top.fn \in Blocks
    BY <2>1, QuietTop, WhereOps
  <2>3. lc' = [lc EXCEPT ![Top.fn] = 0] /\ ret' = "exited" /\ Leave(ret')
    BY <1>12 DEF Finish, Leave
  <2> QED BY <1>p, <1>l, <2>1, <2>2, <2>3
<1>13. CASE Finish("end", "ended")
  <2>1. stack # <<>> /\ Stmt.op = "end"
    BY <1>13 DEF Finish, At
  <2>2. ~ Waits(Top) /\ Top.fn \notin Programs
    BY <2>1, QuietTop, WhereOps, RecOfOne
  <2>3. lc' = [lc EXCEPT ![Top.fn] = 0] /\ ret' = "ended" /\ Leave(ret')
    BY <1>13 DEF Finish, Leave
  <2> QED BY <1>p, <1>l, <2>1, <2>2, <2>3
<1>14. CASE ClockCall
  <2>1. stack # <<>> /\ Stmt.op \in {"micros", "delay", "switch"}
    BY <1>14 DEF ClockCall, At
  <2>2. ~ Waits(Top) /\ ret = "none"
    BY <2>1, QuietTop
  <2> QED BY <1>14, <1>r, <1>l, <2>1, <2>2 DEF ClockCall
<1>15. CASE ClockReturned
  <2>1. stack # <<>> /\ Stmt.op \in {"micros", "delay", "switch"}
    BY <1>15 DEF ClockReturned, At
  <2>2. ~ Waits(Top) /\ ret = "none"
    BY <2>1, QuietTop
  <2> QED BY <1>15, <1>g, <1>l, <1>o, <2>1, <2>2 DEF ClockReturned
<1>16. CASE UNCHANGED threadVars
  <2>1. lc' = lc /\ stack' = stack /\ ret' = ret
    BY <1>16 DEF threadVars
  <2>2. StackInv'
    BY <2>1 DEF NestInv, StackInv, Waits, ChildOf, Body
  <2>3. RetInv' /\ LabelInv'
    BY <2>1 DEF NestInv, RetInv, LabelInv, Waits, Top, Stmt, Body
  <2>4. ASSUME NEW b \in Blocks
        PROVE  Started(b)' = Started(b)
    BY <2>1 DEF Started, Waits, ChildOf, FrameNow, OnStack, Frame, Body
  <2>5. BlockInv'
    BY <2>1, <2>4 DEF NestInv, BlockInv
  <2> QED BY <2>2, <2>3, <2>5 DEF NestInv
<1> QED
  BY <1>1, <1>2, <1>3, <1>4, <1>5, <1>6, <1>7, <1>8, <1>9, <1>10, <1>11, <1>12,
     <1>13, <1>14, <1>15, <1>16
  DEF ThreadsNext, ThreadStep, allVars

\* No function waits before the first call.
LEMMA NestInit == ThreadsInit => NestInv
<1> SUFFICES ASSUME ThreadsInit PROVE NestInv
  OBVIOUS
<1>1. stack = <<>> /\ \A b \in Blocks : lc[b] = 0
  BY RecOfOne DEF ThreadsInit
<1> QED BY <1>1 DEF NestInv, StackInv, RetInv, LabelInv, BlockInv

-----------------------------------------------------------------------------
\* How a step changes the call stacks, from how it changes the nodes.

\* There is one call stack at every node.
LEMMA OneChain ==
    ASSUME NEW n \in [Programs -> Nodes], NEW top \in Nat, NEW d, Deeper(n, d, top),
           NEW c, Chains(n, c), NEW e, Chains(n, e)
    PROVE  \A f \in Programs : e[f] = c[f]
<1> DEFINE T == {k \in Nat : \E f \in Programs : e[f] # c[f] /\ d[f] + k = top}
<1>d. \A f \in Programs : d[f] \in Nat /\ d[f] <= top
  BY DEF Deeper
<1>1. T = {}
  <2> SUFFICES ASSUME T # {} PROVE FALSE
    OBVIOUS
  <2>1. PICK k \in T : \A j \in T : k <= j
    <3>1. T \subseteq Nat
      OBVIOUS
    <3> HIDE DEF T
    <3> QED BY <3>1, LeastNat
  <2>2. PICK f \in Programs : e[f] # c[f] /\ d[f] + k = top
    OBVIOUS
  <2> DEFINE b == n[f].next
             j == top - d[b]
  <2>3. b \in Programs
    BY DEF Nodes
  <2>4. n[f].goes /\ e[b] # c[b]
    BY <2>2 DEF Chains
  <2>5. d[f] < d[b] /\ d[b] \in Nat /\ d[b] <= top /\ d[f] \in Nat
    BY <1>d, <2>3, <2>4 DEF Deeper
  <2>6. j \in Nat /\ d[b] + j = top /\ ~ (k <= j)
    BY <2>2, <2>5
  <2>7. j \in T
    BY <2>3, <2>4, <2>6
  <2> QED BY <2>1, <2>6, <2>7
<1>2. ASSUME NEW f \in Programs PROVE e[f] = c[f]
  <2>1. top - d[f] \in Nat /\ d[f] + (top - d[f]) = top
    BY <1>d
  <2>2. top - d[f] \notin T
    BY <1>1
  <2> QED BY <2>1, <2>2
<1> QED BY <1>2

\* The nodes before and after a step.
LEMMA CallsAreChainsNext ==
    NoRecursion /\ ControlInv' =>
       Chains(AllNodes', CallsFrom') /\ AllNodes' \in [Programs -> Nodes]
<1> DEFINE IsChain == Chains(AllNodes, CallsFrom)
           AreNodes == AllNodes \in [Programs -> Nodes]
<1>1. NoRecursion /\ ControlInv => IsChain /\ AreNodes
  BY CallsAreChains, NodesAre
<1> HIDE DEF IsChain, AreNodes
<1>2. NoRecursion' /\ ControlInv' => IsChain' /\ AreNodes'
  BY <1>1, PTL
<1>3. NoRecursion => NoRecursion'
  BY DEF NoRecursion, Programs, Spawns, Events
<1>4. IsChain' => Chains(AllNodes', CallsFrom')
  BY DEF IsChain, Chains, Programs, CallFrames, Events
<1>5. AreNodes' => AllNodes' \in [Programs -> Nodes]
  BY DEF AreNodes, Programs, Nodes, CallFrames, Events
<1> QED BY <1>2, <1>3, <1>4, <1>5

\* The nodes make chains that go down, before a step and after it.
LEMMA NodesNext ==
    ASSUME NoRecursion, ControlInv, ControlInv'
    PROVE  /\ AllNodes \in [Programs -> Nodes] /\ AllNodes' \in [Programs -> Nodes]
           /\ Chains(AllNodes, CallsFrom) /\ Chains(AllNodes', CallsFrom')
           /\ \E top \in Nat : \E d : Deeper(AllNodes, d, top)
           /\ \A f \in Programs : AllNodes[f] = Node(f) /\ AllNodes'[f] = Node(f)'
<1>4. PICK top \in Nat : \E d \in [Programs -> 0 .. top] :
                            \A f \in Programs : \A b \in Spawns(f) : d[f] < d[b]
  BY DEF NoRecursion
<1>5. \E d : Deeper(AllNodes, d, top)
  BY <1>4, NodesGoDown
<1>6. \A f \in Programs : AllNodes[f] = Node(f) /\ AllNodes'[f] = Node(f)'
  BY DEF AllNodes
<1> QED BY <1>4, <1>5, <1>6, CallsAreChains, NodesAre, CallsAreChainsNext

\* Where no node changes, no call stack does.
LEMMA SameCalls ==
    ASSUME NoRecursion, ControlInv, ControlInv',
           \A f \in Programs : Node(f)' = Node(f)
    PROVE  \A f \in Programs : CallsFrom'[f] = CallsFrom[f]
<1>1. AllNodes' = AllNodes
  BY DEF AllNodes
<1>2. PICK top \in Nat : \E d : Deeper(AllNodes, d, top)
  BY NodesNext
<1>3. PICK d : Deeper(AllNodes, d, top)
  BY <1>2
<1>4. Chains(AllNodes, CallsFrom) /\ Chains(AllNodes, CallsFrom')
      /\ AllNodes \in [Programs -> Nodes]
  BY <1>1, NodesNext
<1> QED BY <1>2, <1>3, <1>4, OneChain

\* The programs on the stack are those of one event.
LEMMA OnStackClosed ==
    ASSUME OneCaller, ControlInv, NestInv, NEW g \in Programs, Goes(g), OnStack(Spawned(g)) # {}
    PROVE  OnStack(g) # {}
<1> DEFINE b == Spawned(g)
<1>1. b \in Spawns(g) /\ b \in Blocks
  <2>1. FrameNow(g).at \in 1 .. Len(Body(g))
    BY FrameNowIs DEF Programs, Functions
  <2> QED BY <2>1, SpawnInCode DEF Spawned, Goes, Inside
<1>2. PICK i \in 1 .. Len(stack) : stack[i].fn = b
  BY DEF OnStack
<1> HIDE DEF b
<1>3. Len(stack) \in Nat
  BY DEF ControlInv
<1>4. i - 1 \in 1 .. Len(stack) /\ stack[i - 1].fn = Rec(b)
  BY <1>1, <1>2, <1>3, CallersAre DEF NestInv
<1> DEFINE j == (i - 1) - 1
<1>5. j \in 1 .. Len(stack) /\ stack[j].fn \in Programs /\ b \in Spawns(stack[j].fn)
  BY <1>1, <1>3, <1>4, CallersAre DEF NestInv
<1>6. stack[j].fn = g
  BY <1>1, <1>5 DEF OneCaller
<1> QED BY <1>5, <1>6 DEF OnStack

\* The event on the C stack is the one that was scheduled.
LEMMA EventOnStack ==
    ASSUME ControlInv, NestInv, NEW e \in Events, OnStack(e) # {}
    PROVE  stack # <<>> /\ e = stack[1].fn
<1>1. PICK i \in 1 .. Len(stack) : stack[i].fn = e
  BY DEF OnStack
<1>2. Len(stack) \in Nat
  BY DEF ControlInv
<1>3. i = 1
  <2> SUFFICES ASSUME i # 1 PROVE FALSE
    OBVIOUS
  <2>1. i - 1 \in 1 .. Len(stack) - 1 /\ i - 1 \in 1 .. Len(stack) /\ (i - 1) + 1 = i
    BY <1>1, <1>2
  <2>2. Waits(stack[i - 1]) /\ stack[i].fn = ChildOf(stack[i - 1])
    BY <2>1 DEF NestInv, StackInv
  <2>3. stack[i - 1] \in Frames
    BY <2>1 DEF ControlInv
  <2>4. ChildOf(stack[i - 1]) \notin Events
    BY <2>2, <2>3, ChildIs DEF Waits
  <2> QED BY <1>1, <2>2, <2>4
<1> QED BY <1>1, <1>3

\* Where the node of a program on the stack changes alone, no call stack but that of
\* the event that runs does, and it changes at that program.
LEMMA OneCallChanges ==
    ASSUME OneCaller, NoRecursion, ControlInv, NestInv, ControlInv',
           NEW f \in Programs, OnStack(f) # {},
           \A g \in Programs : g # f => Node(g)' = Node(g)
    PROVE  \A e \in Events :
              \/ CallsFrom'[e] = CallsFrom[e]
              \/ /\ e = stack[1].fn
                 /\ \E p \in Seq(CallFrames) : /\ CallsFrom[e] = p \o CallsFrom[f]
                                               /\ CallsFrom'[e] = p \o CallsFrom'[f]
<1> DEFINE Inner == {g \in Programs : OnStack(g) # {}}
<1>1. PICK top \in Nat : \E d : Deeper(AllNodes, d, top)
  BY NodesNext
<1>2. PICK d : Deeper(AllNodes, d, top)
  BY <1>1
<1>3. /\ Chains(AllNodes, CallsFrom) /\ Chains(AllNodes', CallsFrom')
      /\ AllNodes \in [Programs -> Nodes] /\ AllNodes' \in [Programs -> Nodes]
      /\ \A g \in Programs : g # f => AllNodes'[g] = AllNodes[g]
  BY NodesNext
<1>4. f \in Inner
  OBVIOUS
<1>5. \A g \in Programs : AllNodes[g].goes /\ AllNodes[g].next \in Inner => g \in Inner
  <2> SUFFICES ASSUME NEW g \in Programs, AllNodes[g].goes, AllNodes[g].next \in Inner
               PROVE  g \in Inner
    OBVIOUS
  <2>1. Goes(g) /\ AllNodes[g].next = Spawned(g)
    BY NodesNext DEF Node
  <2> QED BY <2>1, OnStackClosed
<1> HIDE DEF Inner
<1>9. Changes(AllNodes, AllNodes', CallsFrom, CallsFrom', f, Inner)
  BY <1>1, <1>2, <1>3, <1>4, <1>5 DEF Changes
<1>6. \A g \in Programs :
         \/ CallsFrom'[g] = CallsFrom[g]
         \/ /\ g \in Inner
            /\ \E p \in Seq(CallFrames) : /\ CallsFrom[g] = p \o CallsFrom[f]
                                          /\ CallsFrom'[g] = p \o CallsFrom'[f]
  BY <1>9, OneNodeChanges
<1>7. \A e \in Events : e \in Programs /\ (e \in Inner => e = stack[1].fn)
  BY EventOnStack DEF Programs, Inner
<1> QED BY <1>6, <1>7

\* A block that is over is what its caller takes for it.
LEMMA CallerKnows ==
    ASSUME NoRecursion, ControlInv, ControlInv',
           NEW f \in Programs, NEW b \in Programs, f # b,
           \A g \in Programs : g # f /\ g # b => Node(g)' = Node(g),
           ~ Node(f)'.goes, Node(f)'.own = CallsFrom[f],
           \A g \in Programs : g # f /\ Node(g).goes => Node(g).next # b
    PROVE  \A g \in Programs : g # b => CallsFrom'[g] = CallsFrom[g]
<1> DEFINE n == [AllNodes EXCEPT ![f] = AllNodes'[f]]
<1>1. PICK top \in Nat : \E d : Deeper(AllNodes, d, top)
  BY NodesNext
<1>2. PICK d : Deeper(AllNodes, d, top)
  BY <1>1
<1>3. /\ Chains(AllNodes, CallsFrom) /\ Chains(AllNodes', CallsFrom')
      /\ AllNodes \in [Programs -> Nodes] /\ AllNodes' \in [Programs -> Nodes]
      /\ \A g \in Programs : AllNodes[g] = Node(g) /\ AllNodes'[g] = Node(g)'
  BY NodesNext
<1>4. /\ n \in [Programs -> Nodes] /\ n[f] = AllNodes'[f]
      /\ \A g \in Programs : g # f => n[g] = AllNodes[g]
  BY <1>3
<1> HIDE DEF n
<1>5. Deeper(n, d, top)
  BY <1>2, <1>3, <1>4 DEF Deeper
<1>6. Chains(n, CallsFrom)
  BY <1>3, <1>4 DEF Chains
<1>7. \A g \in Programs : g # b => AllNodes'[g] = n[g]
  BY <1>3, <1>4
<1>8. \A g \in Programs : n[g].goes /\ n[g].next \in {b} => g \in {b}
  BY <1>3, <1>4
<1> DEFINE Inner == {b}
<1>9. Changes(n, AllNodes', CallsFrom, CallsFrom', b, Inner)
  BY <1>1, <1>3, <1>4, <1>5, <1>6, <1>7, <1>8 DEF Changes
<1>10. \A g \in Inner : g = b
  OBVIOUS
<1> HIDE DEF Inner
<1> QED BY <1>9, <1>10, OneNodeChanges

-----------------------------------------------------------------------------
\* The steps of the call stacks.

\* Another last frame of a call stack.
LEMMA LastFrame ==
    ASSUME NEW p \in Seq(CallFrames), NEW x \in CallFrames, NEW y \in CallFrames
    PROVE  [p \o <<x>> EXCEPT ![Len(p) + 1] = y] = p \o <<y>>
<1> DEFINE s == [p \o <<x>> EXCEPT ![Len(p) + 1] = y]
           u == p \o <<y>>
<1>1. s \in Seq(CallFrames) /\ Len(s) = Len(p) + 1
  OBVIOUS
<1>2. u \in Seq(CallFrames) /\ Len(u) = Len(p) + 1
  OBVIOUS
<1>3. ASSUME NEW i \in 1 .. Len(p) + 1
      PROVE  s[i] = u[i]
  <2>1. CASE i = Len(p) + 1
    BY <2>1
  <2>2. CASE i # Len(p) + 1
    <3>1. i \in 1 .. Len(p)
      BY <2>2
    <3>2. s[i] = (p \o <<x>>)[i]
      <4> DEFINE q == p \o <<x>>
      <4>1. q \in Seq(CallFrames) /\ Len(q) = Len(p) + 1
        OBVIOUS
      <4> HIDE DEF q
      <4>2. Len(p) + 1 \in 1 .. Len(q) /\ i \in 1 .. Len(q)
        BY <4>1
      <4>3. [q EXCEPT ![Len(p) + 1] = y][i] = q[i]
        BY <2>2, <4>1, <4>2, ExceptSeq
      <4> QED BY <4>3 DEF q
    <3> QED BY <3>1, <3>2
  <2> QED BY <2>1, <2>2
<1> HIDE DEF s, u
<1>4. s = u
  BY <1>1, <1>2, <1>3, SeqEqual
<1> QED BY <1>4 DEF s, u

\* Two frames, one after the other.
LEMMA TwoFrames ==
    ASSUME NEW S, NEW x \in S, NEW y \in S
    PROVE  <<x>> \o <<y>> = <<x, y>>
<1> DEFINE a == <<x>>
           b == <<y>>
           c == <<x, y>>
<1>1. /\ a \in Seq(S) /\ Len(a) = 1 /\ a[1] = x
      /\ b \in Seq(S) /\ Len(b) = 1 /\ b[1] = y
      /\ c \in Seq(S) /\ Len(c) = 2 /\ c[1] = x /\ c[2] = y
  OBVIOUS
<1> HIDE DEF a, b, c
<1>2. /\ a \o b \in Seq(S) /\ Len(a \o b) = 2
      /\ (a \o b)[1] = x /\ (a \o b)[2] = y
  BY <1>1, SMTT(30)
<1>3. \A i \in 1 .. 2 : i = 1 \/ i = 2
  OBVIOUS
<1>4. a \o b = c
  BY <1>1, <1>2, <1>3, SeqEqual
<1> QED BY <1>4 DEF a, b, c

AllCalls == [e \in Events |-> CallsFrom[e]]

\* A step changes the end of one call stack, from that of node f on.
ChangesAt(f) ==
    \A e \in Events :
       \/ CallsFrom'[e] = CallsFrom[e]
       \/ /\ e = stack[1].fn
          /\ \E p \in Seq(CallFrames) : /\ CallsFrom[e] = p \o CallsFrom[f]
                                        /\ CallsFrom'[e] = p \o CallsFrom'[f]

\* So one call stack changes, in its end, or none does.
LEMMA OneStack ==
    ASSUME NEW f, ChangesAt(f)
    PROVE  \/ AllCalls' = AllCalls
           \/ \E e \in Events : \E p \in Seq(CallFrames) :
                 /\ AllCalls[e] = p \o CallsFrom[f]
                 /\ AllCalls' = [AllCalls EXCEPT ![e] = p \o CallsFrom'[f]]
<1>e. Events' = Events
  BY DEF Events
<1>1. CASE \A e \in Events : CallsFrom'[e] = CallsFrom[e]
  BY <1>1, <1>e DEF AllCalls
<1>2. CASE ~ \A e \in Events : CallsFrom'[e] = CallsFrom[e]
  <2>1. PICK e \in Events : CallsFrom'[e] # CallsFrom[e]
    BY <1>2
  <2>2. PICK p \in Seq(CallFrames) : /\ CallsFrom[e] = p \o CallsFrom[f]
                                     /\ CallsFrom'[e] = p \o CallsFrom'[f]
    BY <2>1 DEF ChangesAt
  <2>3. \A g \in Events : g # e => CallsFrom'[g] = CallsFrom[g]
    BY <2>1 DEF ChangesAt
  <2>4. AllCalls' = [AllCalls EXCEPT ![e] = p \o CallsFrom'[f]]
    BY <1>e, <2>2, <2>3 DEF AllCalls
  <2> QED BY <2>2, <2>4 DEF AllCalls
<1> QED BY <1>1, <1>2

\* A statement that is no spawn.
LEMMA SimpleCall ==
    ASSUME NEW f \in Programs, ChangesAt(f), NEW k \in 1 .. Len(Code[f]),
           Code[f][k].op # "spawn",
           CallsFrom[f] = <<[fn |-> f, at |-> k]>>,
           CallsFrom'[f] = <<[fn |-> f, at |-> k + 1]>>
    PROVE  [Sequential!SeqNext]_AllCalls
<1>1. CASE AllCalls' = AllCalls
  BY <1>1
<1>2. CASE AllCalls' # AllCalls
  <2> DEFINE x == [fn |-> f, at |-> k]
             y == [fn |-> f, at |-> k + 1]
  <2>3. x \in CallFrames /\ y \in CallFrames /\ [x EXCEPT !.at = @ + 1] = y
        /\ x.fn = f /\ x.at = k
    BY DEF CallFrames
  <2>0. CallsFrom[f] = <<x>> /\ CallsFrom'[f] = <<y>>
    OBVIOUS
  <2> HIDE DEF x, y
  <2>1. PICK e \in Events : \E p \in Seq(CallFrames) :
           /\ AllCalls[e] = p \o <<x>> /\ AllCalls' = [AllCalls EXCEPT ![e] = p \o <<y>>]
    <3>1. \E e \in Events : \E p \in Seq(CallFrames) :
             /\ AllCalls[e] = p \o CallsFrom[f]
             /\ AllCalls' = [AllCalls EXCEPT ![e] = p \o CallsFrom'[f]]
      BY <1>2, OneStack
    <3> QED BY <2>0, <3>1
  <2>2. PICK p \in Seq(CallFrames) :
           /\ AllCalls[e] = p \o <<x>> /\ AllCalls' = [AllCalls EXCEPT ![e] = p \o <<y>>]
    BY <2>1
  <2>4. Sequential!Current(AllCalls[e]) = x
    <3>1. Len(p \o <<x>>) = Len(p) + 1 /\ (p \o <<x>>)[Len(p) + 1] = x
      BY <2>3
    <3> QED BY <2>2, <3>1 DEF Sequential!Current
  <2>5. Sequential!Advanced(AllCalls[e]) = p \o <<y>>
    <3> DEFINE s == p \o <<x>>
    <3>1. Len(s) = Len(p) + 1 /\ s[Len(p) + 1] = x
      BY <2>3
    <3>2. [s EXCEPT ![Len(p) + 1] = y] = p \o <<y>>
      BY <2>3, LastFrame
    <3> HIDE DEF s
    <3>3. Sequential!Advanced(s) = [s EXCEPT ![Len(p) + 1] = y]
      BY <2>3, <3>1 DEF Sequential!Advanced
    <3> QED BY <2>2, <3>2, <3>3 DEF s
  <2>6. Sequential!More(AllCalls[e]) /\ Sequential!Statement(AllCalls[e]).op # "spawn"
    BY <2>3, <2>4 DEF Sequential!More, Sequential!Statement
  <2>7. Sequential!Simple(e)
    BY <2>2, <2>5, <2>6 DEF Sequential!Simple, AllCalls
  <2> QED BY <2>7 DEF Sequential!SeqNext
<1> QED BY <1>1, <1>2

\* A spawn.
LEMMA SpawnedCall ==
    ASSUME NEW f \in Programs, ChangesAt(f), NEW k \in 1 .. Len(Code[f]), NEW b \in Programs,
           Code[f][k].op = "spawn", Code[f][k].of = b,
           CallsFrom[f] = <<[fn |-> f, at |-> k]>>,
           CallsFrom'[f] = <<[fn |-> f, at |-> k], [fn |-> b, at |-> 1]>>
    PROVE  [Sequential!SeqNext]_AllCalls
<1>1. CASE AllCalls' = AllCalls
  BY <1>1
<1>2. CASE AllCalls' # AllCalls
  <2> DEFINE x == [fn |-> f, at |-> k]
             y == [fn |-> b, at |-> 1]
  <2>1. x \in CallFrames /\ y \in CallFrames /\ x.fn = f /\ x.at = k
    BY DEF CallFrames
  <2>2. CallsFrom[f] = <<x>> /\ CallsFrom'[f] = <<x, y>> /\ y = Sequential!Start(b)
    BY DEF Sequential!Start
  <2> HIDE DEF x, y
  <2>3. PICK e \in Events : \E p \in Seq(CallFrames) :
           /\ AllCalls[e] = p \o <<x>> /\ AllCalls' = [AllCalls EXCEPT ![e] = p \o <<x, y>>]
    <3>1. \E e \in Events : \E p \in Seq(CallFrames) :
             /\ AllCalls[e] = p \o CallsFrom[f]
             /\ AllCalls' = [AllCalls EXCEPT ![e] = p \o CallsFrom'[f]]
      BY <1>2, OneStack
    <3> QED BY <2>2, <3>1
  <2>4. PICK p \in Seq(CallFrames) :
           /\ AllCalls[e] = p \o <<x>> /\ AllCalls' = [AllCalls EXCEPT ![e] = p \o <<x, y>>]
    BY <2>3
  <2>5. Sequential!Current(AllCalls[e]) = x
    <3>1. Len(p \o <<x>>) = Len(p) + 1 /\ (p \o <<x>>)[Len(p) + 1] = x
      BY <2>1
    <3> QED BY <2>4, <3>1 DEF Sequential!Current
  <2>6. /\ Sequential!More(AllCalls[e]) /\ Sequential!Statement(AllCalls[e]).op = "spawn"
        /\ Sequential!Statement(AllCalls[e]).of = b
    BY <2>1, <2>5 DEF Sequential!More, Sequential!Statement
  <2>7. Append(AllCalls[e], y) = p \o <<x, y>>
    <3>1. Append(p \o <<x>>, y) = p \o <<x, y>>
      BY <2>1
    <3> QED BY <2>4, <3>1
  <2>8. AllCalls' = [AllCalls EXCEPT
                        ![e] = Append(@, Sequential!Start(Sequential!Statement(@).of))]
    BY <2>2, <2>4, <2>6, <2>7
  <2>9. Sequential!Spawn(e)
    BY <2>6, <2>8 DEF Sequential!Spawn, AllCalls
  <2> QED BY <2>9 DEF Sequential!SeqNext
<1> QED BY <1>1, <1>2

\* The return of a block.
LEMMA ReturnedCall ==
    ASSUME NEW f \in Programs, ChangesAt(f), NEW k \in Nat, NEW b \in Blocks,
           CallsFrom[f] = <<[fn |-> f, at |-> k], [fn |-> b, at |-> Len(Code[b]) + 1]>>,
           CallsFrom'[f] = <<[fn |-> f, at |-> k + 1]>>
    PROVE  [Sequential!SeqNext]_AllCalls
<1>1. CASE AllCalls' = AllCalls
  BY <1>1
<1>2. CASE AllCalls' # AllCalls
  <2> DEFINE x == [fn |-> f, at |-> k]
             y == [fn |-> b, at |-> Len(Code[b]) + 1]
             z == [fn |-> f, at |-> k + 1]
  <2>1. /\ x \in CallFrames /\ y \in CallFrames /\ z \in CallFrames
        /\ y.fn = b /\ y.at = Len(Code[b]) + 1 /\ Len(Code[b]) \in Nat
        /\ [x EXCEPT !.at = @ + 1] = z
    BY BlockBody DEF CallFrames, Programs
  <2>2. CallsFrom[f] = <<x, y>> /\ CallsFrom'[f] = <<z>>
    OBVIOUS
  <2> HIDE DEF x, y, z
  <2>3. PICK e \in Events : \E p \in Seq(CallFrames) :
           /\ AllCalls[e] = p \o <<x, y>> /\ AllCalls' = [AllCalls EXCEPT ![e] = p \o <<z>>]
    <3>1. \E e \in Events : \E p \in Seq(CallFrames) :
             /\ AllCalls[e] = p \o CallsFrom[f]
             /\ AllCalls' = [AllCalls EXCEPT ![e] = p \o CallsFrom'[f]]
      BY <1>2, OneStack
    <3> QED BY <2>2, <3>1
  <2>4. PICK p \in Seq(CallFrames) :
           /\ AllCalls[e] = p \o <<x, y>> /\ AllCalls' = [AllCalls EXCEPT ![e] = p \o <<z>>]
    BY <2>3
  <2>5. /\ Len(p) \in Nat /\ Len(AllCalls[e]) = Len(p) + 2
        /\ AllCalls[e][Len(p) + 2] = y
        /\ SubSeq(AllCalls[e], 1, Len(p) + 1) = p \o <<x>>
    <3>1. /\ Len(p) \in Nat /\ Len(p \o <<x, y>>) = Len(p) + 2
          /\ (p \o <<x, y>>)[Len(p) + 2] = y
      BY <2>1
    <3>2. SubSeq(p \o <<x, y>>, 1, Len(p) + 1) = p \o <<x>>
      BY <2>1
    <3> QED BY <2>4, <3>1, <3>2
  <2>6. Len(AllCalls[e]) > 1 /\ Len(AllCalls[e]) - 1 = Len(p) + 1
    BY <2>5
  <2>7. ~ Sequential!More(AllCalls[e])
    BY <2>1, <2>5 DEF Sequential!More, Sequential!Current
  <2>8. Sequential!Advanced(p \o <<x>>) = p \o <<z>>
    <3> DEFINE s == p \o <<x>>
    <3>1. Len(s) = Len(p) + 1 /\ s[Len(p) + 1] = x
      BY <2>1
    <3>0. x \in CallFrames /\ z \in CallFrames
      BY <2>1
    <3>2. [s EXCEPT ![Len(p) + 1] = z] = p \o <<z>>
      BY <3>0, LastFrame
    <3> HIDE DEF s
    <3>3. Sequential!Advanced(s) = [s EXCEPT ![Len(p) + 1] = z]
      BY <2>1, <3>1 DEF Sequential!Advanced
    <3> QED BY <3>2, <3>3 DEF s
  <2>9. AllCalls' = [AllCalls EXCEPT ![e] = Sequential!Advanced(SubSeq(@, 1, Len(@) - 1))]
    BY <2>4, <2>5, <2>6, <2>8
  <2>10. Sequential!BlockReturns(e)
    BY <2>6, <2>7, <2>9 DEF Sequential!BlockReturns, AllCalls
  <2> QED BY <2>10 DEF Sequential!SeqNext
<1> QED BY <1>1, <1>2

-----------------------------------------------------------------------------
\* The nodes that a step of the threads changes.

\* A node stays if its function stays where it is and what it waits for does not end.
LEMMA NodeKept ==
    ASSUME ControlInv, NEW f \in Programs,
           FrameNow(f)'.at = FrameNow(f).at, Inside(f)' <=> Inside(f),
           Returned(f)' <=> Returned(f),
           \A b \in Blocks : Inside(f) /\ b = Spawned(f) => (BlockOver(b)' <=> BlockOver(b))
    PROVE  Node(f)' = Node(f)
<1>1. Position(f)' = Position(f) /\ Here(f)' = Here(f) /\ Spawned(f)' = Spawned(f)
  BY DEF Position, Here, Spawned, Body, Events
<1>2. Inside(f) => (BlockOver(Spawned(f))' <=> BlockOver(Spawned(f)))
  <2> SUFFICES ASSUME Inside(f) PROVE BlockOver(Spawned(f))' <=> BlockOver(Spawned(f))
    OBVIOUS
  <2>1. PICK b \in Blocks : b = Spawned(f)
    <3>1. FrameNow(f).at \in 1 .. Len(Body(f))
      BY FrameNowIs DEF Programs, Functions
    <3> QED BY <3>1, SpawnInCode DEF Spawned, Inside
  <2>2. BlockOver(b)' <=> BlockOver(Spawned(f))'
    BY <1>1, <2>1 DEF BlockOver
  <2> QED BY <2>1, <2>2
<1>3. Own(f)' = Own(f)
  BY <1>1, <1>2 DEF Own
<1>4. CASE Goes(f)
  <2>1. Goes(f)'
    BY <1>2, <1>4 DEF Goes
  <2> QED BY <1>1, <1>3, <1>4, <2>1 DEF Node, Goes
<1>5. CASE ~ Goes(f)
  <2>1. ~ Goes(f)'
    BY <1>2, <1>5 DEF Goes
  <2> QED BY <1>3, <1>5, <2>1 DEF Node, Goes
<1> QED BY <1>4, <1>5

\* Nothing has just ended.
Quiet == stack = <<>> \/ ret \notin {"ended", "exited"}

\* The same, in terms of positions, while nothing has just ended.
LEMMA QuietNode ==
    ASSUME ControlInv, NEW f \in Programs, Quiet, Quiet',
           FrameNow(f)'.at = FrameNow(f).at, Inside(f)' <=> Inside(f),
           \A b \in Blocks : Inside(f) /\ b = Spawned(f) =>
                                FrameNow(Rec(b))'.at = FrameNow(Rec(b)).at
    PROVE  Node(f)' = Node(f)
<1>1. ~ Returned(f) /\ ~ Returned(f)'
  BY DEF Quiet, Returned
<1>2. ASSUME NEW b \in Blocks, Inside(f), b = Spawned(f)
      PROVE  BlockOver(b)' <=> BlockOver(b)
  BY <1>2 DEF BlockOver, Quiet
<1> QED BY <1>1, <1>2, NodeKept

\* The call stack at a node.
LEMMA CallsHere ==
    ASSUME NoRecursion, ControlInv, ControlInv', NEW f \in Programs
    PROVE  /\ ~ Goes(f) => CallsFrom[f] = Own(f)
           /\ ~ Goes(f)' => CallsFrom'[f] = Own(f)'
           /\ Goes(f) => CallsFrom[f] = Own(f) \o CallsFrom[Spawned(f)]
           /\ Goes(f)' => CallsFrom'[f] = Own(f)' \o CallsFrom'[Spawned(f)']
<1>1. /\ CallsFrom[f] = IF AllNodes[f].goes THEN AllNodes[f].own \o CallsFrom[AllNodes[f].next]
                        ELSE AllNodes[f].own
      /\ CallsFrom'[f] =
           IF AllNodes'[f].goes THEN AllNodes'[f].own \o CallsFrom'[AllNodes'[f].next]
           ELSE AllNodes'[f].own
      /\ AllNodes[f] = Node(f) /\ AllNodes'[f] = Node(f)'
  BY NodesNext DEF Chains
<1>2. /\ Node(f).own = Own(f) /\ Node(f).goes = Goes(f)
      /\ Goes(f) => Node(f).next = Spawned(f)
      /\ Node(f)'.own = Own(f)' /\ Node(f)'.goes = Goes(f)'
      /\ Goes(f)' => Node(f)'.next = Spawned(f)'
  BY DEF Node
<1> QED BY <1>1, <1>2

\* Where no node changes the call stacks do not.
LEMMA Stutters ==
    ASSUME NoRecursion, ControlInv, ControlInv',
           \A f \in Programs : Node(f)' = Node(f)
    PROVE  [Sequential!SeqNext]_AllCalls
<1>1. \A e \in Events : CallsFrom'[e] = CallsFrom[e]
  BY SameCalls DEF Programs
<1>2. AllCalls' = AllCalls
  BY <1>1 DEF AllCalls, Events
<1> QED BY <1>2

\* Neither do they where all functions are where they were.
LEMMA NothingMoves ==
    ASSUME NoRecursion, ControlInv, ControlInv', Quiet, Quiet',
           \A g \in Functions : /\ FrameNow(g)'.at = FrameNow(g).at
                                /\ g \in Programs => (Inside(g)' <=> Inside(g))
    PROVE  [Sequential!SeqNext]_AllCalls
<1>1. \A g \in Programs : g \in Functions
  BY DEF Programs, Functions
<1>2. \A b \in Blocks : Rec(b) \in Functions
  BY RecOfOne
<1>3. \A b \in Blocks : FrameNow(Rec(b))'.at = FrameNow(Rec(b)).at
  BY <1>2
<1>4. \A f \in Programs : Node(f)' = Node(f)
  BY <1>1, <1>3, QuietNode
<1> QED BY <1>4, Stutters

\* A program goes on, and no other function moves.
LEMMA GoesOnAlone ==
    ASSUME ControlInv, NestInv, stack # <<>>, Stmt.op \in Ops, GoOn,
           \A g \in Functions : g # Top.fn => lc'[g] = lc[g]
    PROVE  /\ stack' # <<>> /\ Top' = NextFrame /\ Top'.fn = Top.fn
           /\ FrameNow(Top.fn) = Top
           /\ \A g \in Functions : g = Top.fn => FrameNow(g)' = NextFrame
           /\ \A g \in Functions : g # Top.fn => FrameNow(g)' = FrameNow(g)
           /\ OnStack(Top.fn) # {}
<1>1. /\ NextFrame \in Frames /\ NextFrame.fn = Top.fn
      /\ stack' = [stack EXCEPT ![Len(stack)] = NextFrame]
  BY GoesOn
<1>2. Len(stack) \in OnStack(Top.fn)
  BY DEF OnStack, Top, ControlInv
<1> QED BY <1>1, <1>2, Replaced DEF NestInv

\* A statement that is no spawn: the block's first yield belongs to its begin.
LEMMA StatementDone ==
    ASSUME OneCaller, NoRecursion, ControlInv, NestInv, ControlInv', stack # <<>>,
           Stmt.op \in Ops, Stmt.op # "spawn", GoOn, ret' = ret,
           \A g \in Functions : g # Top.fn => lc'[g] = lc[g]
    PROVE  [Sequential!SeqNext]_AllCalls
<1>1. Top.fn \in Programs /\ Top.fn \in Functions /\ Top.at \in Nat \ {0} /\ Stmt.op \notin LastOps
  <2>1. Stmt.op \notin LastOps
    BY DEF Ops, LastOps
  <2>2. Top.fn \in Functions /\ Top.at \in 1 .. Len(Body(Top.fn)) /\ Top.at \in Nat
    BY TopIs
  <2> QED BY <2>1, <2>2, WhereOps DEF LastOps
<1>2. PICK f \in Programs : f = Top.fn
  BY <1>1
<1>3. ret = "none"
  BY QuietTop
<1>4. Quiet /\ Quiet'
  BY <1>3 DEF Quiet
<1>5. /\ FrameNow(f) = Top /\ FrameNow(f)' = NextFrame /\ OnStack(f) # {}
      /\ \A g \in Functions : g # f => FrameNow(g)' = FrameNow(g)
  BY <1>1, <1>2, GoesOnAlone
<1>6. ASSUME NEW g \in Programs, g # f
      PROVE  Node(g)' = Node(g)
  <2>1. g \in Functions /\ \A b \in Blocks : Rec(b) \in Functions /\ Rec(b) # f
    BY RecOfOne DEF Programs, Functions
  <2>2. FrameNow(g)' = FrameNow(g) /\ \A b \in Blocks : FrameNow(Rec(b))' = FrameNow(Rec(b))
    BY <1>5, <1>6, <2>1
  <2>3. Inside(g)' <=> Inside(g)
    BY <2>2 DEF Inside, Body
  <2> QED BY <1>4, <2>2, <2>3, QuietNode
<1>7. ~ Inside(f) /\ ~ Inside(f)'
  <2>1. ~ NextFrame.byGoto
    BY GoesOn
  <2> QED BY <1>2, <1>5, <2>1 DEF Inside, Stmt
<1>8. ~ Goes(f) /\ ~ Goes(f)' /\ Own(f) = <<Here(f)>> /\ Own(f)' = <<Here(f)'>>
  BY <1>7 DEF Goes, Own
<1>9. CallsFrom[f] = <<Here(f)>> /\ CallsFrom'[f] = <<Here(f)'>>
  BY <1>8, CallsHere
<1>10. ChangesAt(f)
  BY <1>5, <1>6, OneCallChanges DEF ChangesAt
<1>11. FrameNow(f).at = Top.at /\ FrameNow(f)'.at = Top.at + 1
  BY <1>5, GoesOn
<1>12. CASE f \in Events
  <2>1. Position(f) = Top.at /\ Position(f)' = Top.at + 1
    BY <1>11, <1>12, FunctionsDiffer DEF Position
  <2>2. Top.at \in 1 .. Len(Code[f]) /\ Code[f][Top.at].op # "spawn"
    BY <1>1, <1>2, <1>12, WhereOps
  <2>3. PICK k \in 1 .. Len(Code[f]) : k = Top.at
    BY <2>2
  <2>4. CallsFrom[f] = <<[fn |-> f, at |-> k]>> /\ CallsFrom'[f] = <<[fn |-> f, at |-> k + 1]>>
    BY <1>9, <2>1, <2>3 DEF Here
  <2> QED BY <1>10, <2>2, <2>3, <2>4, SimpleCall
<1>13. CASE f \in Blocks /\ Top.at = 1
  <2>1. Position(f)' = Position(f)
    BY <1>11, <1>13 DEF Position
  <2>2. Node(f)' = Node(f)
    BY <1>8, <2>1 DEF Node, Here, Goes
  <2> QED BY <1>6, <2>2, Stutters
<1>14. CASE f \in Blocks /\ Top.at # 1
  <2>1. /\ Top.at > 1 /\ Top.at - 1 \in 1 .. Len(Code[f])
        /\ Code[f][Top.at - 1].op # "spawn"
    BY <1>1, <1>2, <1>14, WhereOps
  <2>2. PICK k \in 1 .. Len(Code[f]) : k = Top.at - 1
    BY <2>1
  <2>3. Position(f) = k /\ Position(f)' = k + 1
    BY <1>1, <1>11, <1>14, <2>1, <2>2 DEF Position
  <2>4. CallsFrom[f] = <<[fn |-> f, at |-> k]>> /\ CallsFrom'[f] = <<[fn |-> f, at |-> k + 1]>>
    BY <1>9, <2>3 DEF Here
  <2> QED BY <1>10, <2>1, <2>2, <2>4, SimpleCall
<1> QED BY <1>2, <1>12, <1>13, <1>14 DEF Programs

\* A program spawns a block: the block begins at its first statement.
LEMMA SpawnBegins ==
    ASSUME OneCaller, NoRecursion, ControlInv, NestInv, ControlInv', SpawnStart,
           Top.fn \in Programs
    PROVE  [Sequential!SeqNext]_AllCalls
<1>1. stack # <<>> /\ Stmt.op = "spawn" /\ ~ Top.byGoto
  BY DEF SpawnStart, At
<1>2. /\ Top \in Frames /\ Top.fn \in Functions /\ Top.at \in Nat
      /\ Len(stack) \in OnStack(Top.fn)
  <2>1. Len(stack) \in 1 .. Len(stack)
    BY <1>1 DEF ControlInv
  <2> QED BY <1>1, <2>1, TopIs DEF OnStack, Top
<1>3. PICK f \in Programs : f = Top.fn
  OBVIOUS
<1>4. PICK b \in Blocks : b = Stmt.of /\ ~ Started(b) /\ lc[b] = 0
  BY <1>1, NotStarted
<1>5. Child = Rec(b) /\ b \in Spawns(f) /\ OnStack(Rec(b)) = {}
  <2>1. Child = ChildOf(Top) /\ OnStack(Child) = {}
    BY <1>1, ChildIsOff DEF NestInv
  <2>2. ChildOf(Top) = Rec(b) /\ b \in Spawns(f)
    BY <1>1, <1>2, <1>3, <1>4, ChildIs DEF Stmt
  <2> QED BY <2>1, <2>2
<1>6. Rec(b) \in Functions /\ Rec(b) # f /\ b # f /\ b \in Functions /\ b \in Programs
  <2>1. PICK top \in Nat : \E d \in [Programs -> 0 .. top] :
                              \A g \in Programs : \A c \in Spawns(g) : d[g] < d[c]
    BY DEF NoRecursion
  <2>2. PICK d \in [Programs -> 0 .. top] :
                \A g \in Programs : \A c \in Spawns(g) : d[g] < d[c]
    BY <2>1
  <2>3. d[f] < d[b] /\ d[f] \in Nat
    BY <1>5, <2>2
  <2>4. b # f
    BY <2>3
  <2> QED BY <2>4, RecOfOne DEF Programs
<1>7. lc'[f] = Top.at /\ lc'[Rec(b)] = 0 /\ \A g \in Functions : g # f /\ g # Rec(b) => lc'[g] = lc[g]
  BY <1>2, <1>3, <1>5, <1>6 DEF SpawnStart, ControlInv
<1>8. /\ GotoFrame.at = Top.at /\ GotoFrame.fn = f /\ GotoFrame.byGoto
      /\ stack' # <<>> /\ Top' = GotoFrame /\ FrameNow(f) = Top /\ FrameNow(f)' = GotoFrame
      /\ \A g \in Functions : OnStack(g)' = OnStack(g)
      /\ \A g \in Functions : g # f /\ g # Rec(b) => FrameNow(g)' = FrameNow(g)
  <2>1. /\ GotoFrame \in Frames /\ GotoFrame.fn = Top.fn /\ GotoFrame.at = Top.at
        /\ GotoFrame.byGoto /\ stack' = [stack EXCEPT ![Len(stack)] = GotoFrame]
    BY <1>1, Relabelled DEF SpawnStart
  <2>2. /\ stack' # <<>> /\ Top' = GotoFrame /\ FrameNow(Top.fn) = Top
        /\ \A g \in Functions : g = Top.fn => FrameNow(g)' = GotoFrame
        /\ \A g \in Functions : OnStack(g)' = OnStack(g)
        /\ \A g \in Functions :
              g # Top.fn /\ (lc'[g] = lc[g] \/ OnStack(g) # {}) => FrameNow(g)' = FrameNow(g)
    BY <1>1, <2>1, Replaced DEF NestInv
  <2> QED BY <1>2, <1>3, <1>7, <2>1, <2>2
<1>9. FrameNow(Rec(b))'.at = 1
  <2>1. OnStack(Rec(b))' = {}
    BY <1>5, <1>6, <1>8
  <2> QED BY <1>7, <2>1 DEF FrameNow, Frame
<1>10. ret = "none" /\ ret' = "none" /\ Quiet /\ Quiet'
  <2>1. ret = "none"
    BY <1>1, QuietTop
  <2> QED BY <2>1 DEF SpawnStart, Quiet
<1>11. ASSUME NEW g \in Programs, g # f
       PROVE  Node(g)' = Node(g)
  <2>1. g \in Functions /\ g # Rec(b)
    BY RecOfOne DEF Programs, Functions
  <2>2. FrameNow(g)' = FrameNow(g)
    BY <1>8, <1>11, <2>1
  <2>3. Inside(g)' <=> Inside(g)
    BY <2>2 DEF Inside, Body
  <2>4. ASSUME NEW c \in Blocks, Inside(g), c = Spawned(g)
        PROVE  FrameNow(Rec(c))' = FrameNow(Rec(c))
    <3>1. FrameNow(g).at \in 1 .. Len(Body(g))
      BY <2>1, FrameNowIs
    <3>2. c \in Spawns(g)
      BY <2>4, <3>1, SpawnInCode DEF Inside, Spawned
    <3>3. c # b
      BY <1>5, <1>11, <3>2 DEF OneCaller
    <3>4. Rec(c) \in Functions /\ Rec(c) # f /\ Rec(c) # Rec(b)
      BY <3>3, RecOfOne
    <3> QED BY <1>8, <3>4
  <2> QED BY <1>10, <2>2, <2>3, <2>4, QuietNode
<1>12. ChangesAt(f)
  BY <1>2, <1>3, <1>11, OneCallChanges DEF ChangesAt
<1>13. CallsFrom'[b] = <<[fn |-> b, at |-> 1]>>
  <2>1. OnStack(b) = {}
    BY <1>4, OnStackStarted DEF NestInv
  <2>2. FrameNow(b)' = FrameNow(b) /\ FrameNow(b).at = 1 /\ ~ FrameNow(b).byGoto
    BY <1>4, <1>6, <1>8, <2>1, RecOfOne DEF FrameNow, Frame
  <2>3. ~ Inside(b)' /\ Position(b)' = 1
    BY <2>2 DEF Inside, Position
  <2>4. ~ Goes(b)' /\ Own(b)' = <<[fn |-> b, at |-> 1]>>
    BY <2>3 DEF Goes, Own, Here
  <2> QED BY <1>6, <2>4, CallsHere
<1>14. CallsFrom[f] = <<Here(f)>>
  <2>1. ~ Inside(f)
    BY <1>1, <1>3, <1>8 DEF Inside
  <2>2. ~ Goes(f) /\ Own(f) = <<Here(f)>>
    BY <2>1 DEF Goes, Own
  <2> QED BY <2>2, CallsHere
<1>15. CallsFrom'[f] = <<Here(f), [fn |-> b, at |-> 1]>>
  <2>1. Inside(f)' /\ Spawned(f)' = b /\ Here(f)' = Here(f)
    BY <1>1, <1>3, <1>4, <1>8 DEF Inside, Spawned, Here, Position, Stmt, Body, Events
  <2>2. ~ Returned(f)' /\ ~ BlockOver(b)'
    BY <1>9, <1>10 DEF Returned, BlockOver
  <2>3. ~ BlockOver(Spawned(f))'
    BY <2>1, <2>2 DEF BlockOver
  <2>4. Goes(f)' /\ Own(f)' = <<Here(f)'>>
    BY <2>1, <2>2, <2>3 DEF Goes, Own
  <2>5. CallsFrom'[f] = <<Here(f)>> \o CallsFrom'[b]
    BY <2>1, <2>4, CallsHere
  <2> DEFINE x == Here(f)
             y == [fn |-> b, at |-> 1]
  <2>6. CallsFrom'[f] = <<x>> \o <<y>>
    BY <1>13, <2>5
  <2> HIDE DEF x, y
  <2>7. <<x>> \o <<y>> = <<x, y>>
    <3>1. x \in {x, y} /\ y \in {x, y}
      OBVIOUS
    <3> QED BY <3>1, TwoFrames
  <2> QED BY <2>6, <2>7 DEF x, y
<1>16. \E k \in 1 .. Len(Code[f]) : Code[f][k] = Stmt /\ Position(f) = k
  <2>1. Stmt.op \notin LastOps
    BY <1>1 DEF LastOps
  <2>2. FrameNow(f).at = Top.at
    BY <1>8
  <2>3. CASE f \in Events
    <3>1. Top.at \in 1 .. Len(Code[f]) /\ Code[f][Top.at] = Stmt
      BY <1>1, <1>3, <2>1, <2>3, WhereOps
    <3>2. Position(f) = Top.at
      BY <2>2, <2>3, FunctionsDiffer DEF Position
    <3> QED BY <3>1, <3>2
  <2>4. CASE f \in Blocks
    <3>1. Top.at > 1 /\ Top.at - 1 \in 1 .. Len(Code[f]) /\ Code[f][Top.at - 1] = Stmt
      BY <1>1, <1>3, <2>1, <2>4, WhereOps
    <3>2. Position(f) = Top.at - 1
      BY <2>2, <2>4, <3>1 DEF Position
    <3> QED BY <3>1, <3>2
  <2> QED BY <2>3, <2>4 DEF Programs
<1>17. PICK k \in 1 .. Len(Code[f]) : Code[f][k] = Stmt /\ Position(f) = k
  BY <1>16
<1>18. /\ Code[f][k].op = "spawn" /\ Code[f][k].of = b
       /\ CallsFrom[f] = <<[fn |-> f, at |-> k]>>
       /\ CallsFrom'[f] = <<[fn |-> f, at |-> k], [fn |-> b, at |-> 1]>>
  BY <1>1, <1>4, <1>14, <1>15, <1>17 DEF Here
<1> QED BY <1>6, <1>12, <1>18, SpawnedCall

\* The spawn of a program is over: it goes on where it was taken to be.
LEMMA SpawnEnds ==
    ASSUME OneCaller, NoRecursion, ControlInv, NestInv, ControlInv', SpawnDone,
           Top.fn \in Programs
    PROVE  [Sequential!SeqNext]_AllCalls
<1>1. /\ stack # <<>> /\ Stmt.op = "spawn" /\ Top.byGoto /\ GoOn /\ ret' = "none"
      /\ lc' = lc /\ Stmt.op \in Ops /\ Stmt.op \notin LastOps
  BY DEF SpawnDone, At, Ops, LastOps
<1>2. ret = "ended"
  BY <1>1 DEF NestInv, RetInv, SpawnDone, Running
<1>3. PICK f \in Programs : f = Top.fn
  OBVIOUS
<1>4. /\ stack' # <<>> /\ Top'.fn = f /\ FrameNow(f) = Top /\ FrameNow(f)' = NextFrame
      /\ \A g \in Functions : g # f => FrameNow(g)' = FrameNow(g)
  BY <1>1, <1>3, GoesOnAlone, TopIs
<1>5. ASSUME NEW g \in Programs, g # f
      PROVE  Node(g)' = Node(g)
  <2>1. g \in Functions /\ \A b \in Blocks : Rec(b) \in Functions /\ Rec(b) # f
    BY RecOfOne DEF Programs, Functions
  <2>2. FrameNow(g)' = FrameNow(g) /\ \A b \in Blocks : FrameNow(Rec(b))' = FrameNow(Rec(b))
    BY <1>4, <1>5, <2>1
  <2>3. Inside(g)' <=> Inside(g)
    BY <2>2 DEF Inside, Body
  <2>4. ~ Returned(g) /\ ~ Returned(g)'
    BY <1>3, <1>4, <1>5 DEF Returned
  <2>5. \A b \in Blocks : BlockOver(b)' <=> BlockOver(b)
    BY <1>3, <1>4, <2>1, <2>2 DEF BlockOver
  <2> QED BY <2>2, <2>3, <2>4, <2>5, NodeKept
<1>6. Node(f)' = Node(f)
  <2>1. Inside(f) /\ Returned(f)
    BY <1>1, <1>2, <1>3, <1>4 DEF Inside, Returned, Stmt
  <2>2. ~ Inside(f)'
    BY <1>1, <1>4, GoesOn DEF Inside
  <2>3. Position(f)' = Position(f) + 1
    <3>1. FrameNow(f).at = Top.at /\ FrameNow(f)'.at = Top.at + 1
      BY <1>1, <1>4, GoesOn
    <3>2. f \in Blocks => Top.at > 1 /\ Top.at \in Nat
      BY <1>1, <1>3, WhereOps, TopIs
    <3>3. CASE f \in Blocks
      BY <3>1, <3>2, <3>3 DEF Position
    <3>4. CASE f \notin Blocks
      BY <3>1, <3>4 DEF Position
    <3> QED BY <3>3, <3>4
  <2>4. Own(f) = <<[fn |-> f, at |-> Position(f) + 1]>> /\ ~ Goes(f)
    BY <2>1 DEF Own, Goes
  <2>5. Own(f)' = <<[fn |-> f, at |-> Position(f) + 1]>> /\ ~ Goes(f)'
    BY <2>2, <2>3 DEF Own, Goes, Here
  <2> QED BY <2>4, <2>5 DEF Node, Goes
<1> QED BY <1>5, <1>6, Stutters

\* The function added to a block knows that the block is over, before and after.
LEMMA RecGoesOn ==
    ASSUME OneCaller, NoRecursion, ControlInv, NestInv, ControlInv', SpawnDone,
           Top.fn \notin Programs
    PROVE  [Sequential!SeqNext]_AllCalls
<1>1. /\ stack # <<>> /\ Stmt.op = "spawn" /\ GoOn /\ lc' = lc /\ Stmt.op \in Ops
      /\ ret' = "none"
  BY DEF SpawnDone, At, Ops
<1>2. ret = "exited"
  BY <1>1 DEF NestInv, RetInv, SpawnDone, Running
<1>3. PICK b \in Blocks : Top.fn = Rec(b) /\ Top.at = 1
  BY <1>1, TopIs, ChildIs DEF Stmt
<1>4. Rec(b) \in Functions /\ Rec(b) \notin Programs
  BY RecOfOne
<1>5. /\ stack' # <<>> /\ Top'.fn = Rec(b) /\ FrameNow(Rec(b))' = NextFrame
      /\ \A g \in Functions : g # Rec(b) => FrameNow(g)' = FrameNow(g)
  BY <1>1, <1>3, <1>4, GoesOnAlone
<1>6. NextFrame.at = 2
  BY <1>1, <1>3, GoesOn
<1>7. ASSUME NEW g \in Programs
      PROVE  Node(g)' = Node(g)
  <2>1. g \in Functions /\ g # Rec(b)
    BY <1>4 DEF Programs, Functions
  <2>2. FrameNow(g)' = FrameNow(g)
    BY <1>5, <2>1
  <2>3. Inside(g)' <=> Inside(g)
    BY <2>2 DEF Inside, Body
  <2>4. ~ Returned(g) /\ ~ Returned(g)'
    BY <1>3, <1>5, <2>1 DEF Returned
  <2>5. ASSUME NEW c \in Blocks
        PROVE  BlockOver(c)' <=> BlockOver(c)
    <3>1. CASE c = b
      <4>1. BlockOver(c)
        BY <1>1, <1>2, <1>3, <3>1 DEF BlockOver
      <4>2. BlockOver(c)'
        BY <1>5, <1>6, <3>1 DEF BlockOver
      <4> QED BY <4>1, <4>2
    <3>2. CASE c # b
      <4>1. Rec(c) \in Functions /\ Rec(c) # Rec(b)
        BY <3>2, RecOfOne
      <4>2. FrameNow(Rec(c))' = FrameNow(Rec(c))
        BY <1>5, <4>1
      <4> QED BY <1>3, <1>5, <4>1, <4>2 DEF BlockOver
    <3> QED BY <3>1, <3>2
  <2> QED BY <2>2, <2>3, <2>4, <2>5, NodeKept
<1> QED BY <1>7, Stutters

\* A block is over, and the program that waits for it takes it for that.
LEMMA BlockEnds ==
    ASSUME OneCaller, NoRecursion, ControlInv, NestInv, ControlInv', Finish("exit", "exited")
    PROVE  [Sequential!SeqNext]_AllCalls
<1>1. /\ stack # <<>> /\ Stmt.op = "exit" /\ stack' = SubSeq(stack, 1, Len(stack) - 1)
      /\ ret' = "exited" /\ lc' = [lc EXCEPT ![Top.fn] = 0]
  BY DEF Finish, At, Leave
<1>2. ret = "none"
  BY <1>1, QuietTop
<1>3. PICK b \in Blocks : b = Top.fn /\ Top.at = Len(Code[b]) + 2
  BY <1>1, WhereOps
<1>4. Len(stack) \in 1 .. Len(stack) /\ Top = stack[Len(stack)] /\ Top \in Frames
      /\ Len(stack) \in Nat
  <2>1. Len(stack) \in Nat \ {0}
    BY <1>1 DEF ControlInv
  <2> QED BY <1>1, <2>1, TopIs DEF Top
<1> DEFINE i == Len(stack) - 1
           j == i - 1
<1>5. i \in 1 .. Len(stack) /\ stack[i].fn = Rec(b) /\ Waits(stack[i])
  BY <1>3, <1>4, CallersAre DEF NestInv
<1>6. /\ j \in 1 .. Len(stack) /\ stack[j].fn \in Programs /\ b \in Spawns(stack[j].fn)
      /\ Waits(stack[j]) /\ ChildOf(stack[j]) = Rec(b)
  BY <1>4, <1>5, CallersAre DEF NestInv
<1>7. j # Len(stack) /\ i # Len(stack)
  BY <1>4
<1>8. FrameNow(stack[j].fn) = stack[j] /\ FrameNow(Rec(b)) = stack[i]
  BY <1>5, <1>6, FrameOnStack DEF NestInv
<1>9. stack[j].fn # b
  BY <1>3, <1>4, <1>6, <1>7 DEF NestInv, StackInv
<1>10. PICK f \in Programs : f = stack[j].fn
  BY <1>6
<1>11. b \in Programs /\ b \in Functions /\ Rec(b) \in Functions /\ b # Rec(b)
  BY RecOfOne DEF Programs
<1>12. /\ stack' # <<>> /\ Top' = stack[i]
       /\ FrameNow(b) = Top
       /\ \A g \in Functions : g # b => FrameNow(g)' = FrameNow(g)
  <2>1. Len(stack') = i
    BY <1>1, Popped DEF NestInv
  <2>2. stack' # <<>>
    <3>1. stack' \in Seq(Frames) /\ Len(stack') # 0
      BY <1>4, <1>5, <2>1 DEF ControlInv
    <3> QED BY <3>1
  <2>3. \A g \in Functions : g # b => lc'[g] = lc[g]
    BY <1>1, <1>3 DEF ControlInv
  <2> QED BY <1>1, <1>3, <2>2, <2>3, Popped DEF NestInv
<1>13. Top'.fn = Rec(b) /\ ret' = "exited"
  BY <1>1, <1>5, <1>12
<1>14. f \in Functions /\ f # b /\ FrameNow(f)' = FrameNow(f)
  BY <1>9, <1>10, <1>12 DEF Programs, Functions
<1>15. Inside(f) /\ Spawned(f) = b /\ Inside(f)' /\ Spawned(f)' = b /\ Here(f)' = Here(f)
  <2>1. stack[j] \in Frames
    BY <1>6 DEF ControlInv
  <2>2. Body(f)[stack[j].at].of = b
    BY <1>6, <1>10, <2>1, ChildIs, RecOfOne DEF Waits
  <2>3. Inside(f) /\ Spawned(f) = b
    BY <1>6, <1>8, <1>10, <2>2 DEF Inside, Spawned, Waits
  <2> QED BY <1>14, <2>3 DEF Inside, Spawned, Here, Position, Body, Events
<1>16. FrameNow(Rec(b)).at = 1 /\ FrameNow(Rec(b))'.at = 1
  <2>1. stack[i] \in Frames
    BY <1>5 DEF ControlInv
  <2>2. stack[i].at = 1
    BY <1>5, <1>11, <2>1, RecOfOne, ChildIs DEF Waits
  <2> QED BY <1>8, <1>11, <1>12, <2>2
<1>17. /\ ~ Returned(f) /\ ~ Returned(f)' /\ ~ BlockOver(b) /\ BlockOver(b)'
  BY <1>2, <1>12, <1>13, <1>16 DEF Returned, BlockOver
<1>18. Goes(f) /\ Own(f) = <<Here(f)>>
  BY <1>15, <1>17 DEF Goes, Own
<1>19. CallsFrom[b] = <<[fn |-> b, at |-> Len(Code[b]) + 1]>>
  <2>1. ~ Inside(b)
    BY <1>1, <1>3, <1>12 DEF Inside, Stmt
  <2>2. Position(b) = Len(Code[b]) + 1
    BY <1>3, <1>12, BlockBody DEF Position
  <2>3. ~ Goes(b) /\ Own(b) = <<[fn |-> b, at |-> Len(Code[b]) + 1]>>
    BY <2>1, <2>2 DEF Goes, Own, Here
  <2> QED BY <1>11, <2>3, CallsHere
<1>20. CallsFrom[f] = <<Here(f), [fn |-> b, at |-> Len(Code[b]) + 1]>>
  <2> DEFINE x == Here(f)
             y == [fn |-> b, at |-> Len(Code[b]) + 1]
  <2>1. CallsFrom[f] = <<x>> \o <<y>>
    BY <1>15, <1>18, <1>19, CallsHere
  <2> HIDE DEF x, y
  <2>2. <<x>> \o <<y>> = <<x, y>>
    <3>1. x \in {x, y} /\ y \in {x, y}
      OBVIOUS
    <3> QED BY <3>1, TwoFrames
  <2> QED BY <2>1, <2>2 DEF x, y
<1>21. ~ Goes(f)' /\ Own(f)' = <<Here(f), [fn |-> b, at |-> Len(Code[b]) + 1]>>
  <2>1. BlockOver(Spawned(f))'
    BY <1>15, <1>17 DEF BlockOver
  <2> QED BY <1>15, <1>17, <2>1 DEF Goes, Own
<1>22. ASSUME NEW g \in Programs, g # f
       PROVE  Inside(g) => Spawned(g) \in Blocks /\ Spawned(g) # b
  <2>1. FrameNow(g).at \in 1 .. Len(Body(g))
    BY FrameNowIs DEF Programs, Functions
  <2>2. Inside(g) => Spawned(g) \in Blocks /\ Spawned(g) \in Spawns(g)
    BY <2>1, SpawnInCode DEF Inside, Spawned
  <2> QED BY <1>6, <1>10, <1>22, <2>2 DEF OneCaller
<1>23. ASSUME NEW g \in Programs, g # f, g # b
       PROVE  Node(g)' = Node(g)
  <2>1. g \in Functions
    BY DEF Programs, Functions
  <2>2. FrameNow(g)' = FrameNow(g)
    BY <1>12, <1>23, <2>1
  <2>3. Inside(g)' <=> Inside(g)
    BY <2>2 DEF Inside, Body
  <2>4. ~ Returned(g) /\ ~ Returned(g)'
    BY <1>2, <1>13 DEF Returned
  <2>5. ASSUME NEW c \in Blocks, Inside(g), c = Spawned(g)
        PROVE  BlockOver(c)' <=> BlockOver(c)
    <3>1. c # b
      BY <1>22, <1>23, <2>5
    <3>2. Rec(c) \in Functions /\ Rec(c) # Rec(b) /\ Rec(c) # b
      BY <3>1, RecOfOne DEF Programs
    <3>3. FrameNow(Rec(c))' = FrameNow(Rec(c))
      BY <1>12, <3>2
    <3> QED BY <1>2, <1>13, <3>2, <3>3 DEF BlockOver
  <2> QED BY <2>2, <2>3, <2>4, <2>5, NodeKept
<1>24. \A g \in Programs : g # b => CallsFrom'[g] = CallsFrom[g]
  <2>1. ~ Node(f)'.goes /\ Node(f)'.own = CallsFrom[f]
    BY <1>20, <1>21 DEF Node
  <2>2. \A g \in Programs : g # f /\ Node(g).goes => Node(g).next # b
    BY <1>22 DEF Node, Goes
  <2> QED BY <1>11, <1>14, <1>23, <2>1, <2>2, CallerKnows
<1>25. \A e \in Events : e \in Programs /\ e # b
  BY FunctionsDiffer DEF Programs
<1>26. AllCalls' = AllCalls
  BY <1>24, <1>25 DEF AllCalls, Events
<1> QED BY <1>26

\* A block returns to the program that spawned it.
LEMMA BlockReturnsTo ==
    ASSUME OneCaller, NoRecursion, ControlInv, NestInv, ControlInv', Finish("end", "ended")
    PROVE  [Sequential!SeqNext]_AllCalls
<1>1. /\ stack # <<>> /\ Stmt.op = "end" /\ stack' = SubSeq(stack, 1, Len(stack) - 1)
      /\ ret' = "ended" /\ lc' = [lc EXCEPT ![Top.fn] = 0]
  BY DEF Finish, At, Leave
<1>2. ret = "none"
  BY <1>1, QuietTop
<1>3. PICK b \in Blocks : Rec(b) = Top.fn /\ Top.at = 2
  BY <1>1, WhereOps
<1>4. Len(stack) \in 1 .. Len(stack) /\ Top = stack[Len(stack)] /\ Len(stack) \in Nat
  <2>1. Len(stack) \in Nat \ {0}
    BY <1>1 DEF ControlInv
  <2> QED BY <2>1 DEF Top
<1> DEFINE j == Len(stack) - 1
<1>5. /\ j \in 1 .. Len(stack) /\ stack[j].fn \in Programs /\ b \in Spawns(stack[j].fn)
      /\ Waits(stack[j]) /\ ChildOf(stack[j]) = Rec(b)
  BY <1>3, <1>4, CallersAre DEF NestInv
<1>6. PICK f \in Programs : f = stack[j].fn
  BY <1>5
<1>7. FrameNow(f) = stack[j] /\ OnStack(f) # {}
  BY <1>5, <1>6, FrameOnStack DEF NestInv, OnStack
<1>8. Rec(b) \in Functions /\ Rec(b) \notin Programs
  BY RecOfOne
<1>9. /\ stack' # <<>> /\ Top' = stack[j] /\ FrameNow(Rec(b)) = Top
      /\ \A g \in Functions : g # Rec(b) => FrameNow(g)' = FrameNow(g)
  <2>1. Len(stack') = j
    BY <1>1, Popped DEF NestInv
  <2>2. stack' # <<>>
    <3>1. stack' \in Seq(Frames) /\ Len(stack') # 0
      BY <1>4, <1>5, <2>1 DEF ControlInv
    <3> QED BY <3>1
  <2>3. \A g \in Functions : g # Rec(b) => lc'[g] = lc[g]
    BY <1>1, <1>3 DEF ControlInv
  <2> QED BY <1>1, <1>3, <2>2, <2>3, Popped DEF NestInv
<1>10. Top'.fn = f /\ f \in Functions /\ FrameNow(f)' = FrameNow(f)
  BY <1>6, <1>8, <1>9 DEF Programs, Functions
<1>11. /\ Inside(f) /\ Spawned(f) = b /\ Inside(f)' /\ Spawned(f)' = b
       /\ Position(f)' = Position(f) /\ Position(f) \in Nat
  <2>1. stack[j] \in Frames
    BY <1>5 DEF ControlInv
  <2>2. Body(f)[stack[j].at].of = b
    BY <1>5, <1>6, <2>1, ChildIs, RecOfOne DEF Waits
  <2>3. Inside(f) /\ Spawned(f) = b
    BY <1>5, <1>6, <1>7, <2>2 DEF Inside, Spawned, Waits
  <2>4. Position(f) \in Nat
    BY <1>7, <2>1 DEF Position, Frames
  <2> QED BY <1>10, <2>3, <2>4 DEF Inside, Spawned, Position, Body, Events
<1>12. ~ Returned(f) /\ Returned(f)' /\ BlockOver(b)
  BY <1>1, <1>2, <1>3, <1>9, <1>10 DEF Returned, BlockOver
<1>13. CallsFrom[f] = <<Here(f), [fn |-> b, at |-> Len(Code[b]) + 1]>>
  <2>1. ~ Goes(f) /\ Own(f) = <<Here(f), [fn |-> b, at |-> Len(Code[b]) + 1]>>
    BY <1>11, <1>12 DEF Goes, Own
  <2> QED BY <2>1, CallsHere
<1>14. CallsFrom'[f] = <<[fn |-> f, at |-> Position(f) + 1]>>
  <2>1. ~ Goes(f)' /\ Own(f)' = <<[fn |-> f, at |-> Position(f) + 1]>>
    BY <1>11, <1>12 DEF Goes, Own
  <2> QED BY <2>1, CallsHere
<1>15. ASSUME NEW g \in Programs, g # f
       PROVE  Node(g)' = Node(g)
  <2>1. g \in Functions /\ g # Rec(b)
    BY <1>8 DEF Programs, Functions
  <2>2. FrameNow(g)' = FrameNow(g)
    BY <1>9, <2>1
  <2>3. Inside(g)' <=> Inside(g)
    BY <2>2 DEF Inside, Body
  <2>4. ~ Returned(g) /\ ~ Returned(g)'
    BY <1>2, <1>10, <1>15 DEF Returned
  <2>5. ASSUME NEW c \in Blocks, Inside(g), c = Spawned(g)
        PROVE  BlockOver(c)' <=> BlockOver(c)
    <3>1. FrameNow(g).at \in 1 .. Len(Body(g))
      BY <2>1, FrameNowIs
    <3>2. c \in Spawns(g)
      BY <2>5, <3>1, SpawnInCode DEF Inside, Spawned
    <3>3. c # b
      BY <1>5, <1>6, <1>15, <3>2 DEF OneCaller
    <3>4. Rec(c) \in Functions /\ Rec(c) # Rec(b)
      BY <3>3, RecOfOne
    <3>5. FrameNow(Rec(c))' = FrameNow(Rec(c))
      BY <1>9, <3>4
    <3> QED BY <1>1, <1>2, <3>5 DEF BlockOver
  <2> QED BY <2>2, <2>3, <2>4, <2>5, NodeKept
<1>16. ChangesAt(f)
  BY <1>7, <1>15, OneCallChanges DEF ChangesAt
<1>17. PICK k \in Nat : k = Position(f)
  BY <1>11
<1>18. /\ CallsFrom[f] = <<[fn |-> f, at |-> k], [fn |-> b, at |-> Len(Code[b]) + 1]>>
       /\ CallsFrom'[f] = <<[fn |-> f, at |-> k + 1]>>
  BY <1>13, <1>14, <1>17 DEF Here
<1> QED BY <1>16, <1>18, ReturnedCall

\* A return that leaves a label moves nothing.
LEMMA LeavesLabel ==
    ASSUME NoRecursion, ControlInv, NestInv, ControlInv', stack # <<>>,
           stack' = SubSeq(stack, 1, Len(stack) - 1),
           ret \notin {"ended", "exited"}, ret' \in {"waiting", "yielded"},
           lc'[Top.fn] = Top.at, \A g \in Functions : g # Top.fn => lc'[g] = lc[g],
           Stmt.op = "spawn" => Top.byGoto
    PROVE  [Sequential!SeqNext]_AllCalls
<1>1. Quiet /\ Quiet'
  BY DEF Quiet
<1>2. /\ FrameNow(Top.fn) = Top
      /\ \A g \in Functions : g = Top.fn => FrameNow(g)' = Frame(g)'
      /\ \A g \in Functions : g # Top.fn => FrameNow(g)' = FrameNow(g)
  BY Popped DEF NestInv
<1>3. Top.at # 0
  <2>1. Top \in Frames
    BY TopIs
  <2> QED BY <2>1 DEF Frames
<1>4. ASSUME NEW g \in Functions
      PROVE  FrameNow(g)'.at = FrameNow(g).at /\ (Inside(g)' <=> Inside(g))
  <2>1. CASE g # Top.fn
    <3>1. FrameNow(g)' = FrameNow(g)
      BY <1>2, <2>1
    <3> QED BY <3>1 DEF Inside, Body
  <2>2. CASE g = Top.fn
    <3>0. lc'[g] = Top.at /\ lc'[g] # 0
      BY <1>3, <2>2
    <3>1. FrameNow(g)'.at = Top.at /\ FrameNow(g)'.byGoto
      <4>1. FrameNow(g)' = Frame(g)'
        BY <1>2, <2>2
      <4>2. Frame(g)'.at = Top.at
        BY <3>0 DEF Frame
      <4>3. Frame(g)'.byGoto
        BY <3>0 DEF Frame
      <4> QED BY <4>1, <4>2, <4>3
    <3>2. FrameNow(g) = Top
      BY <1>2, <2>2
    <3>3. CASE Stmt.op = "spawn"
      BY <2>2, <3>1, <3>2, <3>3 DEF Inside, Stmt, Body
    <3>4. CASE Stmt.op # "spawn"
      BY <2>2, <3>1, <3>2, <3>4 DEF Inside, Stmt, Body
    <3> QED BY <3>1, <3>2, <3>3, <3>4
  <2> QED BY <2>1, <2>2
<1> QED BY <1>1, <1>4, NothingMoves

\* Nor does a label that is set.
LEMMA SetsLabel ==
    ASSUME NoRecursion, ControlInv, NestInv, ControlInv', stack # <<>>, Labelled,
           ret' = ret, ~ Waits(Top), \A g \in Functions : g # Top.fn => lc'[g] = lc[g],
           Stmt.op = "spawn" => Top.fn \notin Programs
    PROVE  [Sequential!SeqNext]_AllCalls
<1>1. Quiet /\ Quiet'
  BY DEF Quiet, NestInv, RetInv
<1>2. /\ GotoFrame.at = Top.at /\ FrameNow(Top.fn) = Top
      /\ \A g \in Functions : g = Top.fn => FrameNow(g)' = GotoFrame
      /\ \A g \in Functions : g # Top.fn => FrameNow(g)' = FrameNow(g)
  BY Relabelled, Replaced DEF NestInv
<1>3. ASSUME NEW g \in Functions
      PROVE  /\ FrameNow(g)'.at = FrameNow(g).at
             /\ g \in Programs => (Inside(g)' <=> Inside(g))
  <2>1. CASE g # Top.fn
    <3>1. FrameNow(g)' = FrameNow(g)
      BY <1>2, <2>1
    <3> QED BY <3>1 DEF Inside, Body
  <2>2. CASE g = Top.fn
    <3>1. FrameNow(g)' = GotoFrame /\ FrameNow(g) = Top
      BY <1>2, <2>2
    <3>2. g \in Programs => Stmt.op # "spawn"
      BY <2>2
    <3> QED BY <1>2, <2>2, <3>1, <3>2 DEF Inside, Stmt, Body
  <2> QED BY <2>1, <2>2
<1> QED BY <1>1, <1>3, NothingMoves

\* Nor does a call.
LEMMA Calls ==
    ASSUME NoRecursion, ControlInv, ControlInv', NEW f \in Functions, OnStack(f) = {}, Call(f),
           lc' = lc, ret' = "none", stack = <<>> \/ ret = "none"
    PROVE  [Sequential!SeqNext]_AllCalls
<1>1. Quiet /\ Quiet'
  BY DEF Quiet
<1>2. \A g \in Functions : FrameNow(g)' = FrameNow(g)
  BY Pushed
<1>3. \A g \in Functions : FrameNow(g)'.at = FrameNow(g).at /\ (Inside(g)' <=> Inside(g))
  BY <1>2 DEF Inside, Body
<1> QED BY <1>1, <1>3, NothingMoves

\* Every step of the threads is one of the sequential programs, or leaves them alone.
LEMMA CallsStep ==
    ASSUME OneCaller, NoRecursion
    PROVE  ControlInv /\ NestInv /\ [ThreadsNext]_allVars => [Sequential!SeqNext]_AllCalls
<1> SUFFICES ASSUME ControlInv, NestInv, [ThreadsNext]_allVars
             PROVE  [Sequential!SeqNext]_AllCalls
  OBVIOUS
<1>c. ControlInv'
  BY ControlStep
<1>l. /\ lc' = lc => \A g \in Functions : lc'[g] = lc[g]
      /\ \A x : stack # <<>> /\ lc' = [lc EXCEPT ![Top.fn] = x] =>
            lc'[Top.fn] = x /\ \A g \in Functions : g # Top.fn => lc'[g] = lc[g]
  BY TopIs DEF ControlInv
<1>s. ASSUME stack # <<>>, SetLabel
      PROVE  lc'[Top.fn] = Top.at /\ \A g \in Functions : g # Top.fn => lc'[g] = lc[g]
  BY <1>s, <1>l DEF SetLabel
<1>o. {"work", "yield", "micros", "switch", "sleep", "delay", "spawn"} = Ops
  BY DEF Ops
<1>1. CASE ScheduleEvent
  <2>1. Schedule[turn] \in Functions /\ OnStack(Schedule[turn]) = {}
    BY <1>1 DEF Functions, OnStack, ScheduleEvent, ControlInv, Events
  <2> QED BY <1>1, <1>c, <2>1, Calls DEF ScheduleEvent
<1>2. CASE Work
  <2>1. stack # <<>> /\ Stmt.op = "work"
    BY <1>2 DEF Work, At
  <2> QED BY <1>2, <1>c, <1>l, <1>o, <2>1, StatementDone DEF Work
<1>3. CASE PT_YIELD
  <2>1. stack # <<>> /\ Stmt.op = "yield"
    BY <1>3 DEF PT_YIELD, At
  <2>2. ret = "none"
    BY <2>1, QuietTop
  <2>3. lc'[Top.fn] = Top.at /\ \A g \in Functions : g # Top.fn => lc'[g] = lc[g]
    BY <1>3, <1>s, <2>1 DEF PT_YIELD
  <2>4. CASE Leave("yielded")
    BY <1>c, <2>1, <2>2, <2>3, <2>4, LeavesLabel DEF Leave
  <2>5. CASE GoOn /\ UNCHANGED ret
    BY <1>c, <1>o, <2>1, <2>3, <2>5, StatementDone
  <2> QED BY <1>3, <2>4, <2>5 DEF PT_YIELD
<1>4. CASE EventEnd
  <2>1. stack # <<>> /\ Stmt.op = "forever"
    BY <1>4 DEF EventEnd
  <2>2. ret = "none"
    BY <2>1, QuietTop
  <2>3. lc'[Top.fn] = Top.at /\ \A g \in Functions : g # Top.fn => lc'[g] = lc[g]
    BY <1>4, <1>s, <2>1 DEF EventEnd
  <2> QED BY <1>4, <1>c, <2>1, <2>2, <2>3, LeavesLabel DEF EventEnd, Leave
<1>5. CASE SleepStart
  <2>1. stack # <<>> /\ Stmt.op = "sleep"
    BY <1>5 DEF SleepStart, At
  <2>2. ~ Waits(Top)
    BY <2>1, QuietTop
  <2> QED BY <1>5, <1>c, <1>s, <2>1, <2>2, SetsLabel DEF SleepStart
<1>6. CASE SleepOver
  <2>1. stack # <<>> /\ Stmt.op = "sleep"
    BY <1>6 DEF SleepOver, At
  <2> QED BY <1>6, <1>c, <1>l, <1>o, <2>1, StatementDone DEF SleepOver
<1>7. CASE SleepOn
  <2>1. stack # <<>> /\ Stmt.op = "sleep" /\ Top.byGoto
    BY <1>7 DEF SleepOn, At
  <2>2. ret = "none"
    BY <2>1, QuietTop
  <2>3. lc[Top.fn] = Top.at
    <3>1. Len(stack) \in 1 .. Len(stack) /\ Top = stack[Len(stack)]
      BY <2>1 DEF ControlInv, Top
    <3> QED BY <2>1, <3>1 DEF NestInv, LabelInv, Stmt
  <2> QED BY <1>7, <1>c, <1>l, <2>1, <2>2, <2>3, LeavesLabel DEF SleepOn, Leave
<1>8. CASE SpawnStart
  <2>1. CASE Top.fn \in Programs
    BY <1>8, <1>c, <2>1, SpawnBegins
  <2>2. CASE Top.fn \notin Programs
    <3>1. stack # <<>> /\ Stmt.op = "spawn" /\ ~ Top.byGoto
      BY <1>8 DEF SpawnStart, At
    <3>2. ~ Waits(Top)
      BY <3>1, QuietTop
    <3>3. Stmt.of \in Blocks /\ lc[Stmt.of] = 0 /\ Child = Stmt.of
      BY <2>2, <3>1, NotStarted DEF Child, Programs
    <3>4. \A g \in Functions : g # Top.fn => lc'[g] = lc[g]
      BY <1>8, <3>3 DEF SpawnStart, ControlInv
    <3> QED BY <1>8, <1>c, <2>2, <3>1, <3>2, <3>4, SetsLabel DEF SpawnStart
  <2> QED BY <2>1, <2>2
<1>9. CASE SpawnCall
  <2>1. stack # <<>> /\ Stmt.op = "spawn" /\ ret = "none"
    BY <1>9 DEF SpawnCall, At
  <2>2. Child \in Functions /\ OnStack(Child) = {}
    BY <2>1, TopIs, ChildIsOff DEF NestInv
  <2> QED BY <1>9, <1>c, <2>1, <2>2, Calls DEF SpawnCall
<1>10. CASE SpawnWaits
  <2>1. stack # <<>> /\ Stmt.op = "spawn" /\ Top.byGoto /\ Running(ret)
    BY <1>10 DEF SpawnWaits, At
  <2>2. ret \notin {"ended", "exited"}
    BY <2>1 DEF Running
  <2>3. lc[Top.fn] = Top.at
    <3>1. Len(stack) \in 1 .. Len(stack) /\ Top = stack[Len(stack)]
      BY <2>1 DEF ControlInv, Top
    <3> QED BY <2>1, <3>1 DEF NestInv, LabelInv, Stmt
  <2> QED BY <1>10, <1>c, <1>l, <2>1, <2>2, <2>3, LeavesLabel DEF SpawnWaits, Leave
<1>11. CASE SpawnDone
  BY <1>11, <1>c, SpawnEnds, RecGoesOn
<1>12. CASE Finish("exit", "exited")
  BY <1>12, <1>c, BlockEnds
<1>13. CASE Finish("end", "ended")
  BY <1>13, <1>c, BlockReturnsTo
<1>14. CASE ClockCall
  <2>1. stack # <<>> /\ Stmt.op \in {"micros", "delay", "switch"}
    BY <1>14 DEF ClockCall, At
  <2>2. ~ Waits(Top)
    BY <2>1, QuietTop
  <2> QED BY <1>14, <1>c, <1>l, <2>1, <2>2, SetsLabel DEF ClockCall
<1>15. CASE ClockReturned
  <2>1. stack # <<>> /\ Stmt.op \in {"micros", "delay", "switch"}
    BY <1>15 DEF ClockReturned, At
  <2> QED BY <1>15, <1>c, <1>l, <1>o, <2>1, StatementDone DEF ClockReturned
<1>16. CASE UNCHANGED threadVars
  <2>1. lc' = lc /\ stack' = stack /\ ret' = ret
    BY <1>16 DEF threadVars
  <2>2. \A f \in Programs : Node(f)' = Node(f)
    BY <2>1, SMTT(30)
    DEF Node, Own, Goes, Inside, Returned, BlockOver, Spawned, Here, Position, Top,
        FrameNow, OnStack, Frame, Body, Events
  <2> QED BY <1>c, <2>2, Stutters
<1> QED
  BY <1>1, <1>2, <1>3, <1>4, <1>5, <1>6, <1>7, <1>8, <1>9, <1>10, <1>11, <1>12,
     <1>13, <1>14, <1>15, <1>16
  DEF ThreadsNext, ThreadStep, allVars

\* Every program begins at its first statement.
LEMMA CallsInit ==
    ASSUME NoRecursion
    PROVE  ThreadsInit => Sequential!SeqInit
<1> SUFFICES ASSUME ThreadsInit PROVE Sequential!SeqInit
  OBVIOUS
<1>1. ControlInv
  BY ControlInit
<1>2. ASSUME NEW e \in Events
      PROVE  CallsFrom[e] = <<Sequential!Start(e)>>
  <2>1. e \in Programs /\ e \in Functions /\ e \notin Blocks
    BY FunctionsDiffer DEF Programs, Functions
  <2>2. FrameNow(e).at = 1 /\ ~ FrameNow(e).byGoto
    <3>1. OnStack(e) = {}
      BY DEF ThreadsInit, OnStack
    <3>2. lc[e] = 0
      BY <2>1 DEF ThreadsInit
    <3> QED BY <3>1, <3>2 DEF FrameNow, Frame
  <2>3. ~ Goes(e) /\ Own(e) = <<[fn |-> e, at |-> 1]>>
    BY <2>1, <2>2 DEF Goes, Own, Here, Inside, Position
  <2>4. Chains(AllNodes, CallsFrom) /\ AllNodes[e] = Node(e)
    BY <1>1, <2>1, CallsAreChains DEF AllNodes
  <2>5. ~ AllNodes[e].goes /\ AllNodes[e].own = Own(e)
    BY <2>3, <2>4 DEF Node
  <2>6. CallsFrom[e] = Own(e)
    BY <2>1, <2>4, <2>5 DEF Chains
  <2> QED BY <2>3, <2>6 DEF Sequential!Start
<1> QED BY <1>2 DEF Sequential!SeqInit

\* Whatever the sketch is, if no block spawns itself and every block is spawned by one
\* event or block, its events are the sequential programs they look like.
THEOREM ThreadsAreSequential ==
    ASSUME OneCaller, NoRecursion
    PROVE  ThreadsSpec => ImplementsSequentialThreads
<1>1. [Sequential!SeqNext]_AllCalls => [Sequential!SeqNext]_([e \in Events |-> CallsFrom[e]])
  BY DEF AllCalls
<1> QED
  BY <1>1, ControlInit, ControlStep, NestInit, NestStep, CallsInit, CallsStep, PTL
  DEF ThreadsSpec, ImplementsSequentialThreads, Sequential!SeqSpec

-----------------------------------------------------------------------------
\* A handler is never interrupted, nor are the two halves of a write.
LockInv ==
    /\ ie \in BOOLEAN /\ isr \in {"none", "servo"}
    /\ isr = "servo" => ~ ie /\ pc \notin {"store", "ticks"}
    /\ pc = "store" => ~ ie /\ loaded = port
    /\ pc = "ticks" => ~ ie

\* LockInv with PinsAreTheirWriters.
PortInv == LockInv /\ port = driven

\* No step of the sketch or of a handler undoes a write.
LEMMA PortStep == PortInv /\ [PinsNext]_pinVars => PortInv'
<1> SUFFICES ASSUME PortInv, [PinsNext]_pinVars PROVE PortInv'
  OBVIOUS
<1> USE DEF PortInv, LockInv
<1>1. CASE TimerTick /\ UNCHANGED <<portVars, toneVars>>
  BY <1>1 DEF TimerTick, portVars
<1>2. CASE ServoIrq
  BY <1>2 DEF ServoIrq, HandlerWrites, WithPin
<1>3. CASE ServoIrqEnd
  BY <1>3 DEF ServoIrqEnd, HandlerWrites, WithPin
<1>4. CASE ToneIrq /\ UNCHANGED servoVars
  BY <1>4 DEF ToneIrq, HandlerWrites, WithPin, servoVars
<1>5. CASE ServoCalls
  BY <1>5 DEF ServoCalls, CallAttach, Detach, WriteTicksLow, InitCount, InitInterrupt,
              Activate, WriteTicksHigh, InCli, portVars, servoVars
<1>6. CASE isr = "none" /\ ToneCalls /\ UNCHANGED servoVars
  BY <1>6 DEF ToneCalls, CallNoTone, CallTone, StoreCountLow, StoreCountHigh, EnableTone,
              DisableTone, servoVars
<1>7. CASE Write
  BY <1>7 DEF Write, WriteLoad, WriteStore, WithPin, InCli, servoVars
<1>8. CASE UNCHANGED pinVars
  BY <1>8 DEF pinVars, portVars, servoVars
<1> QED BY <1>1, <1>2, <1>3, <1>4, <1>5, <1>6, <1>7, <1>8 DEF PinsNext, ServoHandler

\* PortInv holds in every state.
LEMMA PortInvariant == PinsSpec => []PortInv
<1>1. PinsInit => PortInv
  BY DEF PinsInit, PortInit, ServoInit, PortInv, LockInv
<1> QED BY <1>1, PortStep, PTL DEF PinsSpec

\* The sketch and the handlers of both timers change bits of one register, and
\* none undoes what another wrote.
THEOREM PinsKeepTheirWriters == PinsSpec => []PinsAreTheirWriters
<1>1. PortInv => PinsAreTheirWriters
  BY DEF PortInv, PinsAreTheirWriters
<1> QED BY <1>1, PortInvariant, PTL

-----------------------------------------------------------------------------
\* SilenceIsKept is not inductive as it stands: a tone is on only while the timer
\* is a pin's, that pin is not silent, and noTone() writes a pin whose tone is
\* off.
QuietInv ==
    /\ quiet \subseteq TonePins /\ quiet \cap port = {}
    /\ Channel \in -1 .. ServoCount - 1
    /\ tone_pin # NoPin => tone_pin \in TonePins /\ timer3_pin = tone_pin
    /\ ocie3 => /\ tone_pin # NoPin \/ pc = "disable"
                /\ timer3_pin \in TonePins \ quiet
    /\ pc \in {"count", "count2", "enable"} => tone_pin # NoPin /\ arg.pin = tone_pin
    /\ pc \in {"disable", "write", "store"} =>
          arg.call = "noTone" /\ ~ arg.high /\ arg.pin \in TonePins
    /\ pc = "disable" => tone_pin = NoPin
    /\ pc \in {"write", "store"} /\ ocie3 => timer3_pin # arg.pin

\* The servo that is pulsed has a pin that no tone uses.
LEMMA ServoPinIs ==
    ASSUME QuietInv, Channel >= 0
    PROVE  Channel \in Servos /\ ServoPin[Channel] \notin TonePins
BY PinAssumption, ServoAssumption DEF QuietInv, Servos

\* Every step keeps silent pins silent.
LEMMA QuietStep == PortInv /\ QuietInv /\ [PinsNext]_pinVars => QuietInv'
<1> SUFFICES ASSUME PortInv, QuietInv, [PinsNext]_pinVars PROVE QuietInv'
  OBVIOUS
<1> USE DEF QuietInv
<1>1. CASE TimerTick /\ UNCHANGED <<portVars, toneVars>>
  BY <1>1 DEF TimerTick, portVars, toneVars
<1>2. CASE ServoIrq /\ UNCHANGED toneVars
  <2>1. Channel' \in -1 .. ServoCount - 1
    BY <1>2, ServoAssumption DEF ServoIrq
  <2>2. port' \subseteq port
    BY <1>2 DEF ServoIrq, HandlerWrites, WithPin
  <2> QED BY <1>2, <2>1, <2>2 DEF ServoIrq, toneVars
<1>3. CASE ServoIrqEnd /\ UNCHANGED toneVars
  <2>1. Channel' = Channel /\ pc' = pc /\ arg' = arg
    BY <1>3 DEF ServoIrqEnd
  <2>2. quiet \cap port' = {}
    BY <1>3, ServoPinIs DEF ServoIrqEnd, HandlerWrites, WithPin
  <2> QED BY <1>3, <2>1, <2>2 DEF toneVars
<1>4. CASE ToneIrq /\ UNCHANGED servoVars
  <2>1. ocie3 /\ UNCHANGED <<pc, arg, tone_pin, timer3_pin, Channel>>
    BY <1>4 DEF ToneIrq, servoVars
  <2>2. CASE timer3_toggle_count # 0
    BY <1>4, <2>1, <2>2 DEF ToneIrq, HandlerWrites, WithPin
  <2>3. CASE timer3_toggle_count = 0
    BY <1>4, <2>1, <2>3 DEF ToneIrq, HandlerWrites, WithPin
  <2> QED BY <2>2, <2>3
<1>5. CASE ServoCalls /\ UNCHANGED toneVars
  BY <1>5 DEF ServoCalls, CallAttach, Detach, WriteTicksLow, InitCount, InitInterrupt,
              Activate, WriteTicksHigh, portVars, servoVars, toneVars
<1>6. ASSUME NEW p \in TonePins, CallNoTone(p), UNCHANGED servoVars
      PROVE  QuietInv'
  BY <1>6, ToneAssumption DEF CallNoTone, servoVars
<1>7. ASSUME NEW p \in TonePins, NEW n \in Lengths, CallTone(p, n), UNCHANGED servoVars
      PROVE  QuietInv'
  BY <1>7, ToneAssumption DEF CallTone, servoVars
<1>8. CASE (StoreCountLow \/ StoreCountHigh) /\ UNCHANGED servoVars
  BY <1>8 DEF StoreCountLow, StoreCountHigh, servoVars
<1>9. CASE EnableTone /\ UNCHANGED servoVars
  BY <1>9 DEF EnableTone, servoVars
<1>10. CASE DisableTone /\ UNCHANGED servoVars
  BY <1>10 DEF DisableTone, servoVars
<1>11. CASE Write
  <2>1. CASE WriteLoad
    BY <1>11, <2>1 DEF Write, WriteLoad, WriteSilences, servoVars
  <2>2. CASE WriteStore
    <3>1. port' = port \ {arg.pin} /\ quiet' = quiet \cup {arg.pin}
      BY <1>11, <2>2 DEF Write, WriteStore, WriteSilences, WithPin, PortInv, LockInv
    <3> QED BY <1>11, <2>2, <3>1 DEF Write, WriteStore, WriteSilences, servoVars
  <2> QED BY <1>11, <2>1, <2>2 DEF Write
<1>12. CASE UNCHANGED pinVars
  BY <1>12 DEF pinVars, portVars, servoVars, toneVars
<1> QED
  BY <1>1, <1>2, <1>3, <1>4, <1>5, <1>6, <1>7, <1>8, <1>9, <1>10, <1>11, <1>12
  DEF PinsNext, ServoHandler, ToneCalls

\* A pin whose tone is over, because noTone() returned or by itself, stays low.
THEOREM SilenceStays == PinsSpec => []SilenceIsKept
<1>1. PinsInit => QuietInv
  BY ServoAssumption DEF PinsInit, PortInit, ServoInit, ToneInit, QuietInv
<1>2. QuietInv => SilenceIsKept
  BY DEF QuietInv, SilenceIsKept
<1> QED BY <1>1, <1>2, QuietStep, PortInvariant, PTL DEF PinsSpec

-----------------------------------------------------------------------------
\* ToneHasItsLength needs that toggles heard and toggles to come make up the
\* length of a tone that began in silence, and that its two parts are stored whole
\* before the handler runs.
LengthInv ==
    /\ timer3_toggle_count \in Int /\ toggled \in Nat
    /\ planned \in Nat \cup {-1, Unknown}
    /\ pc \in {"count", "count2", "enable"} => arg.count \in Nat \cup {-1}
    /\ planned # Unknown /\ ocie3 =>
          IF planned = -1 THEN timer3_toggle_count = -1
          ELSE timer3_toggle_count \in Nat /\ timer3_toggle_count + toggled = planned
    /\ planned # Unknown /\ ocie3 => pc \notin {"count2", "enable"}
    /\ planned # Unknown /\ ~ ocie3 =>
          /\ pc \in {"count2", "enable"} /\ planned = arg.count /\ toggled = 0
          /\ pc = "count2" => timer3_toggle_count % Part = arg.count % Part
          /\ pc = "enable" => timer3_toggle_count = arg.count

\* A number is its high part and its low part.
LEMMA PartsOf ==
    ASSUME NEW n \in Int, NEW k \in Int
    PROVE  /\ (n \div Part) * Part + (n % Part) = n
           /\ (k \div Part) * Part + (n % Part) \in Int
           /\ ((k \div Part) * Part + (n % Part)) % Part = n % Part
<1> DEFINE q == n \div Part   r == n % Part   c == k \div Part
<1>1. Part \in Nat /\ Part > 0
  BY ToneAssumption
<1>2. q \in Int /\ c \in Int /\ r \in 0 .. Part - 1 /\ n = q * Part + r
  BY <1>1
<1>3. c * Part + r \in Int
  BY <1>1, <1>2
<1>4. (c * Part + r) % Part = r
  BY <1>1, <1>2
<1> QED BY <1>2, <1>3, <1>4

\* Every step keeps the length of the tone.
LEMMA LengthStep == QuietInv /\ LengthInv /\ [PinsNext]_pinVars => LengthInv'
<1> SUFFICES ASSUME QuietInv, LengthInv, [PinsNext]_pinVars PROVE LengthInv'
  OBVIOUS
<1> USE DEF LengthInv, Unknown
<1>1. CASE UNCHANGED <<pc, arg, timer3_toggle_count, toggled, planned, ocie3>>
  BY <1>1
<1>2. CASE (TimerTick /\ UNCHANGED <<portVars, toneVars>>)
             \/ (ServoHandler /\ UNCHANGED toneVars) \/ UNCHANGED pinVars
  BY <1>1, <1>2 DEF TimerTick, ServoHandler, ServoIrq, ServoIrqEnd, pinVars, portVars, toneVars
<1>3. CASE ToneIrq
  <2>1. CASE timer3_toggle_count # 0
    BY <1>3, <2>1 DEF ToneIrq, CountDown
  <2>2. CASE timer3_toggle_count = 0
    BY <1>3, <2>2 DEF ToneIrq, CountDown
  <2> QED BY <2>1, <2>2
<1>4. CASE ServoCalls /\ UNCHANGED toneVars
  BY <1>4 DEF ServoCalls, CallAttach, Detach, WriteTicksLow, InitCount, InitInterrupt,
              Activate, WriteTicksHigh, portVars, toneVars
<1>5. ASSUME NEW p \in TonePins, CallNoTone(p)
      PROVE  LengthInv'
  BY <1>5 DEF CallNoTone
<1>6. ASSUME NEW p \in TonePins, NEW n \in Lengths, CallTone(p, n)
      PROVE  LengthInv'
  BY <1>6, ToneAssumption DEF CallTone
<1>7. CASE StoreCountLow
  BY <1>7, PartsOf DEF StoreCountLow
<1>8. CASE StoreCountHigh
  BY <1>8, PartsOf DEF StoreCountHigh
<1>9. CASE EnableTone
  BY <1>9 DEF EnableTone
<1>10. CASE DisableTone
  BY <1>10 DEF DisableTone
<1>11. CASE Write
  BY <1>11 DEF Write, WriteLoad, WriteStore, WriteSilences
<1> QED
  BY <1>2, <1>3, <1>4, <1>5, <1>6, <1>7, <1>8, <1>9, <1>10, <1>11
  DEF PinsNext, ToneCalls

\* LengthInv holds in every state.
LEMMA LengthInvariant == PinsSpec => [](QuietInv /\ LengthInv)
<1>1. PinsInit => QuietInv /\ LengthInv
  BY ServoAssumption DEF PinsInit, PortInit, ServoInit, ToneInit, QuietInv, LengthInv, Unknown
<1> QED BY <1>1, QuietStep, LengthStep, PortInvariant, PTL DEF PinsSpec

\* A tone that begins in silence toggles its pin as often as was computed.
THEOREM TonesHaveTheirLength == PinsSpec => ToneHasItsLength
<1>1. LengthInv => [ocie3 /\ ~ ocie3' /\ timer3_toggle_count = 0 /\ pc # "disable"
                      /\ planned # Unknown => toggled = planned]_<<portVars, toneVars>>
  BY DEF LengthInv, Unknown
<1> QED BY <1>1, LengthInvariant, PTL DEF ToneHasItsLength

-----------------------------------------------------------------------------
\* The timer of the servos.

\* The sketch writes a width in two halves, and nobody reads it between.
TicksInv ==
    /\ ticks \in [Servos -> Nat] /\ isActive \in [Servos -> BOOLEAN]
    /\ Channel \in -1 .. ServoCount - 1
    /\ pc # "ticks" => \A s \in Servos : ticks[s] \in Widths
    /\ pc = "ticks" => /\ arg.servo \in Servos /\ arg.value \in Widths
                       /\ \A s \in Servos \ {arg.servo} : ticks[s] \in Widths
    /\ pc \in {"initISR", "initISR2", "activate"} => arg.servo \in Servos
    /\ pc \in {"initISR", "initISR2"} => \A s \in Servos : ~ isActive[s]

\* The longest time between two pulses' ends.
Turn == LongestPulse + Latency + HandlerTicks
\* A compare value for channel c is passed by before the counter is full.
InTime(c, x) ==
    IF c >= 0 THEN x <= c * Turn + LongestPulse ELSE x + Latency < CountSize
\* It is not reached in a few instructions after the counter was set to 0.
NotAtOnce(c, x) == x > IF c >= 0 THEN 2 * HandlerTicks ELSE HandlerTicks

Slack == HandlerTicks - spent

CompareInv ==
    /\ tcnt1 \in 0 .. CountSize - 1 /\ ocr \in 0 .. CountSize - 1
    /\ ocf \in BOOLEAN /\ ocie \in BOOLEAN
    /\ spent \in 0 .. HandlerTicks
    /\ ~ ocie => ocr = 0 /\ ~ ocf /\ isr = "none"
    /\ isr = "none" => /\ InTime(Channel, ocr)
                       /\ ocr = 0 => Channel = 0
                       /\ ocr # 0 => NotAtOnce(Channel, ocr)
    /\ isr = "none" /\ pc # "initISR2" =>
          /\ ~ ocf /\ ocr # 0 => tcnt1 < ocr
          /\ ocf => ocr <= tcnt1 /\ tcnt1 <= ocr + Latency
    /\ isr = "none" /\ pc = "initISR2" =>
          /\ ocr # 0 => tcnt1 + Slack < ocr
          /\ ocr = 0 \/ ocf => tcnt1 <= spent
    /\ isr = "servo" =>
          /\ ~ ocf /\ next \in 1 .. CountSize - 1
          /\ InTime(Channel, next) /\ NotAtOnce(Channel, next)
          /\ tcnt1 + Slack < next
          /\ pc = "initISR2" => tcnt1 + Slack + HandlerTicks < next
          /\ ocr = 0 \/ ocr <= tcnt1 \/ tcnt1 + Slack < ocr

\* A pulse ends where its compare value is, which is as far from its begin as the
\* sketch asked for, less what the handler took to begin it.
PulseInv ==
    /\ pulse.of # -1 =>
          /\ pulse.of \in Servos /\ pulse.of = Channel /\ isActive[Channel]
          /\ pulse = [of |-> Channel, width |-> pulse.width, asked |-> pulse.asked]
          /\ pulse.asked \in Widths /\ pulse.width \in Nat
          /\ isr = "none" /\ ocie /\ ocr # 0
          /\ pulse.width + ocr - tcnt1 \in pulse.asked - HandlerTicks .. pulse.asked
    /\ isr = "servo" /\ Channel >= 0 => next = tcnt1 - spent + ticks[Channel]

\* The constants, with the products of Turn and a channel.
LEMMA ServoConstants ==
    /\ ServoCount \in Nat /\ ServoCount > 0 /\ CountSize \in Nat /\ CountSize > 0
    /\ Margin \in Nat /\ HandlerTicks \in Nat /\ Latency \in Nat /\ REFRESH \in Nat
    /\ LongestPulse \in Widths /\ \A w \in Widths : w \in Nat /\ w <= LongestPulse /\ 2 * HandlerTicks < w
    /\ HandlerTicks < Margin /\ 2 * HandlerTicks + Margin < REFRESH
    /\ REFRESH + Latency < CountSize
    /\ Turn \in Nat /\ Turn = LongestPulse + Latency + HandlerTicks
<1>1. LongestPulse \in Widths /\ \A w \in Widths : w <= LongestPulse
  BY ServoAssumption DEF LongestPulse
<1>2. LongestPulse \in Nat
  BY <1>1, ServoAssumption
<1> QED BY <1>1, <1>2, ServoAssumption DEF Turn

\* The turn of every channel ends before the counter is full.
LEMMA TurnTimes ==
    ASSUME NEW c \in 0 .. ServoCount - 1
    PROVE  /\ c * Turn \in Nat /\ (c + 1) * Turn = c * Turn + Turn
           /\ (c + 1) * Turn + Margin + Latency < CountSize
           /\ 0 * Turn = 0
<1>1. Turn \in Nat /\ ServoCount \in Nat /\ c \in Nat /\ c + 1 <= ServoCount
  BY ServoConstants
<1>2. (c + 1) * Turn = c * Turn + Turn
  BY <1>1
<1>3. \A k \in Nat : (c + 1 + k) * Turn = (c + 1) * Turn + k * Turn /\ k * Turn \in Nat
  BY <1>1
<1>4. ServoCount - (c + 1) \in Nat /\ ServoCount = c + 1 + (ServoCount - (c + 1))
  BY <1>1
<1>5. (c + 1) * Turn \in Nat /\ c * Turn \in Nat /\ 0 * Turn = 0
  BY <1>1
<1>6. (c + 1) * Turn <= ServoCount * Turn /\ ServoCount * Turn \in Nat
  BY <1>1, <1>3, <1>4, <1>5
<1>7. ServoCount * Turn + Margin + Latency < CountSize
  BY ServoAssumption DEF Turn
<1> QED BY <1>2, <1>5, <1>6, <1>7, ServoConstants

\* Every step leaves whole widths to the handler.
LEMMA TicksStep == TicksInv /\ PortInv /\ [PinsNext]_pinVars => TicksInv'
<1> SUFFICES ASSUME TicksInv, PortInv, [PinsNext]_pinVars PROVE TicksInv'
  OBVIOUS
<1> USE DEF TicksInv
<1>1. CASE (TimerTick /\ UNCHANGED <<portVars, toneVars>>) \/ UNCHANGED pinVars
  BY <1>1 DEF TimerTick, portVars, pinVars, servoVars
<1>2. CASE ServoIrq
  BY <1>2, ServoConstants DEF ServoIrq
<1>3. CASE ServoIrqEnd
  BY <1>3 DEF ServoIrqEnd
<1>4. CASE ToneIrq /\ UNCHANGED servoVars
  BY <1>4 DEF ToneIrq, servoVars
<1>5. ASSUME NEW s \in Servos, CallAttach(s) PROVE TicksInv'
  BY <1>5 DEF CallAttach, servoVars
<1>6. ASSUME NEW s \in Servos, Detach(s) PROVE TicksInv'
  BY <1>6 DEF Detach, portVars
<1>7. ASSUME NEW s \in Servos, NEW w \in Widths, WriteTicksLow(s, w) PROVE TicksInv'
  <2>1. (ticks[s] \div Byte) * Byte + (w % Byte) \in Nat
    <3>1. ticks[s] \in Nat /\ w \in Nat /\ Byte \in Nat /\ Byte > 0
      BY ServoAssumption
    <3>2. ticks[s] \div Byte \in Nat /\ w % Byte \in Nat
      BY <3>1
    <3> QED BY <3>1, <3>2
  <2> QED BY <1>7, <2>1 DEF WriteTicksLow
<1>8. CASE InitCount \/ InitInterrupt
  BY <1>8 DEF InitCount, InitInterrupt
<1>9. CASE Activate
  BY <1>9 DEF Activate
<1>10. CASE WriteTicksHigh
  BY <1>10, ServoConstants DEF WriteTicksHigh
<1>11. CASE ToneCalls /\ UNCHANGED servoVars
  BY <1>11 DEF ToneCalls, CallNoTone, CallTone, StoreCountLow, StoreCountHigh, EnableTone,
              DisableTone, servoVars
<1>12. CASE Write
  BY <1>12 DEF Write, WriteLoad, WriteStore, servoVars
<1> QED
  BY <1>1, <1>2, <1>3, <1>4, <1>5, <1>6, <1>7, <1>8, <1>9, <1>10, <1>11, <1>12
  DEF PinsNext, ServoHandler, ServoCalls

\* A compare value that is in time is reached, and answered, before the counter
\* is full.
LEMMA InTimeIs ==
    ASSUME TicksInv, NEW x \in Nat, InTime(Channel, x)
    PROVE  x + Latency < CountSize
<1>1. CASE Channel >= 0
  <2>1. x <= Channel * Turn + LongestPulse
    BY <1>1 DEF InTime
  <2>2. Channel \in 0 .. ServoCount - 1
    BY <1>1 DEF TicksInv
  <2> QED BY <2>1, <2>2, TurnTimes, ServoConstants
<1>2. CASE ~(Channel >= 0)
  BY <1>2 DEF InTime
<1> QED BY <1>1, <1>2

\* The counter counts.
LEMMA TickCompare ==
    ASSUME CompareInv, TicksInv, TimerTick, UNCHANGED pc
    PROVE  CompareInv'
<1> USE ServoConstants DEF CompareInv, Slack
<1>1. /\ ocie /\ ocf' = (ocf \/ tcnt1' = ocr)
      /\ UNCHANGED <<Channel, ocr, ocie, isr, next, pc>>
  BY DEF TimerTick
<1>2. tcnt1' \in 0 .. CountSize - 1 /\ (tcnt1 + 1 < CountSize => tcnt1' = tcnt1 + 1)
  BY DEF TimerTick
<1>3. /\ InTime(Channel, ocr)' = InTime(Channel, ocr)
      /\ NotAtOnce(Channel, ocr)' = NotAtOnce(Channel, ocr)
      /\ InTime(Channel, next)' = InTime(Channel, next)
      /\ NotAtOnce(Channel, next)' = NotAtOnce(Channel, next)
  BY <1>1 DEF InTime, NotAtOnce
<1>4. CASE isr = "none" /\ pc # "initISR2"
  <2>1. spent' = spent
    BY <1>4 DEF TimerTick, InNeighbours
  <2>2. CASE ocf
    <3>1. ocr + Latency < CountSize
      BY <1>4, InTimeIs
    <3>2. Late = tcnt1 - ocr /\ Late < Latency
      BY <1>4, <2>2, <3>1 DEF TimerTick, Late
    <3>3. tcnt1' = tcnt1 + 1
      BY <1>2, <1>4, <2>2, <3>1, <3>2
    <3>4. ocf'
      BY <1>1, <2>2
    <3>5. ocr <= tcnt1' /\ tcnt1' <= ocr + Latency
      BY <1>4, <2>2, <3>2, <3>3
    <3> QED BY <1>1, <1>2, <1>3, <1>4, <2>1, <3>4, <3>5
  <2>3. CASE ~ ocf /\ ocr # 0
    <3>1. tcnt1' = tcnt1 + 1
      BY <1>2, <1>4, <2>3
    <3>2. CASE tcnt1' = ocr
      <4>1. ocf'
        BY <1>1, <3>2
      <4> QED BY <1>1, <1>2, <1>3, <1>4, <2>1, <3>2, <4>1
    <3>3. CASE tcnt1' # ocr
      <4>1. ~ ocf'
        BY <1>1, <2>3, <3>3
      <4>2. tcnt1' < ocr
        BY <1>4, <2>3, <3>1, <3>3
      <4> QED BY <1>1, <1>2, <1>3, <1>4, <2>1, <4>1, <4>2
    <3> QED BY <3>2, <3>3
  <2>4. CASE ~ ocf /\ ocr = 0
    BY <1>1, <1>2, <1>3, <1>4, <2>1, <2>4
  <2> QED BY <2>2, <2>3, <2>4
<1>5. CASE isr = "none" /\ pc = "initISR2"
  <2>1. spent < HandlerTicks /\ spent' = spent + 1
    BY <1>5 DEF TimerTick, InNeighbours
  <2>2. tcnt1 + 1 < CountSize
    BY <1>5, <2>1
  <2>3. tcnt1' = tcnt1 + 1
    BY <1>2, <2>2
  <2> QED BY <1>1, <1>2, <1>3, <1>5, <2>1, <2>3
<1>6. CASE isr = "servo"
  <2>1. spent < HandlerTicks /\ spent' = spent + 1
    BY <1>6 DEF TimerTick, InNeighbours
  <2>2. tcnt1' = tcnt1 + 1
    BY <1>2, <1>6, <2>1
  <2> QED BY <1>1, <1>2, <1>3, <1>6, <2>1, <2>2
<1> QED BY <1>4, <1>5, <1>6, <1>1 DEF TimerTick

\* How late a handler comes: a latency, or what initISR() has counted.
LEMMA HandlerTime ==
    ASSUME CompareInv, TicksInv, ocf, isr = "none", Channel >= 0
    PROVE  tcnt1 <= Channel * Turn + LongestPulse + Latency + HandlerTicks
<1>1. Channel \in 0 .. ServoCount - 1 /\ ocr <= Channel * Turn + LongestPulse
  BY DEF CompareInv, TicksInv, InTime
<1>2. Channel * Turn \in Nat /\ LongestPulse \in Nat /\ Latency \in Nat /\ HandlerTicks \in Nat
  BY <1>1, TurnTimes, ServoConstants
<1>3. CASE pc # "initISR2"
  BY <1>1, <1>2, <1>3 DEF CompareInv
<1>4. CASE pc = "initISR2"
  BY <1>1, <1>2, <1>4 DEF CompareInv
<1> QED BY <1>3, <1>4

\* What the handler computes lies ahead of the counter by more than it takes, and
\* in time.
LEMMA HandlerComputes ==
    ASSUME CompareInv, TicksInv, PortInv, ServoIrq
    PROVE  /\ tcnt1' \in Nat /\ next' \in 0 .. CountSize - 1
           /\ InTime(Channel', next') /\ NotAtOnce(Channel', next')
           /\ tcnt1' + HandlerTicks < next'
           /\ pc = "initISR2" => tcnt1' + HandlerTicks + HandlerTicks < next'
           /\ Channel' >= 0 => next' = tcnt1' + ticks[Channel']
<1> DEFINE x == CompareAfter(tcnt1', Channel + 1)
<1> USE ServoConstants
<1>1. /\ ocf /\ isr = "none" /\ pc # "ticks" /\ next' = x % CountSize
      /\ Channel' = IF Channel + 1 < ServoCount THEN Channel + 1 ELSE -1
      /\ tcnt1' = IF Channel < 0 THEN 0 ELSE tcnt1
  BY DEF ServoIrq, PortInv, LockInv
<1>2. /\ tcnt1 \in Nat /\ tcnt1' \in Nat /\ Channel \in -1 .. ServoCount - 1
      /\ pc = "initISR2" => tcnt1' <= HandlerTicks
  BY <1>1 DEF CompareInv, TicksInv
<1>3. SUFFICES /\ x \in Nat /\ InTime(Channel', x) /\ NotAtOnce(Channel', x)
               /\ tcnt1' + HandlerTicks < x
               /\ pc = "initISR2" => tcnt1' + HandlerTicks + HandlerTicks < x
               /\ Channel' >= 0 => x = tcnt1' + ticks[Channel']
  <2>1. ASSUME x \in Nat, x < CountSize PROVE x % CountSize = x
    BY <2>1
  <2>2. ASSUME x \in Nat, InTime(Channel', x) PROVE x < CountSize
    <3>1. CASE Channel' >= 0
      <4>1. Channel' \in 0 .. ServoCount - 1 /\ x <= Channel' * Turn + LongestPulse
        BY <1>1, <1>2, <2>2, <3>1 DEF InTime
      <4> QED BY <2>2, <4>1, TurnTimes
    <3>2. CASE ~ (Channel' >= 0)
      BY <2>2, <3>2 DEF InTime
    <3> QED BY <3>1, <3>2
  <2> HIDE DEF x
  <2> QED BY <1>1, <1>2, <2>1, <2>2
<1>4. CASE Channel + 1 < ServoCount
  <2>1. Channel' = Channel + 1 /\ Channel' \in Servos /\ Channel' >= 0
    BY <1>1, <1>2, <1>4 DEF Servos
  <2>2. ticks[Channel'] \in Widths
    BY <1>1, <2>1 DEF TicksInv
  <2>3. x = tcnt1' + ticks[Channel']
    BY <1>4, <2>1 DEF CompareAfter
  <2>4. x \in Nat /\ x > tcnt1' + 2 * HandlerTicks /\ x <= tcnt1' + LongestPulse
    BY <1>2, <2>2, <2>3
  <2>5. x <= Channel' * Turn + LongestPulse
    <3>1. CASE Channel < 0
      BY <1>1, <1>2, <2>1, <2>4, <3>1
    <3>2. CASE Channel >= 0
      <4>1. tcnt1 <= Channel * Turn + LongestPulse + Latency + HandlerTicks /\ tcnt1' = tcnt1
        BY <1>1, <1>2, <3>2, HandlerTime
      <4>2. Channel \in 0 .. ServoCount - 1
        BY <1>2, <3>2
      <4>3. Channel * Turn \in Nat /\ Channel' * Turn = Channel * Turn + Turn
        BY <2>1, <4>2, TurnTimes
      <4> HIDE DEF x
      <4> QED BY <1>2, <2>4, <4>1, <4>3
    <3> QED BY <1>2, <3>1, <3>2
  <2> HIDE DEF x
  <2> QED BY <1>2, <2>1, <2>3, <2>4, <2>5 DEF InTime, NotAtOnce
<1>5. CASE ~ (Channel + 1 < ServoCount)
  <2>1. Channel = ServoCount - 1 /\ Channel' = -1 /\ tcnt1' = tcnt1
    BY <1>1, <1>2, <1>5
  <2>2. x = IF tcnt1 + Margin < REFRESH THEN REFRESH ELSE tcnt1 + Margin
    BY <1>5, <2>1 DEF CompareAfter
  <2>3. tcnt1 + Margin + Latency < CountSize
    <3>1. tcnt1 <= Channel * Turn + LongestPulse + Latency + HandlerTicks
      BY <1>1, <2>1, HandlerTime
    <3>2. Channel \in 0 .. ServoCount - 1
      BY <2>1
    <3>3. /\ Channel * Turn \in Nat /\ (Channel + 1) * Turn = Channel * Turn + Turn
          /\ (Channel + 1) * Turn + Margin + Latency < CountSize
      BY <3>2, TurnTimes
    <3> QED BY <1>2, <3>1, <3>3
  <2>4. x \in Nat /\ x + Latency < CountSize /\ x >= tcnt1 + Margin /\ x >= REFRESH
    BY <1>2, <2>2, <2>3
  <2> HIDE DEF x
  <2> QED BY <1>2, <2>1, <2>4 DEF InTime, NotAtOnce
<1> QED BY <1>4, <1>5

\* The handler computes a compare value.
LEMMA IrqCompare ==
    ASSUME CompareInv, TicksInv, PortInv, ServoIrq
    PROVE  CompareInv'
<1> USE ServoConstants
<1>1. /\ ocf /\ ocie /\ isr = "none" /\ isr' = "servo" /\ spent' = 0 /\ ~ ocf'
      /\ UNCHANGED <<ocr, ocie, pc>>
      /\ tcnt1' = IF Channel < 0 THEN 0 ELSE tcnt1
  BY DEF ServoIrq
<1>2. Slack' = HandlerTicks /\ spent' \in 0 .. HandlerTicks
  BY <1>1 DEF Slack
<1>3. /\ tcnt1 \in 0 .. CountSize - 1 /\ ocr \in 0 .. CountSize - 1 /\ ocie \in BOOLEAN
      /\ tcnt1' \in 0 .. CountSize - 1 /\ next' \in 1 .. CountSize - 1
  <2>1. tcnt1 \in 0 .. CountSize - 1 /\ ocr \in 0 .. CountSize - 1 /\ ocie \in BOOLEAN
    BY DEF CompareInv
  <2>2. /\ tcnt1' \in Nat /\ next' \in 0 .. CountSize - 1 /\ tcnt1' + HandlerTicks < next'
    BY HandlerComputes
  <2> QED BY <1>1, <2>1, <2>2
<1>4. ocr' = 0 \/ ocr' <= tcnt1' \/ tcnt1' + Slack' < ocr'
  <2>1. CASE Channel < 0
    BY <1>1, <1>2, <2>1 DEF CompareInv, NotAtOnce
  <2>2. CASE Channel >= 0 /\ pc # "initISR2"
    <3>1. ocr <= tcnt1
      BY <1>1, <2>2 DEF CompareInv
    <3>2. tcnt1' = tcnt1 /\ ocr' = ocr
      BY <1>1, <2>2 DEF TicksInv
    <3> QED BY <3>1, <3>2
  <2>3. CASE Channel >= 0 /\ pc = "initISR2"
    BY <1>1, <1>2, <2>3 DEF CompareInv, NotAtOnce
  <2> QED BY <2>1, <2>2, <2>3 DEF TicksInv
<1>5. InTime(Channel, next)' /\ NotAtOnce(Channel, next)'
  BY HandlerComputes DEF InTime, NotAtOnce
<1>6. /\ tcnt1' + Slack' < next'
      /\ pc' = "initISR2" => tcnt1' + Slack' + HandlerTicks < next'
  BY <1>1, <1>2, HandlerComputes
<1>7. ocf' \in BOOLEAN
  BY DEF ServoIrq
<1>8. ocr' \in 0 .. CountSize - 1 /\ ocie' /\ ocie' \in BOOLEAN
  BY <1>1, <1>3
<1> QED BY <1>1, <1>2, <1>3, <1>4, <1>5, <1>6, <1>7, <1>8 DEF CompareInv

\* The handler writes it.
LEMMA IrqEndCompare ==
    ASSUME CompareInv, ServoIrqEnd
    PROVE  CompareInv'
<1> USE ServoConstants DEF CompareInv, Slack
<1>1. /\ isr = "servo" /\ isr' = "none" /\ ocr' = next /\ spent' = 0
      /\ UNCHANGED <<Channel, tcnt1, ocf, ocie, pc>>
  BY DEF ServoIrqEnd
<1>2. InTime(Channel, ocr)' /\ NotAtOnce(Channel, ocr)'
  BY <1>1 DEF InTime, NotAtOnce
<1> QED BY <1>1, <1>2

\* initISR() sets the counter back.
LEMMA InitCompare ==
    ASSUME CompareInv, TicksInv, InitCount \/ InitInterrupt
    PROVE  CompareInv'
<1> USE ServoConstants DEF CompareInv, Slack
<1>1. isr = "none" /\ spent' = 0 /\ UNCHANGED <<Channel, ocr, isr>>
  BY DEF InitCount, InitInterrupt
<1>2. InTime(Channel, ocr)' = InTime(Channel, ocr)
      /\ NotAtOnce(Channel, ocr)' = NotAtOnce(Channel, ocr)
  BY <1>1 DEF InTime, NotAtOnce
<1>3. ocr # 0 => ocr > HandlerTicks
  BY <1>1 DEF NotAtOnce, TicksInv
<1>4. CASE InitCount
  BY <1>1, <1>2, <1>3, <1>4 DEF InitCount
<1>5. CASE InitInterrupt
  <2>1. pc = "initISR2" /\ pc' # "initISR2" /\ ~ ocf' /\ ocf' \in BOOLEAN
        /\ ocie' = TRUE /\ tcnt1' = tcnt1
    BY <1>5 DEF InitInterrupt
  <2>2. ocr # 0 => tcnt1 < ocr
    BY <1>1, <2>1
  <2> QED BY <1>1, <1>2, <2>1, <2>2
<1> QED BY <1>4, <1>5

\* A step that neither counts nor enters or leaves initISR() leaves it.
LEMMA SameCompare ==
    ASSUME CompareInv, UNCHANGED <<timerRegs, Channel, isr, next, spent>>,
           (pc' = "initISR2") = (pc = "initISR2")
    PROVE  CompareInv'
<1>1. UNCHANGED <<tcnt1, ocr, ocf, ocie, Channel, isr, next, spent>>
  BY DEF timerRegs
<1>2. /\ InTime(Channel, ocr)' = InTime(Channel, ocr)
      /\ NotAtOnce(Channel, ocr)' = NotAtOnce(Channel, ocr)
      /\ InTime(Channel, next)' = InTime(Channel, next)
      /\ NotAtOnce(Channel, next)' = NotAtOnce(Channel, next)
  BY <1>1 DEF InTime, NotAtOnce
<1> QED BY <1>1, <1>2 DEF CompareInv, Slack

\* Every step keeps the compare value ahead.
LEMMA CompareStep == CompareInv /\ TicksInv /\ PortInv /\ [PinsNext]_pinVars => CompareInv'
<1> SUFFICES ASSUME CompareInv, TicksInv, PortInv, [PinsNext]_pinVars PROVE CompareInv'
  OBVIOUS
<1>1. CASE TimerTick /\ UNCHANGED <<portVars, toneVars>>
  BY <1>1, TickCompare DEF portVars
<1>2. CASE ServoHandler
  BY <1>2, IrqCompare, IrqEndCompare DEF ServoHandler
<1>3. CASE InitCount \/ InitInterrupt
  BY <1>3, InitCompare
<1>4. CASE UNCHANGED <<servoVars, pc>>
  BY <1>4, SameCompare DEF servoVars, timerRegs
<1>5. ASSUME NEW s \in Servos, CallAttach(s) \/ Detach(s) PROVE CompareInv'
  BY <1>5, SameCompare DEF CallAttach, Detach, servoVars, portVars, timerRegs
<1>6. ASSUME NEW s \in Servos, NEW w \in Widths, WriteTicksLow(s, w) PROVE CompareInv'
  BY <1>6, SameCompare DEF WriteTicksLow
<1>7. CASE WriteTicksHigh \/ Activate
  BY <1>7, SameCompare DEF WriteTicksHigh, Activate
<1>8. CASE ToneIrq /\ UNCHANGED servoVars
  BY <1>4, <1>8 DEF ToneIrq
<1>9. CASE ToneCalls /\ UNCHANGED servoVars
  BY <1>9, SameCompare DEF ToneCalls, CallNoTone, CallTone, StoreCountLow, StoreCountHigh,
     EnableTone, DisableTone, servoVars, timerRegs
<1>10. CASE Write
  BY <1>10, SameCompare DEF Write, WriteLoad, WriteStore, servoVars, timerRegs
<1>11. CASE UNCHANGED pinVars
  BY <1>4, <1>11 DEF pinVars, portVars
<1> QED
  BY <1>1, <1>2, <1>3, <1>5, <1>6, <1>7, <1>8, <1>9, <1>10, <1>11 DEF PinsNext, ServoCalls

\* CompareInv holds in every state.
LEMMA CompareInvariant == PinsSpec => [](CompareInv /\ TicksInv /\ PortInv)
<1>1. PinsInit => CompareInv
  <2> SUFFICES ASSUME PinsInit PROVE CompareInv
    OBVIOUS
  <2>1. InTime(0, 0)
    BY ServoConstants, TurnTimes DEF InTime
  <2>2. InTime(Channel, ocr)
    BY <2>1 DEF PinsInit, ServoInit
  <2>3. HandlerTicks \in Nat /\ CountSize \in Nat /\ CountSize > 0
    BY ServoConstants
  <2>4. /\ tcnt1 = 0 /\ ocr = 0 /\ ocf = FALSE /\ ocie = FALSE /\ isr = "none"
        /\ spent = 0 /\ Channel = 0 /\ pc = "sketch"
    BY DEF PinsInit, PortInit, ServoInit
  <2>5. tcnt1 \in 0 .. CountSize - 1 /\ ocr \in 0 .. CountSize - 1
    <3>1. 0 \in 0 .. CountSize - 1
      BY <2>3
    <3> QED BY <2>4, <3>1
  <2>6. spent \in 0 .. HandlerTicks
    BY <2>3, <2>4
  <2>7. ocf \in BOOLEAN /\ ocie \in BOOLEAN /\ ~ ocie /\ ~ ocf /\ isr # "servo" /\ pc # "initISR2"
    BY <2>4
  <2> QED BY <2>2, <2>4, <2>5, <2>6, <2>7 DEF CompareInv
<1>2. PinsInit => TicksInv
  BY ServoConstants DEF PinsInit, PortInit, ServoInit, TicksInv
<1> QED BY <1>1, <1>2, CompareStep, TicksStep, PortInvariant, PTL DEF PinsSpec

\* Whatever is attached, detached or written and however late the handler comes, the
\* compare value that ends a pulse or the refresh interval is ahead of the counter.
THEOREM CompareStaysAhead == PinsSpec => []CompareIsAhead
<1>1. CompareInv => CompareIsAhead
  BY ServoConstants DEF CompareInv, CompareIsAhead, Slack
<1> QED BY <1>1, CompareInvariant, PTL

-----------------------------------------------------------------------------
\* Every step keeps the pulse as long as was asked for.
LEMMA PulseStep ==
    CompareInv /\ TicksInv /\ PortInv /\ PulseInv /\ [PinsNext]_pinVars => PulseInv'
<1> SUFFICES ASSUME CompareInv, TicksInv, PortInv, PulseInv, [PinsNext]_pinVars PROVE PulseInv'
  OBVIOUS
<1>1. CASE TimerTick /\ UNCHANGED <<portVars, toneVars>>
  <2>1. UNCHANGED <<ticks, isActive, Channel, ocr, ocie, isr, next, pc>>
    BY <1>1 DEF TimerTick, portVars
  <2>2. pulse' = IF pulse.of >= 0 THEN [pulse EXCEPT !.width = @ + 1] ELSE pulse
    BY <1>1 DEF TimerTick
  <2>3. CASE pulse.of = -1
    <3>1. pulse' = pulse
      BY <2>2, <2>3
    <3>2. ASSUME isr = "servo" PROVE tcnt1' = tcnt1 + 1 /\ spent' = spent + 1
      BY <1>1, <3>2, ServoConstants DEF TimerTick, InNeighbours, CompareInv, Slack
    <3>3. tcnt1 \in Nat /\ spent \in Nat
      BY ServoConstants DEF CompareInv
    <3>4. Channel >= 0 => Channel \in Servos
      BY ServoConstants DEF TicksInv, Servos
    <3> QED BY <2>1, <2>3, <3>1, <3>2, <3>3, <3>4 DEF PulseInv, TicksInv
  <2>4. CASE pulse.of # -1
    <3>1. /\ pulse.of \in Servos /\ pulse.of = Channel /\ isActive[Channel]
          /\ pulse = [of |-> Channel, width |-> pulse.width, asked |-> pulse.asked]
          /\ pulse.asked \in Widths /\ pulse.width \in Nat
          /\ isr = "none" /\ ocie /\ ocr # 0
          /\ pulse.width + ocr - tcnt1 \in pulse.asked - HandlerTicks .. pulse.asked
      BY <2>4 DEF PulseInv
    <3>2. pulse.of >= 0
      BY <3>1, ServoConstants DEF Servos
    <3>3. pulse' = [of |-> Channel, width |-> pulse.width + 1, asked |-> pulse.asked]
      BY <2>2, <3>1, <3>2
    <3>4. /\ pulse'.of = Channel /\ pulse'.width = pulse.width + 1
          /\ pulse'.asked = pulse.asked
      BY <3>3
    <3>5. tcnt1' = tcnt1 + 1
      <4>1. ocr + Latency < CountSize
        BY <3>1, InTimeIs DEF CompareInv
      <4>2. pc # "initISR2"
        BY <3>1 DEF TicksInv
      <4>3. tcnt1 \in Nat /\ tcnt1 + 1 < CountSize
        <5>1. CASE ocf
          <6>1. Late = tcnt1 - ocr /\ Late < Latency
            BY <1>1, <3>1, <4>1, <4>2, <5>1, ServoConstants DEF TimerTick, Late, CompareInv
          <6> QED BY <4>1, <6>1, ServoConstants DEF CompareInv
        <5>2. CASE ~ ocf
          BY <3>1, <4>2, <5>2, ServoConstants DEF CompareInv
        <5> QED BY <5>1, <5>2
      <4>4. tcnt1' = (tcnt1 + 1) % CountSize
        BY <1>1 DEF TimerTick
      <4> QED BY <4>3, <4>4, ServoConstants
    <3>6. /\ tcnt1 \in Nat /\ ocr \in Nat /\ HandlerTicks \in Nat /\ pulse.asked \in Nat
      BY <3>1, ServoConstants DEF CompareInv
    <3>7. pulse'.width + ocr' - tcnt1' \in pulse'.asked - HandlerTicks .. pulse'.asked
      BY <2>1, <3>1, <3>4, <3>5, <3>6
    <3> QED BY <2>1, <3>1, <3>3, <3>4, <3>7 DEF PulseInv
  <2> QED BY <2>3, <2>4
<1>2. CASE ServoIrq
  <2>1. isr' = "servo" /\ spent' = 0 /\ UNCHANGED ticks /\ isr = "none"
    BY <1>2 DEF ServoIrq
  <2>2. pulse'.of = -1
    <3>1. pulse' = IF pulse.of = Channel THEN NoPulse ELSE pulse
      BY <1>2 DEF ServoIrq
    <3> QED BY <3>1 DEF PulseInv, NoPulse
  <2>3. Channel' >= 0 => next' = tcnt1' - spent' + ticks'[Channel']
    <3>1. tcnt1' \in Nat /\ (Channel' >= 0 => next' = tcnt1' + ticks[Channel'])
      BY <1>2, HandlerComputes
    <3>2. Channel' >= 0 => Channel' \in Servos
      BY <1>2, ServoConstants DEF ServoIrq, TicksInv, Servos
    <3>3. Channel' >= 0 => ticks[Channel'] \in Nat
      BY <3>2 DEF TicksInv
    <3> QED BY <2>1, <3>1, <3>3
  <2> QED BY <2>1, <2>2, <2>3 DEF PulseInv
<1>3. CASE ServoIrqEnd
  <2>1. /\ isr = "servo" /\ isr' = "none" /\ ocr' = next
        /\ UNCHANGED <<ticks, isActive, Channel, tcnt1, ocie>>
    BY <1>3 DEF ServoIrqEnd
  <2>2. pulse.of = -1
    BY <2>1 DEF PulseInv
  <2>3. CASE Channel >= 0 /\ isActive[Channel]
    <3>1. pulse' = [of |-> Channel, width |-> 0, asked |-> ticks[Channel]]
      BY <1>3, <2>3 DEF ServoIrqEnd
    <3>2. Channel \in Servos /\ ticks[Channel] \in Widths
      BY <2>1, <2>3, ServoConstants DEF TicksInv, Servos, PortInv, LockInv
    <3>3. next = tcnt1 - spent + ticks[Channel] /\ next > 0 /\ ocie
      BY <2>1, <2>3, ServoConstants DEF PulseInv, CompareInv
    <3>4. tcnt1 \in Nat /\ spent \in 0 .. HandlerTicks /\ HandlerTicks \in Nat /\ ticks[Channel] \in Nat
      BY <3>2, ServoConstants DEF CompareInv
    <3>5. pulse'.of = Channel /\ pulse'.width = 0 /\ pulse'.asked = ticks[Channel]
      BY <3>1
    <3>6. pulse'.width + ocr' - tcnt1' \in pulse'.asked - HandlerTicks .. pulse'.asked
      BY <2>1, <3>3, <3>4, <3>5
    <3> QED BY <2>1, <2>3, <3>1, <3>2, <3>3, <3>5, <3>6 DEF PulseInv
  <2>4. CASE ~(Channel >= 0 /\ isActive[Channel])
    <3>1. pulse' = pulse
      BY <1>3, <2>4 DEF ServoIrqEnd
    <3> QED BY <2>1, <2>2, <3>1 DEF PulseInv
  <2> QED BY <2>3, <2>4
<1>4. CASE UNCHANGED servoVars
  BY <1>4 DEF PulseInv, servoVars
<1>5. ASSUME NEW s \in Servos, CallAttach(s) PROVE PulseInv'
  BY <1>4, <1>5 DEF CallAttach
<1>6. ASSUME NEW s \in Servos, Detach(s) PROVE PulseInv'
  <2>1. /\ isr = "none" /\ isr' = "none" /\ UNCHANGED <<ocr, ocie, tcnt1, Channel>>
        /\ isActive' = [isActive EXCEPT ![s] = FALSE]
        /\ pulse' = IF pulse.of = s THEN NoPulse ELSE pulse
    BY <1>6 DEF Detach, timerRegs
  <2>2. CASE pulse.of = s \/ pulse.of = -1
    <3>1. pulse'.of = -1
      BY <2>1, <2>2 DEF NoPulse
    <3> QED BY <2>1, <3>1 DEF PulseInv
  <2>3. CASE pulse.of # s /\ pulse.of # -1
    <3>1. Channel \in Servos /\ Channel # s /\ pulse' = pulse
      BY <2>1, <2>3 DEF PulseInv
    <3>2. isActive'[Channel] = isActive[Channel]
      BY <2>1, <3>1 DEF TicksInv
    <3> QED BY <2>1, <3>1, <3>2 DEF PulseInv
  <2> QED BY <2>2, <2>3
<1>7. CASE InitCount
  <2>1. pulse.of = -1
    BY <1>7 DEF InitCount, PulseInv, TicksInv
  <2> QED BY <1>7, <2>1 DEF InitCount, PulseInv
<1>8. CASE InitInterrupt
  BY <1>8 DEF InitInterrupt, PulseInv
<1>9. CASE Activate
  <2>1. /\ isr = "none" /\ isr' = "none" /\ UNCHANGED <<ocr, ocie, tcnt1, Channel, pulse>>
        /\ isActive' = [isActive EXCEPT ![arg.servo] = TRUE] /\ arg.servo \in Servos
    BY <1>9 DEF Activate, timerRegs, TicksInv
  <2>2. Channel \in Servos /\ isActive[Channel] => isActive'[Channel]
    BY <2>1 DEF TicksInv
  <2> QED BY <2>1, <2>2 DEF PulseInv
<1>10. ASSUME NEW s \in Servos, NEW w \in Widths, WriteTicksLow(s, w) PROVE PulseInv'
  BY <1>10 DEF WriteTicksLow, PulseInv, timerRegs
<1>11. CASE WriteTicksHigh
  BY <1>11 DEF WriteTicksHigh, PulseInv, timerRegs
<1>12. CASE UNCHANGED pinVars
  BY <1>4, <1>12 DEF pinVars
<1> QED
  BY <1>1, <1>2, <1>3, <1>4, <1>5, <1>6, <1>7, <1>8, <1>9, <1>10, <1>11, <1>12
  DEF PinsNext, ServoHandler, ServoCalls, Write

\* Only the handler ends the pulse of a servo that is still attached, and only on time.
LEMMA PulseEnds ==
    ASSUME CompareInv, TicksInv, PulseInv, [PinsNext]_pinVars,
           pulse.of >= 0, pulse'.of # pulse.of, isActive'[pulse.of]
    PROVE  /\ pulse.asked \in Widths
           /\ pulse.width \in pulse.asked - HandlerTicks .. pulse.asked + Latency
<1>1. /\ pulse.of \in Servos /\ pulse.of = Channel /\ isActive[Channel]
      /\ pulse = [of |-> Channel, width |-> pulse.width, asked |-> pulse.asked]
      /\ pulse.asked \in Widths /\ pulse.width \in Nat
      /\ isr = "none" /\ ocie /\ ocr # 0
      /\ pulse.width + ocr - tcnt1 \in pulse.asked - HandlerTicks .. pulse.asked
  <2>1. pulse.of # -1
    OBVIOUS
  <2> QED BY <2>1 DEF PulseInv
<1>2. pc # "initISR2"
  BY <1>1 DEF TicksInv
<1>3. pulse' # pulse
  OBVIOUS
<1>4. ~ TimerTick
  <2>1. ASSUME TimerTick PROVE FALSE
    <3>1. pulse' = [pulse EXCEPT !.width = @ + 1]
      BY <2>1 DEF TimerTick
    <3>2. pulse' = [of |-> Channel, width |-> pulse.width + 1, asked |-> pulse.asked]
      BY <1>1, <3>1
    <3> QED BY <1>1, <3>2
  <2> QED BY <2>1
<1>5. ASSUME NEW s \in Servos PROVE ~ Detach(s)
  <2>1. ASSUME Detach(s) PROVE FALSE
    <3>1. pulse.of = s /\ isActive' = [isActive EXCEPT ![s] = FALSE]
      BY <1>3, <2>1 DEF Detach
    <3>2. ~ isActive'[s]
      BY <3>1 DEF TicksInv
    <3> QED BY <3>1, <3>2
  <2> QED BY <2>1
<1>6. ServoIrq
  BY <1>1, <1>3, <1>4, <1>5 DEF PinsNext, ServoHandler, ServoIrqEnd, ServoCalls, CallAttach,
     WriteTicksLow, InitCount, InitInterrupt, Activate, WriteTicksHigh, Write, servoVars, pinVars
<1>7. ocr <= tcnt1 /\ tcnt1 <= ocr + Latency /\ ocr \in Nat /\ tcnt1 \in Nat
  <2>1. ocf
    BY <1>6 DEF ServoIrq
  <2> QED BY <1>1, <1>2, <2>1, ServoConstants DEF CompareInv
<1>8. pulse.asked \in Nat /\ Latency \in Nat /\ HandlerTicks \in Nat
  BY <1>1, ServoConstants
<1> QED BY <1>1, <1>7, <1>8

\* The pulses of every servo have the width the sketch asked for, whatever it attaches,
\* detaches and writes meanwhile, for every set of widths and every latency that leave
\* room in the counter.
THEOREM PulsesAreCommanded == PinsSpec => PulseIsCommanded
<1>1. PinsInit => PulseInv
  BY DEF PinsInit, ServoInit, PulseInv, NoPulse
<1>2. CompareInv /\ TicksInv /\ PulseInv /\ [PinsNext]_pinVars
      => [ pulse.of >= 0 /\ pulse'.of # pulse.of /\ isActive'[pulse.of]
           => /\ pulse.asked \in Widths
              /\ pulse.width \in pulse.asked - HandlerTicks .. pulse.asked + Latency
         ]_<<portVars, servoVars>>
  BY PulseEnds
<1> QED BY <1>1, <1>2, PulseStep, CompareInvariant, PTL DEF PinsSpec, PulseIsCommanded
=============================================================================
