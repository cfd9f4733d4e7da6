-------------------------------- MODULE Tone --------------------------------
(***************************************************************************)
(* tone() and noTone() (cores/arduino/Tone.cpp), on timer 3, the only one  *)
(* they use on the board: the compare interrupt toggles the pin and counts *)
(* the toggles down.  The timer reaches its compare value at any time, so  *)
(* the handler may run whenever it is enabled.                             *)
(***************************************************************************)
EXTENDS Port

CONSTANTS
    TonePins,
    NoPin,      \* 255 in tone_pins
    Lengths,    \* the toggle counts tone() computes; -1 is a tone without end
    Part        \* how many values the part of the count has that is stored first

ASSUME ToneAssumption ==
    /\ TonePins \subseteq Pins /\ NoPin \notin TonePins
    /\ Lengths \subseteq Nat \cup {-1} /\ Part \in Nat \ {0}

VARIABLES
    tone_pin,           \* tone_pins[0]
    timer3_pin,         \* timer3_pin_mask
    timer3_toggle_count,
    ocie3,              \* OCIE3A
    quiet,              \* pins whose tone is over (history)
    planned, toggled    \* for a tone that began in silence: its length, what was heard (history)

toneVars == <<tone_pin, timer3_pin, timer3_toggle_count, ocie3, quiet, planned, toggled>>
Unknown == -2

ToneInit ==
    /\ tone_pin = NoPin /\ timer3_pin = NoPin /\ timer3_toggle_count = 0
    /\ ocie3 = FALSE
    /\ quiet = {} /\ planned = Unknown /\ toggled = 0

-----------------------------------------------------------------------------
\* Mutant of CountDown: the last toggle is not heard.
CountDownTwice == IF timer3_toggle_count > 1 THEN timer3_toggle_count - 2 ELSE timer3_toggle_count

CountDown == IF timer3_toggle_count > 0 THEN timer3_toggle_count - 1 ELSE timer3_toggle_count

\* TIMER3_COMPA_vect
ToneIrq ==
    /\ ie /\ ocie3
    /\ timer3_toggle_count' = CountDown
    /\ IF timer3_toggle_count # 0
       THEN /\ HandlerWrites(timer3_pin, timer3_pin \notin port)
            /\ toggled' = IF planned >= 0 THEN toggled + 1 ELSE toggled
            /\ UNCHANGED <<ocie3, quiet, planned>>
       ELSE /\ ocie3' = FALSE
            /\ HandlerWrites(timer3_pin, FALSE)
            /\ quiet' = quiet \cup {timer3_pin}
            /\ planned' = Unknown /\ toggled' = 0
    /\ UNCHANGED <<ie, pc, arg, loaded, tone_pin, timer3_pin>>

\* tone(): toneBegin() gives up when another pin has the timer.  What it sets up
\* stays after the tone has ended by itself.
CallTone(p, n) ==
    /\ pc = "sketch"
    /\ IF tone_pin \in {p, NoPin}
       THEN /\ pc' = "count" /\ arg' = [call |-> "tone", pin |-> p, count |-> n]
            /\ quiet' = quiet \ {p}
       ELSE UNCHANGED <<pc, arg, quiet>>
    /\ tone_pin' = IF tone_pin = NoPin THEN p ELSE tone_pin
    /\ timer3_pin' = IF tone_pin = NoPin THEN p ELSE timer3_pin
    /\ UNCHANGED <<port, ie, loaded, driven, timer3_toggle_count, ocie3, planned, toggled>>

\* timer3_toggle_count = toggle_count, byte after byte, with interrupts on.
StoreCountLow ==
    /\ pc = "count"
    /\ timer3_toggle_count' = (timer3_toggle_count \div Part) * Part + (arg.count % Part)
    /\ pc' = "count2"
    /\ planned' = IF ocie3 THEN Unknown ELSE arg.count
    /\ toggled' = 0
    /\ UNCHANGED <<port, ie, arg, loaded, driven, tone_pin, timer3_pin, ocie3, quiet>>

StoreCountHigh ==
    /\ pc = "count2"
    /\ timer3_toggle_count' = (arg.count \div Part) * Part + (timer3_toggle_count % Part)
    /\ pc' = "enable"
    /\ UNCHANGED <<port, ie, arg, loaded, driven, tone_pin, timer3_pin, ocie3, quiet, planned, toggled>>

\* bitWrite(TIMSK3, OCIE3A, 1)
EnableTone ==
    /\ pc = "enable"
    /\ ocie3' = TRUE
    /\ quiet' = quiet \ {arg.pin}    \* the tone before may have ended meanwhile
    /\ pc' = "sketch" /\ arg' = NoArg
    /\ UNCHANGED <<port, ie, loaded, driven, tone_pin, timer3_pin, timer3_toggle_count, planned, toggled>>

\* Mutant of CallNoTone: the pin is written first.
CallNoToneLate(p) ==
    /\ pc = "sketch"
    /\ tone_pin' = IF tone_pin = p THEN NoPin ELSE tone_pin
    /\ pc' = "write"
    /\ arg' = [call |-> "noTone", pin |-> p, high |-> FALSE]
    /\ quiet' = quiet
    /\ UNCHANGED <<port, ie, loaded, driven, timer3_pin, timer3_toggle_count, ocie3, planned, toggled>>

\* noTone(): the timer is given back and disabled if it was this pin's, ...
CallNoTone(p) ==
    /\ pc = "sketch"
    /\ tone_pin' = IF tone_pin = p THEN NoPin ELSE tone_pin
    /\ pc' = IF tone_pin = p THEN "disable" ELSE "write"
    /\ arg' = [call |-> "noTone", pin |-> p, high |-> FALSE]
    /\ UNCHANGED <<port, ie, loaded, driven, timer3_pin, timer3_toggle_count, ocie3, quiet, planned, toggled>>

\* disableTimer(3)
DisableTone ==
    /\ pc = "disable"
    /\ ocie3' = FALSE
    /\ planned' = Unknown /\ toggled' = 0
    /\ pc' = "write"
    /\ UNCHANGED <<port, ie, arg, loaded, driven, tone_pin, timer3_pin, timer3_toggle_count, quiet>>

\* ... and digitalWrite(_pin, 0) ends it (the steps are Port's).
WriteSilences ==
    /\ quiet' = IF pc = "store" /\ arg.call = "noTone" THEN quiet \cup {arg.pin} ELSE quiet
    /\ UNCHANGED <<tone_pin, timer3_pin, timer3_toggle_count, ocie3, planned, toggled>>

ToneCalls ==
    \/ \E p \in TonePins : CallNoTone(p) \/ \E n \in Lengths : CallTone(p, n)
    \/ StoreCountLow \/ StoreCountHigh \/ EnableTone \/ DisableTone

-----------------------------------------------------------------------------
\* When noTone() has returned, and when a tone has ended by itself, the pin is
\* low and stays low until the sketch starts a tone on it.
SilenceIsKept == quiet \cap port = {}

\* A tone with a duration that begins in silence toggles the pin as often as
\* was computed before it ends, and one without never ends.
ToneHasItsLength ==
    [][ ocie3 /\ ~ ocie3' /\ timer3_toggle_count = 0 /\ pc # "disable" /\ planned # Unknown
        => toggled = planned ]_<<portVars, toneVars>>
=============================================================================
