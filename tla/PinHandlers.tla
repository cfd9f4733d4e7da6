----------------------------- MODULE PinHandlers -----------------------------
(***************************************************************************)
(* A sketch that moves servos and plays tones on pins of one port, with    *)
(* the handlers of timer 1 and timer 3.  A handler runs to its end before  *)
(* the sketch or the other one goes on.                                    *)
(***************************************************************************)
EXTENDS Servo, Tone

\* A servo and a tone have pins of their own.
ASSUME PinAssumption == ServoPin \in [Servos -> Pins \ TonePins]

pinVars == <<portVars, servoVars, toneVars>>

PinsInit == PortInit /\ ServoInit /\ ToneInit

ServoHandler == ServoIrq \/ ServoIrqEnd

Write ==
    /\ isr = "none"
    /\ WriteLoad \/ WriteStore
    /\ WriteSilences
    /\ UNCHANGED servoVars

PinsNext ==
    \/ TimerTick /\ UNCHANGED <<portVars, toneVars>>
    \/ ServoHandler /\ UNCHANGED toneVars
    \/ ToneIrq /\ UNCHANGED servoVars
    \/ ServoCalls /\ UNCHANGED toneVars
    \/ isr = "none" /\ ToneCalls /\ UNCHANGED servoVars
    \/ Write

PinsSpec == PinsInit /\ [][PinsNext]_pinVars
=============================================================================
