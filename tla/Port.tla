-------------------------------- MODULE Port --------------------------------
(***************************************************************************)
(* The output register that the pins of one port share, and digitalWrite() *)
(* (cores/arduino/wiring_digital.c): the sketch and the interrupt handlers *)
(* each change one bit of it by reading and writing all of them.           *)
(*                                                                         *)
(* Pins are outputs throughout; their PWM is off.                          *)
(***************************************************************************)
EXTENDS Integers, FiniteSets

CONSTANT Pins

VARIABLES
    port,       \* the pins that are high
    ie,         \* SREG_I
    pc,         \* what the sketch executes next
    arg,        \* the arguments of the call the sketch is in
    loaded,     \* the register as the sketch has read it
    driven      \* the pins whose last write was HIGH (history)

portVars == <<port, ie, pc, arg, loaded, driven>>
NoArg == [call |-> "none"]

PortInit ==
    /\ port = {} /\ driven = {} /\ loaded = {}
    /\ ie = TRUE /\ pc = "sketch" /\ arg = NoArg

\* Mutant of InCli: the interrupts stay on.
NotInCli == TRUE

\* cli(), until SREG = oldSREG
InCli == FALSE

WithPin(set, p, high) == IF high THEN set \cup {p} ELSE set \ {p}

\* A handler, which nothing interrupts, writes a pin.
HandlerWrites(p, high) ==
    /\ port' = WithPin(port, p, high)
    /\ driven' = WithPin(driven, p, high)

\* The sketch's digitalWrite(arg.pin, arg.high).
WriteLoad ==
    /\ pc = "write"
    /\ ie' = InCli
    /\ loaded' = port
    /\ pc' = "store"
    /\ UNCHANGED <<port, arg, driven>>

WriteStore ==
    /\ pc = "store"
    /\ port' = WithPin(loaded, arg.pin, arg.high)
    /\ driven' = WithPin(driven, arg.pin, arg.high)
    /\ ie' = TRUE /\ loaded' = {}
    /\ pc' = "sketch" /\ arg' = NoArg

-----------------------------------------------------------------------------
\* Whoever wrote a pin last decided its level: the sketch and two handlers that
\* change bits of one register never undo each other's change.
PinsAreTheirWriters == port = driven
=============================================================================
