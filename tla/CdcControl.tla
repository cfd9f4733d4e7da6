----------------------------- MODULE CdcControl -----------------------------
(***************************************************************************)
(* The requests that reach the application's CDC interface (CDC_Setup(),   *)
(* CDC.cpp): a host that closes the port at 1200 baud asks the application *)
(* for the bootloader.  The request is served in the USB interrupt, which  *)
(* waits for the watchdog there.                                           *)
(*                                                                         *)
(* The repository's bootloader has no LUFA signature, so the key goes to   *)
(* MAGIC_KEY_POS, in the middle of the RAM.  MAGIC_KEY is the value of the *)
(* bootloader's own BOOT_KEY, but MagicBootKey lies elsewhere.  Nothing    *)
(* reserves either cell: the sketch's data may lie over both.              *)
(***************************************************************************)
EXTENDS Bootloader

VARIABLES
    touchRate,   \* dwDTERate is 1200
    keyHeld,     \* MAGIC_KEY is at MAGIC_KEY_POS
    wdtcsr_save  \* whether it holds a running watchdog

appVars == <<touchRate, keyHeld, wdtcsr_save>>

\* Nothing is known of them while the bootloader runs.
NoApp == touchRate' = FALSE /\ keyHeld' = FALSE /\ wdtcsr_save' = FALSE

\* The application's RAM when it starts; the cell of this key may hold any value
\* then, that of MagicBootKey has just been cleared.
AppStarts ==
    /\ touchRate' = FALSE /\ wdtcsr_save' = FALSE
    /\ keyHeld' \in BOOLEAN

\* What a step of the board does to it.
AppRam ==
    \/ pc' = "app" /\ pc = "check" /\ AppStarts
    \/ pc' \in {"app", "touch"} /\ pc # "check" /\ UNCHANGED appVars
    \/ pc' \notin {"app", "touch"} /\ NoApp

\* The sketch's data lies over the cells of both keys.
SketchWrites ==
    /\ AppUsesRam
    /\ keyHeld' \in BOOLEAN
    /\ UNCHANGED <<touchRate, wdtcsr_save>>

InApp == pc = "app" /\ attached

\* CDC_SET_LINE_CODING
SetLineCoding ==
    /\ InApp
    /\ touchRate' \in BOOLEAN
    /\ UNCHANGED <<bootVars, keyHeld, wdtcsr_save>>

\* Mutant of Touch: the key is the bootloader's own.
TouchWithBootKey ==
    /\ wdtcsr_save' = wdt
    /\ MagicBootKey' = TRUE /\ keyHeld' = TRUE
    /\ wdt' = TRUE
    /\ pc' = "touch"
    /\ UNCHANGED stray

\* The key is stored, the watchdog started, and the handler waits.
Touch ==
    /\ wdtcsr_save' = wdt
    /\ keyHeld' = TRUE
    /\ wdt' = TRUE
    /\ pc' = "touch"
    /\ UNCHANGED <<MagicBootKey, stray>>

\* A key that is found is taken for that of a reset to be cancelled, and the word
\* at the end of the RAM, whatever it is, for the one that was backed up there.
CancelTouch ==
    /\ wdt' = wdtcsr_save
    /\ keyHeld' \in BOOLEAN
    /\ UNCHANGED <<MagicBootKey, stray, pc, wdtcsr_save>>

\* CDC_SET_CONTROL_LINE_STATE
SetControlLineState ==
    /\ InApp
    /\ \E dtr \in BOOLEAN :
          IF touchRate /\ ~dtr THEN Touch
          ELSE IF keyHeld THEN CancelTouch
          ELSE UNCHANGED <<MagicBootKey, stray, wdt, pc, keyHeld, wdtcsr_save>>
    /\ UNCHANGED <<flash, mcusr, why, RunBootloader, pageVars, task, cmd, pend,
                   left, attached, reply, touchRate>>

ControlRequest == SetLineCoding \/ SetControlLineState

-----------------------------------------------------------------------------
\* "auto-reset into the bootloader is triggered when the port, already open at
\* 1200 bps, is closed": the board ends up in the bootloader's loop, whatever
\* resets came before and whatever the touch left in its own key, unless the
\* power goes or the check finds MagicBootKey there by chance.
TouchReturns ==
    pc = "touch" ~> pc \in {"midi", "off"} \/ (pc = "check" /\ stray)
=============================================================================
