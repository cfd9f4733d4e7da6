-------------------------- MODULE BootloaderUpload --------------------------
(***************************************************************************)
(* Bootloader with a MIDI uploader at the other end of the cable: it sends *)
(* StartFirmware, the image two bytes at a time, and ExitBootloader, and   *)
(* starts over whenever it likes.  Another program on the same host talks  *)
(* to the CDC port at the same time, as programs that probe new serial     *)
(* ports do, with commands that change neither address nor flash.  Once    *)
(* the application runs, hosts open and close its port at any rate.        *)
(***************************************************************************)
EXTENDS CdcControl, FiniteSets

CONSTANT Image   \* the application: a function on 0 .. ImageSize - 1

ImageSize == Cardinality(DOMAIN Image)

\* The uploader pads the image to whole pages; it fits below the bootloader
\* and begins with an instruction, not with erased flash.
ASSUME ImageAssumption ==
    /\ DOMAIN Image = 0 .. ImageSize - 1
    /\ ImageSize \in 2 .. BootStart /\ ImageSize % PageSize = 0
    /\ \A k \in DOMAIN Image : Image[k] \in Byte
    /\ ~(Image[0] = Blank /\ Image[1] = Blank)

VARIABLES
    offset,   \* how much of the image the uploader has sent
    session   \* "none", "upload", or "done" when it has sent ExitBootloader

uploadVars == <<offset, session>>
allVars == <<bootVars, appVars, uploadVars>>

UploadInit ==
    /\ BootInit
    /\ touchRate = FALSE /\ keyHeld = FALSE /\ wdtcsr_save = FALSE
    /\ offset = 0 /\ session = "none"

UploadStart ==
    /\ MidiStart /\ AppRam
    /\ offset' = 0 /\ session' = "upload"

UploadData ==
    /\ session = "upload" /\ offset < ImageSize
    /\ MidiData(Image[offset], Image[offset + 1]) /\ AppRam
    /\ offset' = offset + 2
    /\ UNCHANGED session

UploadExit ==
    /\ session = "upload" /\ offset = ImageSize
    /\ MidiExit /\ AppRam
    /\ session' = "done"
    /\ UNCHANGED offset

\* The board vanishes from the bus: an upload that was under way is over.
Vanish ==
    /\ \/ PowerOn \/ PowerOff \/ ExternalReset \/ BrownOut \/ WatchdogReset \/ Cable
    /\ AppRam
    /\ session' = IF session = "upload" THEN "none" ELSE session
    /\ UNCHANGED offset

\* The uploader is silent, and the other program talks; it may even send the
\* bootloader on its way in the middle of an upload.
Harmless == {"BlockRead", "ExitBootloader", "Other"}
OtherHost ==
    /\ \/ MidiNothing \/ CdcNothing
       \/ \E command \in Harmless : CdcCommand(command)
       \/ CdcBlockRead \/ CdcExit \/ CdcOther \/ CdcConclude
    /\ AppRam /\ UNCHANGED uploadVars

UploadCpu == Cpu /\ AppRam /\ UNCHANGED uploadVars

UploadedApp ==
    /\ (AppStopsWatchdog /\ AppRam) \/ SketchWrites \/ ControlRequest
    /\ UNCHANGED uploadVars

UploadNext ==
    \/ UploadStart \/ UploadData \/ UploadExit
    \/ Vanish \/ OtherHost \/ UploadCpu \/ UploadedApp

\* The CPU runs, its watchdog counts, and a host completes the CDC command it
\* has begun.  Nobody has to send a command, press the button or keep the
\* power.
UploadFairness ==
    /\ WF_allVars(UploadCpu)
    /\ WF_allVars(WatchdogReset /\ Vanish)
    /\ WF_allVars(OtherHost)

UploadSpec ==
    /\ UploadInit /\ [][UploadNext]_allVars
    /\ UploadFairness

-----------------------------------------------------------------------------
\* Once an upload is complete the application section holds the image, however
\* many uploads broke off before it, at whatever byte, and whatever resets
\* and power failures follow.
CompleteUploadIsInFlash ==
    session = "done" => \A k \in 0 .. ImageSize - 1 : flash[k] = Image[k]

\* After a complete upload power-on and an exit a host has asked for start the
\* image: the check that follows them does not stay in the bootloader.
UploadedStarts ==
    [][ (session = "done" /\ pc = "check" /\ why \in {"power", "exit"})
        => (pc' \in {"app", "off", "check"}) ]_allVars

\* An application that neither serves nor stops the watchdog is back in the
\* bootloader, unless the power goes or the check finds MagicBootKey there by
\* chance: the key that started it does not start it again.
FaultyReturns ==
    (pc = "app" /\ wdt) ~> \/ pc \in {"midi", "off"}
                           \/ pc = "app" /\ ~wdt
                           \/ pc = "check" /\ stray

\* "If the user code is faulty, the board will return automatically to booloader
\* mode", as the comment in Application_Jump_Check() says it (brown-outs aside).
\* It does not hold: an application whose data leaves the key in MagicBootKey's
\* cell is started again by its own watchdog reset, for ever.
FaultyAlwaysReturns ==
    (pc = "app" /\ wdt) ~> \/ pc \in {"midi", "off"}
                           \/ pc = "app" /\ ~wdt
                           \/ why = "brownout"
=============================================================================
