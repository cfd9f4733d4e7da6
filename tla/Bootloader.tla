----------------------------- MODULE Bootloader -----------------------------
(***************************************************************************)
(* The Quirkbot bootloader: the check that starts the application after a  *)
(* reset, the loop that serves MIDI and CDC commands, and the page writer  *)
(* both share.  Resets and power loss strike between any two steps; flash  *)
(* survives them, RAM does not survive loss of power.  MagicBootKey lies   *)
(* in RAM that nothing reserves: while the application runs, its own data  *)
(* may lie over the cell and hold any value, that of the key included.     *)
(*                                                                         *)
(* The hosts are not restricted here: any command and any byte may come at *)
(* any time, and the cable may be pulled.  BootloaderUpload restricts them *)
(* to an uploader.                                                         *)
(***************************************************************************)
EXTENDS Naturals, Sequences

CONSTANTS
    Byte,        \* the values a byte takes
    Blank, Zero, \* 0xFF, the value of erased flash, and 0x00
    BootCode,    \* what the boot section holds; stands for no other byte
    PageSize,    \* SPM_PAGESIZE
    BootStart,   \* BOOT_START_ADDR
    FlashSize,   \* FLASHEND + 1
    AddrSpace    \* 2^16, the values of the uint16_t CurrAddress

ASSUME ByteAssumption == Blank \in Byte /\ Zero \in Byte /\ BootCode \notin Byte
ASSUME GeometryAssumption ==
    /\ PageSize \in 2..254 /\ PageSize % 2 = 0
    /\ BootStart \in Nat /\ FlashSize \in Nat /\ AddrSpace \in Nat
    /\ PageSize <= BootStart /\ BootStart < FlashSize /\ FlashSize <= AddrSpace
    /\ BootStart % PageSize = 0 /\ FlashSize % PageSize = 0
    /\ AddrSpace % PageSize = 0

VARIABLES
    flash,               \* the program memory
    MagicBootKey,        \* whether the RAM cell holds MAGIC_BOOT_KEY
    mcusr,               \* the reset flags
    wdt,                 \* the watchdog is running
    RunBootloader,
    CurrAddress,
    FirmwarePageIndex, FirmwarePageBuffer,
    pc,                  \* what the CPU executes next
    task,                \* who called PushFirmwareByte(): "midi" or "cdc"
    cmd,                 \* the CDC command being served
    pend,                \* bytes given to PushFirmwareByte() and not pushed yet
    left,                \* bytes CDC_WriteMemoryBlock() still has to fetch
    attached,            \* USB_DeviceState # DEVICE_STATE_Unattached
    reply,               \* the block CDC_ReadMemoryBlock() is sending
    why,                 \* the cause of the last reset (history)
    stray                \* the key is in its cell by chance: power-on, a
                         \* brown-out or the application's data left it there
                         \* (history)

pageVars == <<CurrAddress, FirmwarePageIndex, FirmwarePageBuffer>>
resetVars == <<MagicBootKey, mcusr, wdt, why, stray>>
bootVars == <<flash, MagicBootKey, mcusr, wdt, RunBootloader, CurrAddress,
              FirmwarePageIndex, FirmwarePageBuffer, pc, task, cmd, pend, left,
              attached, reply, why, stray>>

FlashAddr == 0 .. FlashSize - 1
PageSlots == 0 .. PageSize - 1
EvenAddr  == {a \in 0 .. AddrSpace - 1 : a % 2 = 0}
BootPcs   == {"off", "check", "midi", "cdc", "args", "fetch", "push", "erase", "write",
              "next", "conclude", "loop", "exit", "spin", "app", "touch"}

\* A board as it is delivered: no application, the bootloader in its section.
BootInit ==
    /\ flash = [a \in FlashAddr |-> IF a < BootStart THEN Blank ELSE BootCode]
    /\ MagicBootKey = FALSE /\ stray = FALSE
    /\ mcusr = {} /\ wdt = FALSE
    /\ RunBootloader = TRUE
    /\ CurrAddress = 0
    /\ FirmwarePageIndex = 0 /\ FirmwarePageBuffer = [s \in PageSlots |-> Zero]
    /\ pc = "off" /\ task = "midi" /\ cmd = "Other" /\ pend = <<>> /\ left = 0
    /\ attached = TRUE /\ reply = <<>>
    /\ why = "power"

-----------------------------------------------------------------------------
\* Resets.

\* The bootloader's variables as its C runtime initializes them after every
\* reset: all of them but MagicBootKey.
ClearRam ==
    /\ RunBootloader' = TRUE
    /\ CurrAddress' = 0
    /\ FirmwarePageIndex' = 0 /\ FirmwarePageBuffer' = [s \in PageSlots |-> Zero]
    /\ task' = "midi" /\ cmd' = "Other"
    /\ pend' = <<>> /\ left' = 0 /\ reply' = <<>>
    /\ UNCHANGED <<flash, attached>>

Restart == pc' = "check" /\ ClearRam

\* What else than the bootloader writes the cell of the key may write the key.
CellByChance == MagicBootKey' \in BOOLEAN /\ stray' = MagicBootKey'

\* RAM comes up with any content.
PowerOn ==
    /\ pc = "off"
    /\ mcusr' = {"PORF"}
    /\ CellByChance
    /\ why' = "power"
    /\ wdt' = FALSE
    /\ Restart

PowerOff ==
    /\ pc # "off"
    /\ pc' = "off"
    /\ mcusr' = {} /\ wdt' = FALSE
    /\ ClearRam
    /\ UNCHANGED <<MagicBootKey, stray, why>>

\* The reset button.
ExternalReset ==
    /\ pc # "off"
    /\ mcusr' = mcusr \cup {"EXTRF"}
    /\ why' = "button"
    /\ wdt' = FALSE
    /\ Restart
    /\ UNCHANGED <<MagicBootKey, stray>>

\* The supply dips below the brown-out level: RAM may have lost its content.  A
\* power-on the check has not seen yet stays the cause of the start.
BrownOut ==
    /\ pc # "off"
    /\ mcusr' = mcusr \cup {"BORF"}
    /\ why' = IF "PORF" \in mcusr THEN why ELSE "brownout"
    /\ wdt' = FALSE
    /\ CellByChance
    /\ Restart

\* The watchdog runs out where it is meant to, in the last loop of the
\* bootloader or of the application's 1200 baud reset, or under an application
\* that does not serve it.
WatchdogReset ==
    /\ wdt /\ pc \in {"spin", "app", "touch"}
    /\ mcusr' = mcusr \cup {"WDRF"}
    /\ why' = IF pc = "spin" THEN "exit" ELSE "application"
    /\ wdt' = FALSE
    /\ Restart
    /\ UNCHANGED <<MagicBootKey, stray>>

-----------------------------------------------------------------------------
\* Application_Jump_Check() and what runs after it.

FirmwarePresent == ~(flash[0] = Blank /\ flash[1] = Blank)

\* Mutants of MayJump: an external reset does not keep the bootloader running;
\* power-on does not start the application.
MayJumpAnyReset == ("PORF" \in mcusr \/ MagicBootKey) /\ FirmwarePresent
MayJumpKeyOnly == "EXTRF" \notin mcusr /\ MagicBootKey /\ FirmwarePresent

MayJump ==
    /\ "EXTRF" \notin mcusr
    /\ "PORF" \in mcusr \/ MagicBootKey
    /\ FirmwarePresent

\* Mutant of Jump: the key stays set.
JumpKeepsKey ==
    /\ wdt' = TRUE
    /\ pc' = "app"
    /\ UNCHANGED <<MagicBootKey, stray>>

\* The application starts, with the watchdog running and the key used up.
Jump ==
    /\ wdt' = TRUE
    /\ MagicBootKey' = FALSE /\ stray' = FALSE
    /\ pc' = "app"

ApplicationJumpCheck ==
    /\ pc = "check"
    /\ mcusr' = {}
    /\ IF MayJump
       THEN Jump
       ELSE /\ wdt' = FALSE
            /\ pc' = "midi"
            /\ UNCHANGED <<MagicBootKey, stray>>
    /\ UNCHANGED <<flash, RunBootloader, pageVars, task, cmd, pend, left,
                   attached, reply, why>>

\* An application that wants no watchdog turns it off.
AppStopsWatchdog ==
    /\ pc = "app" /\ wdt
    /\ wdt' = FALSE
    /\ UNCHANGED <<flash, MagicBootKey, stray, mcusr, why, RunBootloader, pageVars,
                   pc, task, cmd, pend, left, attached, reply>>

\* The application owns all of the RAM, the cell of the key included: its data
\* there may look like the key, or overwrite it.
AppUsesRam ==
    /\ pc = "app"
    /\ CellByChance
    /\ UNCHANGED <<flash, mcusr, wdt, why, RunBootloader, pageVars, pc, task, cmd,
                   pend, left, attached, reply>>

-----------------------------------------------------------------------------
\* PushFirmwareByte(): the byte, and the page when it is full.

\* Where PushFirmwareByte() returns to: the second byte of a MIDI event, the
\* end of MIDI_Task(), the next byte of a CDC block or the end of the block.
Resume(bytes) ==
    IF bytes # <<>> THEN "push"
    ELSE IF task = "midi" THEN "cdc"
    ELSE IF left > 0 THEN "fetch" ELSE "conclude"

\* Mutant of Push: the first page of the boot section is open, too.
PushOnePageTooFar ==
    /\ pc = "push"
    /\ FirmwarePageBuffer' =
          [FirmwarePageBuffer EXCEPT ![FirmwarePageIndex] = Head(pend)]
    /\ FirmwarePageIndex' = FirmwarePageIndex + 1
    /\ pend' = Tail(pend)
    /\ pc' = IF FirmwarePageIndex + 1 # PageSize THEN Resume(Tail(pend))
             ELSE IF CurrAddress <= BootStart THEN "erase" ELSE "next"
    /\ UNCHANGED <<flash, resetVars, RunBootloader, CurrAddress, task, cmd, left,
                   attached, reply>>

Push ==
    /\ pc = "push"
    /\ FirmwarePageBuffer' =
          [FirmwarePageBuffer EXCEPT ![FirmwarePageIndex] = Head(pend)]
    /\ FirmwarePageIndex' = FirmwarePageIndex + 1
    /\ pend' = Tail(pend)
    /\ pc' = IF FirmwarePageIndex + 1 # PageSize THEN Resume(Tail(pend))
             ELSE IF CurrAddress < BootStart THEN "erase" ELSE "next"
    /\ UNCHANGED <<flash, resetVars, RunBootloader, CurrAddress, task, cmd, left,
                   attached, reply>>

\* The SPM instructions look at the page an address lies in and, filling the
\* page, at the word within it.
PageOf(a) == a - (a % PageSize)
InPage(x, a) == PageOf(x) = PageOf(a)

\* The flash after the page of address a is erased, and after it is written
\* with buffer byte i at address a + i.
Erased(a) == [x \in FlashAddr |-> IF InPage(x, a) THEN Blank ELSE flash[x]]
Written(a) ==
    [x \in FlashAddr |->
        IF InPage(x, a) THEN FirmwarePageBuffer[(x + PageSize - (a % PageSize)) % PageSize]
        ELSE flash[x]]

ErasePage ==
    /\ pc = "erase"
    /\ flash' = Erased(CurrAddress)
    /\ pc' = "write"
    /\ UNCHANGED <<resetVars, RunBootloader, pageVars, pend, task, cmd, left,
                   attached, reply>>

WritePage ==
    /\ pc = "write"
    /\ flash' = Written(CurrAddress)
    /\ pc' = "next"
    /\ UNCHANGED <<resetVars, RunBootloader, pageVars, pend, task, cmd, left,
                   attached, reply>>

\* The address moves on, whether or not the page was written; it is 16 bits
\* wide and wraps.
NextPage ==
    /\ pc = "next"
    /\ CurrAddress' = (CurrAddress + PageSize) % AddrSpace
    /\ FirmwarePageIndex' = 0
    /\ pc' = Resume(pend)
    /\ UNCHANGED <<flash, resetVars, RunBootloader, FirmwarePageBuffer, pend,
                   task, cmd, left, attached, reply>>

-----------------------------------------------------------------------------
\* MIDI_Task()

\* No event, or one the bootloader answers without a change of its own state.
MidiNothing ==
    /\ pc = "midi"
    /\ pc' = "cdc"
    /\ UNCHANGED <<flash, resetVars, RunBootloader, pageVars, pend, task, cmd,
                   left, attached, reply>>

\* Mutant of MidiStart: goes on at the address an earlier upload had reached.
MidiStartKeepsAddress ==
    /\ pc = "midi" /\ attached
    /\ FirmwarePageIndex' = 0
    /\ pc' = "cdc"
    /\ UNCHANGED <<flash, resetVars, RunBootloader, CurrAddress,
                   FirmwarePageBuffer, pend, task, cmd, left, attached, reply>>

MidiStart ==
    /\ pc = "midi" /\ attached
    /\ FirmwarePageIndex' = 0
    /\ CurrAddress' = 0
    /\ pc' = "cdc"
    /\ UNCHANGED <<flash, resetVars, RunBootloader, FirmwarePageBuffer, pend,
                   task, cmd, left, attached, reply>>

MidiData(b1, b2) ==
    /\ pc = "midi" /\ attached
    /\ pend' = <<b1, b2>>
    /\ task' = "midi"
    /\ pc' = "push"
    /\ UNCHANGED <<flash, resetVars, RunBootloader, pageVars, cmd, left,
                   attached, reply>>

MidiExit ==
    /\ pc = "midi" /\ attached
    /\ RunBootloader' = FALSE
    /\ pc' = "cdc"
    /\ UNCHANGED <<flash, resetVars, pageVars, pend, task, cmd, left, attached,
                   reply>>

-----------------------------------------------------------------------------
\* CDC_Task().  Once it has a command it waits for the command's arguments
\* ("args"), for the bytes of a block ("fetch") and for the host to take the
\* reply ("conclude"); only the loss of the cable ends such a wait early.

CdcNothing ==
    /\ pc = "cdc"
    /\ pc' = "loop"
    /\ UNCHANGED <<flash, resetVars, RunBootloader, pageVars, pend, task, cmd,
                   left, attached, reply>>

CdcCommand(command) ==
    /\ pc = "cdc" /\ attached
    /\ cmd' = command
    /\ pc' = "args"
    /\ UNCHANGED <<flash, resetVars, RunBootloader, pageVars, pend, task, left,
                   attached, reply>>

CdcExit ==
    /\ pc = "args" /\ cmd = "ExitBootloader"
    /\ RunBootloader' = FALSE
    /\ pc' = "conclude"
    /\ UNCHANGED <<flash, resetVars, pageVars, pend, task, cmd, left, attached,
                   reply>>

\* The host sends a word address; an argument byte that the loss of the cable
\* turns into 0 makes another one of them.
CdcSetAddress(a) ==
    /\ pc = "args" /\ cmd = "SetCurrentAddress"
    /\ CurrAddress' = a
    /\ pc' = "conclude"
    /\ UNCHANGED <<flash, resetVars, RunBootloader, FirmwarePageIndex,
                   FirmwarePageBuffer, pend, task, cmd, left, attached, reply>>

\* CDC_WriteMemoryBlock() starts a page of its own.
CdcBlockWrite ==
    /\ pc = "args" /\ cmd = "BlockWrite"
    /\ FirmwarePageIndex' = 0
    /\ left' = PageSize
    /\ task' = "cdc"
    /\ pc' = "fetch"
    /\ UNCHANGED <<flash, resetVars, RunBootloader, CurrAddress,
                   FirmwarePageBuffer, pend, cmd, attached, reply>>

\* CDC_FetchNextCommandByte(): a byte of the host, or 0 without a cable.
CdcFetch(b) ==
    /\ pc = "fetch"
    /\ ~attached => b = Zero
    /\ pend' = <<b>>
    /\ left' = left - 1
    /\ pc' = "push"
    /\ UNCHANGED <<flash, resetVars, RunBootloader, pageVars, task, cmd, attached,
                   reply>>

\* CDC_ReadMemoryBlock(): a block from the current address, which stays.  The
\* program counter's width wraps an address beyond the flash.
CdcBlockRead ==
    /\ pc = "args" /\ cmd = "BlockRead"
    /\ reply' = [k \in 1 .. PageSize |->
                    flash[((CurrAddress + k - 1) % AddrSpace) % FlashSize]]
    /\ pc' = "conclude"
    /\ UNCHANGED <<flash, resetVars, RunBootloader, pageVars, pend, task, cmd,
                   left, attached>>

\* Commands that only reply, and bytes that are no command.
CdcOther ==
    /\ pc = "args" /\ cmd = "Other"
    /\ pc' = "conclude"
    /\ UNCHANGED <<flash, resetVars, RunBootloader, pageVars, pend, task, cmd,
                   left, attached, reply>>

\* CDC_Conclude(): the host takes the reply, or there is no cable.
CdcConclude ==
    /\ pc = "conclude"
    /\ reply' = <<>>
    /\ pc' = "loop"
    /\ UNCHANGED <<flash, resetVars, RunBootloader, pageVars, pend, task, cmd,
                   left, attached>>

-----------------------------------------------------------------------------
\* The end of the loop, and the cable.

MainLoop ==
    /\ pc = "loop"
    /\ pc' = IF RunBootloader THEN "midi" ELSE "exit"
    /\ UNCHANGED <<flash, resetVars, RunBootloader, pageVars, pend, task, cmd,
                   left, attached, reply>>

\* The key is set, the watchdog started, and the CPU waits for its reset.
ExitBootloader ==
    /\ pc = "exit"
    /\ MagicBootKey' = TRUE /\ stray' = FALSE
    /\ wdt' = TRUE
    /\ pc' = "spin"
    /\ UNCHANGED <<flash, mcusr, why, RunBootloader, pageVars, pend, task, cmd,
                   left, attached, reply>>

\* The cable is pulled at any time.  When it is plugged in again the host
\* waits at least 100 ms before it talks to the board, and a CDC command that
\* lost the cable is over long before that.
InCdcTask == pc \in {"args", "fetch", "push", "erase", "write", "next", "conclude"}

Cable ==
    /\ pc # "off"
    /\ ~attached => ~InCdcTask
    /\ attached' = ~attached
    /\ UNCHANGED <<flash, resetVars, RunBootloader, pageVars, pc, pend, task,
                   cmd, left, reply>>

-----------------------------------------------------------------------------
Commands == {"ExitBootloader", "SetCurrentAddress", "BlockWrite", "BlockRead",
             "Other"}

Resets == PowerOn \/ PowerOff \/ ExternalReset \/ BrownOut \/ WatchdogReset

\* The steps the CPU takes on its own.
Cpu ==
    \/ ApplicationJumpCheck
    \/ Push \/ ErasePage \/ WritePage \/ NextPage
    \/ MainLoop \/ ExitBootloader

\* A host that sends whatever it likes.
AnyHost ==
    \/ MidiNothing \/ MidiStart \/ MidiExit
    \/ \E b1, b2 \in Byte : MidiData(b1, b2)
    \/ CdcNothing
    \/ \E command \in Commands : CdcCommand(command)
    \/ CdcExit \/ CdcBlockWrite \/ CdcBlockRead \/ CdcOther
    \/ \E a \in EvenAddr : CdcSetAddress(a)
    \/ \E b \in Byte : CdcFetch(b)
    \/ CdcConclude

BootNext == Resets \/ Cpu \/ AnyHost \/ AppStopsWatchdog \/ AppUsesRam \/ Cable

BootSpec == BootInit /\ [][BootNext]_bootVars

-----------------------------------------------------------------------------
(***************************************************************************)
(* Properties.                                                             *)
(***************************************************************************)

\* Every variable has its type.  FirmwarePageIndex is compared with PageSize
\* for equality only: had it once stepped over PageSize it would run past the
\* end of the buffer.
BootTypeOK ==
    /\ flash \in [FlashAddr -> Byte \cup {BootCode}]
    /\ MagicBootKey \in BOOLEAN /\ stray \in BOOLEAN
    /\ mcusr \subseteq {"PORF", "EXTRF", "BORF", "WDRF"}
    /\ wdt \in BOOLEAN /\ RunBootloader \in BOOLEAN
    /\ CurrAddress \in EvenAddr
    /\ FirmwarePageIndex \in 0 .. PageSize
    /\ FirmwarePageIndex = PageSize => pc \in {"erase", "write", "next"}
    /\ FirmwarePageBuffer \in [PageSlots -> Byte]
    /\ pc \in BootPcs /\ task \in {"midi", "cdc"}
    /\ cmd \in Commands
    /\ pend \in Seq(Byte) /\ Len(pend) <= 2
    /\ left \in 0 .. PageSize
    /\ attached \in BOOLEAN
    /\ reply \in Seq(Byte \cup {BootCode})
    /\ why \in {"power", "button", "brownout", "exit", "application"}

\* No host command, in either protocol and at whatever address, changes the
\* bootloader's own section ("Don't allow to write data over the bootloader
\* space"), although the address wraps and need not be that of a page.
BootSectionIntact == \A a \in BootStart .. FlashSize - 1 : flash[a] = BootCode

\* The check starts the application after power-on and when a host has asked for
\* it: never after the button, and after a watchdog reset of the application or
\* a brown-out only by the accident of data that looks like the key.  No key the
\* bootloader itself wrote starts the application twice.
StartIsDue ==
    [][ (pc = "check" /\ pc' = "app")
        => /\ why # "button"
           /\ why \in {"power", "exit"} \/ stray ]_bootVars
=============================================================================
