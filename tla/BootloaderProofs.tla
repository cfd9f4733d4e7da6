-------------------------- MODULE BootloaderProofs --------------------------
(***************************************************************************)
(* Theorems about the bootloader, for every page size and every size of    *)
(* the flash and of the address space: first for hosts that send whatever  *)
(* they like, then for an uploader, with any image.                        *)
(***************************************************************************)
EXTENDS BootloaderUpload, DataLemmas

\* What the geometry assumption says of the sizes.
LEMMA Geometry ==
    /\ PageSize \in Nat \ {0} /\ PageSize >= 2 /\ PageSize % 2 = 0
    /\ BootStart \in Nat /\ FlashSize \in Nat /\ AddrSpace \in Nat \ {0}
    /\ PageSize <= AddrSpace /\ BootStart % PageSize = 0
    /\ 0 \in FlashAddr /\ 1 \in FlashAddr
    /\ AddrSpace % PageSize = 0
BY GeometryAssumption DEF FlashAddr

-----------------------------------------------------------------------------
\* Arithmetic of addresses.

\* A multiple of an even number is even.
LEMMA EvenMultiple ==
    ASSUME NEW a \in Nat, NEW p \in Nat \ {0}, p % 2 = 0, a % p = 0
    PROVE  a % 2 = 0
<1> DEFINE x == p \div 2
           q == a \div p
<1>1. x \in Nat /\ p = 2 * x
  BY DivMod
<1>2. q \in Nat /\ a = p * q
  BY DivMod
<1> HIDE DEF x, q
<1>3. a = 2 * (x * q) + 0 /\ x * q \in Nat
  BY <1>1, <1>2, TimesPlus, TimesNat
<1> QED BY <1>3, DivModIs

\* The address of the next page is even, also where it wraps.
LEMMA NextPageIsEven ==
    ASSUME NEW a \in EvenAddr
    PROVE  (a + PageSize) % AddrSpace \in EvenAddr
<1>1. a \in 0 .. AddrSpace - 1 /\ a % 2 = 0 /\ PageSize % 2 = 0
  BY Geometry DEF EvenAddr
<1>2. AddrSpace % 2 = 0
  BY Geometry, EvenMultiple
<1>3. a + PageSize \in 0 .. 2 * AddrSpace - 1
  BY <1>1, Geometry
<1>4. (a + PageSize) % AddrSpace
         = IF a + PageSize < AddrSpace THEN a + PageSize ELSE a + PageSize - AddrSpace
  <2>1. PICK s \in 0 .. 2 * AddrSpace - 1 : s = a + PageSize
    BY <1>3
  <2>2. s % AddrSpace = IF s < AddrSpace THEN s ELSE s - AddrSpace
    BY Geometry, ModWraps
  <2> QED BY <1>1, <2>1, <2>2, Geometry
<1> DEFINE n == (a + PageSize) % AddrSpace
<1>5. n \in 0 .. AddrSpace - 1
  BY <1>3, <1>4, Geometry
<1>6. n % 2 = 0
  <2>1. PageSize \in Nat /\ AddrSpace \in Nat /\ a \in Nat
    BY <1>1, Geometry
  <2>2. CASE n = a + PageSize
    BY <1>1, <2>1, <2>2
  <2>3. CASE n = a + PageSize - AddrSpace
    BY <1>1, <1>2, <1>5, <2>1, <2>3
  <2> QED BY <1>4, <2>2, <2>3
<1> QED BY <1>5, <1>6 DEF EvenAddr

\* The page of an address of the boot section begins in the boot section.
LEMMA BootPages ==
    ASSUME NEW a \in Nat, a >= BootStart
    PROVE  PageOf(a) >= BootStart
<1> DEFINE q == a \div PageSize
           r == a % PageSize
           k == BootStart \div PageSize
<1>1. q \in Nat /\ r \in 0 .. PageSize - 1 /\ a = PageSize * q + r
  BY Geometry, DivMod
<1>2. k \in Nat /\ BootStart = PageSize * k
  BY Geometry, DivMod
<1>p. PageOf(a) = a - r
  BY DEF PageOf
<1> HIDE DEF q, r, k
<1>3. k <= q
  <2>1. SUFFICES ASSUME q + 1 <= k PROVE FALSE
    BY <1>1, <1>2
  <2>2. (q + 1) * PageSize <= k * PageSize
    BY <1>1, <1>2, <2>1, Geometry, TimesMonotone
  <2>3. (q + 1) * PageSize = PageSize * q + PageSize /\ k * PageSize = PageSize * k
    BY <1>1, <1>2, Geometry, TimesPlus
  <2>4. PageSize * q \in Nat
    BY <1>1, Geometry, TimesNat
  <2> QED BY <1>1, <1>2, <2>2, <2>3, <2>4, Geometry
<1>4. k * PageSize <= q * PageSize
  BY <1>1, <1>2, <1>3, Geometry, TimesMonotone
<1>5. k * PageSize = PageSize * k /\ q * PageSize = PageSize * q
  BY <1>1, <1>2, Geometry, TimesPlus
<1>6. PageSize * q \in Nat
  BY <1>1, Geometry, TimesNat
<1> QED BY <1>1, <1>2, <1>p, <1>4, <1>5, <1>6, Geometry

\* No page in front of the boot section has an address of it.
LEMMA PagesApart ==
    ASSUME NEW x \in Nat, NEW a \in Nat, a < BootStart, x >= BootStart
    PROVE  ~ InPage(x, a)
<1>1. PageOf(x) >= BootStart
  BY BootPages
<1>2. PageOf(a) <= a /\ PageOf(a) \in Int /\ PageOf(x) \in Int
  BY Geometry, DivMod DEF PageOf
<1> QED BY <1>1, <1>2, Geometry DEF InPage

-----------------------------------------------------------------------------
\* BootTypeOK is not inductive as it stands: a byte is pushed only while there
\* is one, and fetched only while the block has one left.
BootTypeInv ==
    /\ BootTypeOK
    /\ pc = "push" => pend # <<>>
    /\ pc = "fetch" => left > 0

\* A board as it is delivered has every variable of its type.
LEMMA BootTypeInit == BootInit => BootTypeInv
<1> SUFFICES ASSUME BootInit PROVE BootTypeInv
  OBVIOUS
<1>1. /\ flash \in [FlashAddr -> Byte \cup {BootCode}]
      /\ FirmwarePageBuffer \in [PageSlots -> Byte]
  BY ByteAssumption DEF BootInit
<1>2. CurrAddress \in EvenAddr
  BY Geometry DEF BootInit, EvenAddr
<1>3. /\ FirmwarePageIndex \in 0 .. PageSize /\ FirmwarePageIndex # PageSize
      /\ left \in 0 .. PageSize
  BY Geometry DEF BootInit
<1>4. pend \in Seq(Byte) /\ Len(pend) <= 2 /\ reply \in Seq(Byte \cup {BootCode})
  BY DEF BootInit
<1> QED
  BY <1>1, <1>2, <1>3, <1>4 DEF BootInit, BootTypeInv, BootTypeOK, BootPcs, Commands

\* What a reset leaves has its type again.
LEMMA ClearRamType ==
    ASSUME BootTypeInv, ClearRam, mcusr' \subseteq {"PORF", "EXTRF", "BORF", "WDRF"},
           MagicBootKey' \in BOOLEAN, stray' \in BOOLEAN, wdt' \in BOOLEAN,
           pc' \in {"off", "check"},
           why' \in {"power", "button", "brownout", "exit", "application"}
    PROVE  BootTypeInv'
<1>1. /\ flash' \in [FlashAddr -> Byte \cup {BootCode}]
      /\ FirmwarePageBuffer' \in [PageSlots -> Byte]
  BY ByteAssumption DEF ClearRam, BootTypeInv, BootTypeOK
<1>2. CurrAddress' \in EvenAddr
  BY Geometry DEF ClearRam, EvenAddr
<1>3. FirmwarePageIndex' = 0 /\ PageSize \in Nat \ {0}
  BY Geometry DEF ClearRam
<1> QED
  BY <1>1, <1>2, <1>3 DEF ClearRam, BootTypeInv, BootTypeOK, BootPcs, Commands

\* Where PushFirmwareByte() returns to.
LEMMA ResumeIs ==
    ASSUME NEW bytes \in Seq(Byte), left \in 0 .. PageSize
    PROVE  /\ Resume(bytes) \in BootPcs \ {"erase", "write", "next"}
           /\ Resume(bytes) = "push" => bytes # <<>>
           /\ Resume(bytes) = "fetch" => left > 0
BY Geometry DEF Resume, BootPcs

\* The byte that is pushed finds its slot in the buffer.
LEMMA PushType == BootTypeInv /\ Push => BootTypeInv'
<1> SUFFICES ASSUME BootTypeInv, Push PROVE BootTypeInv'
  OBVIOUS
<1>1. /\ pc = "push" /\ pend \in Seq(Byte) /\ pend # <<>> /\ Len(pend) <= 2
      /\ FirmwarePageIndex \in 0 .. PageSize /\ FirmwarePageIndex # PageSize
      /\ FirmwarePageBuffer \in [PageSlots -> Byte] /\ left \in 0 .. PageSize
  BY DEF Push, BootTypeInv, BootTypeOK
<1>2. Head(pend) \in Byte /\ Tail(pend) \in Seq(Byte) /\ Len(Tail(pend)) <= 2
  BY <1>1
<1>3. /\ FirmwarePageIndex + 1 \in 0 .. PageSize
      /\ FirmwarePageIndex \in PageSlots
  BY <1>1, Geometry DEF PageSlots
<1>4. /\ FirmwarePageBuffer' \in [PageSlots -> Byte]
      /\ FirmwarePageIndex' = FirmwarePageIndex + 1
      /\ pend' = Tail(pend)
  BY <1>1, <1>2 DEF Push
<1>5. pc' = IF FirmwarePageIndex + 1 # PageSize THEN Resume(Tail(pend))
            ELSE IF CurrAddress < BootStart THEN "erase" ELSE "next"
  BY DEF Push
<1>6. /\ pc' \in BootPcs
      /\ FirmwarePageIndex' = PageSize => pc' \in {"erase", "write", "next"}
      /\ pc' = "push" => Tail(pend) # <<>>
      /\ pc' = "fetch" => left > 0
  BY <1>1, <1>2, <1>4, <1>5, ResumeIs DEF BootPcs
<1> QED
  BY <1>2, <1>3, <1>4, <1>6 DEF Push, BootTypeInv, BootTypeOK, resetVars

\* The page writer keeps the types, and the address stays an even word.
LEMMA PageType ==
    BootTypeInv /\ (ErasePage \/ WritePage \/ NextPage) => BootTypeInv'
<1> SUFFICES ASSUME BootTypeInv, ErasePage \/ WritePage \/ NextPage
             PROVE  BootTypeInv'
  OBVIOUS
<1>0. /\ flash \in [FlashAddr -> Byte \cup {BootCode}] /\ CurrAddress \in EvenAddr
      /\ FirmwarePageBuffer \in [PageSlots -> Byte]
  BY DEF BootTypeInv, BootTypeOK
<1>1. CASE ErasePage
  <2>1. flash' \in [FlashAddr -> Byte \cup {BootCode}]
    BY <1>0, <1>1, ByteAssumption DEF ErasePage, Erased
  <2> QED
    BY <1>1, <2>1
    DEF ErasePage, BootTypeInv, BootTypeOK, BootPcs, resetVars, pageVars
<1>2. CASE WritePage
  <2>1. \A x \in FlashAddr :
           (x + PageSize - (CurrAddress % PageSize)) % PageSize \in PageSlots
    <3> TAKE x \in FlashAddr
    <3>1. x \in Nat /\ CurrAddress \in Nat
      BY <1>0 DEF FlashAddr, EvenAddr
    <3>2. CurrAddress % PageSize \in 0 .. PageSize - 1
      BY <3>1, Geometry, DivMod
    <3>3. x + PageSize - (CurrAddress % PageSize) \in Nat
      BY <3>1, <3>2, Geometry
    <3> QED BY <3>3, Geometry, DivMod DEF PageSlots
  <2>2. flash' \in [FlashAddr -> Byte \cup {BootCode}]
    BY <1>0, <1>2, <2>1 DEF WritePage, Written
  <2> QED
    BY <1>2, <2>2
    DEF WritePage, BootTypeInv, BootTypeOK, BootPcs, resetVars, pageVars
<1>3. CASE NextPage
  <2>1. CurrAddress' \in EvenAddr
    BY <1>0, <1>3, NextPageIsEven DEF NextPage
  <2>2. /\ pc' \in BootPcs
        /\ pc' = "push" => pend # <<>>
        /\ pc' = "fetch" => left > 0
    BY <1>3, ResumeIs DEF NextPage, BootTypeInv, BootTypeOK
  <2>3. FirmwarePageIndex' \in 0 .. PageSize /\ FirmwarePageIndex' # PageSize
    BY <1>3, Geometry DEF NextPage
  <2> QED
    BY <1>3, <2>1, <2>2, <2>3 DEF NextPage, BootTypeInv, BootTypeOK, resetVars
<1> QED BY <1>1, <1>2, <1>3

\* The commands of both protocols keep the types.
LEMMA HostType == BootTypeInv /\ AnyHost => BootTypeInv'
<1> SUFFICES ASSUME BootTypeInv, AnyHost PROVE BootTypeInv'
  OBVIOUS
<1> USE DEF BootTypeInv, BootTypeOK, BootPcs, resetVars
<1>0. FirmwarePageIndex \in 0 .. PageSize /\ 0 \in 0 .. PageSize /\ 0 # PageSize
      /\ PageSize \in 0 .. PageSize /\ PageSize > 0
  BY Geometry
<1>1. CASE MidiNothing \/ MidiExit
  BY <1>1 DEF MidiNothing, MidiExit, pageVars
<1>2. CASE MidiStart
  <2>1. 0 \in EvenAddr
    BY Geometry DEF EvenAddr
  <2> QED BY <1>0, <1>2, <2>1 DEF MidiStart
<1>3. ASSUME NEW b1 \in Byte, NEW b2 \in Byte, MidiData(b1, b2)
      PROVE  BootTypeInv'
  <2>1. <<b1, b2>> \in Seq(Byte) /\ Len(<<b1, b2>>) = 2 /\ <<b1, b2>> # <<>>
    OBVIOUS
  <2> QED BY <1>3, <2>1 DEF MidiData, pageVars
<1>4. CASE CdcNothing \/ CdcExit \/ CdcOther
  BY <1>4 DEF CdcNothing, CdcExit, CdcOther, pageVars
<1>5. ASSUME NEW command \in Commands, CdcCommand(command)
      PROVE  BootTypeInv'
  BY <1>5 DEF CdcCommand, pageVars
<1>6. ASSUME NEW a \in EvenAddr, CdcSetAddress(a)
      PROVE  BootTypeInv'
  BY <1>6 DEF CdcSetAddress
<1>7. CASE CdcBlockWrite
  BY <1>0, <1>7 DEF CdcBlockWrite
<1>8. ASSUME NEW b \in Byte, CdcFetch(b)
      PROVE  BootTypeInv'
  <2>1. <<b>> \in Seq(Byte) /\ Len(<<b>>) = 1 /\ <<b>> # <<>>
    OBVIOUS
  <2>2. left - 1 \in 0 .. PageSize
    BY <1>8, Geometry DEF CdcFetch
  <2> QED BY <1>8, <2>1, <2>2 DEF CdcFetch, pageVars
<1>9. CASE CdcBlockRead
  <2>1. reply' \in Seq(Byte \cup {BootCode})
    <3>1. \A k \in 1 .. PageSize :
             ((CurrAddress + k - 1) % AddrSpace) % FlashSize \in FlashAddr
      <4> TAKE k \in 1 .. PageSize
      <4>1. CurrAddress + k - 1 \in Nat
        BY Geometry DEF EvenAddr
      <4>2. PICK n \in Nat : n = CurrAddress + k - 1
        BY <4>1
      <4>3. PICK c \in Nat : c = n % AddrSpace
        <5>1. AddrSpace \in Nat \ {0}
          BY Geometry
        <5>2. n % AddrSpace \in 0 .. AddrSpace - 1
          BY <5>1, DivMod
        <5> QED BY <5>1, <5>2
      <4>4. FlashSize \in Nat \ {0}
        BY Geometry DEF FlashAddr
      <4>5. c % FlashSize \in FlashAddr
        BY <4>4, DivMod DEF FlashAddr
      <4>6. (CurrAddress + k - 1) % AddrSpace = c
        BY <4>2, <4>3, Zenon
      <4> QED BY <4>5, <4>6, Zenon
    <3>2. \A k \in 1 .. PageSize :
             flash[((CurrAddress + k - 1) % AddrSpace) % FlashSize]
                \in Byte \cup {BootCode}
      BY <3>1
    <3> QED BY <1>9, <3>2, Geometry DEF CdcBlockRead
  <2> QED BY <1>9, <2>1 DEF CdcBlockRead, pageVars
<1>10. CASE CdcConclude
  <2>1. <<>> \in Seq(Byte \cup {BootCode})
    OBVIOUS
  <2> QED BY <1>10, <2>1 DEF CdcConclude, pageVars
<1> QED
  BY <1>1, <1>2, <1>3, <1>4, <1>5, <1>6, <1>7, <1>8, <1>9, <1>10 DEF AnyHost

\* No step takes a variable out of its type.
LEMMA BootTypeStep == BootTypeInv /\ [BootNext]_bootVars => BootTypeInv'
<1> SUFFICES ASSUME BootTypeInv, [BootNext]_bootVars PROVE BootTypeInv'
  OBVIOUS
<1>1. CASE Resets
  BY <1>1, ClearRamType
  DEF Resets, PowerOn, PowerOff, ExternalReset, BrownOut, WatchdogReset, Restart,
      CellByChance, BootTypeInv, BootTypeOK
<1>2. CASE ApplicationJumpCheck
  BY <1>2
  DEF ApplicationJumpCheck, Jump, BootTypeInv, BootTypeOK, BootPcs, pageVars
<1> USE DEF BootTypeInv, BootTypeOK, BootPcs, resetVars, pageVars
<1>3. CASE AppStopsWatchdog \/ AppUsesRam
  BY <1>3 DEF AppStopsWatchdog, AppUsesRam, CellByChance
<1>4. CASE MainLoop
  BY <1>4 DEF MainLoop
<1>5. CASE ExitBootloader
  BY <1>5 DEF ExitBootloader
<1>6. CASE Cable
  BY <1>6 DEF Cable
<1>7. CASE UNCHANGED bootVars
  BY <1>7 DEF bootVars
<1> QED
  BY <1>1, <1>2, <1>3, <1>4, <1>5, <1>6, <1>7, PushType, PageType, HostType
  DEF BootNext, Cpu

\* Every variable keeps its type: whatever the hosts send, the index stays in
\* the page buffer and the address is that of a word.
THEOREM BootTypeCorrect == BootSpec => []BootTypeOK
<1>1. BootTypeInv => BootTypeOK
  BY DEF BootTypeInv
<1> QED
  BY <1>1, BootTypeInit, BootTypeStep, PTL DEF BootSpec

-----------------------------------------------------------------------------
\* BootSectionIntact is not inductive as it stands: the page writer runs only at
\* an address in front of the boot section, and nothing moves the address
\* between the test and the write.
SectionInv ==
    /\ BootSectionIntact
    /\ pc \in {"erase", "write"} => CurrAddress < BootStart

\* A page in front of the boot section is erased and written without touching it.
LEMMA PageWriteIntact ==
    ASSUME BootTypeInv, SectionInv, ErasePage \/ WritePage
    PROVE  SectionInv'
<1>1. /\ CurrAddress \in Nat /\ CurrAddress < BootStart
      /\ \A x \in BootStart .. FlashSize - 1 : x \in Nat /\ x >= BootStart /\ x \in FlashAddr
  BY Geometry
  DEF ErasePage, WritePage, SectionInv, BootTypeInv, BootTypeOK, EvenAddr, FlashAddr
<1>2. \A x \in BootStart .. FlashSize - 1 : ~ InPage(x, CurrAddress)
  BY <1>1, PagesApart
<1>3. CurrAddress' = CurrAddress /\ pc' \in {"write", "next"}
  BY DEF ErasePage, WritePage, pageVars
<1>4. CASE ErasePage
  BY <1>1, <1>2, <1>3, <1>4
  DEF ErasePage, Erased, SectionInv, BootSectionIntact
<1>5. CASE WritePage
  BY <1>1, <1>2, <1>3, <1>5
  DEF WritePage, Written, SectionInv, BootSectionIntact
<1> QED BY <1>4, <1>5

\* No step changes the boot section: the flash changes in the page writer only,
\* and the page writer is entered from the test of the address.
LEMMA SectionStep == BootTypeInv /\ SectionInv /\ [BootNext]_bootVars => SectionInv'
<1> SUFFICES ASSUME BootTypeInv, SectionInv, [BootNext]_bootVars PROVE SectionInv'
  OBVIOUS
<1>k. ASSUME flash' = flash, pc' \notin {"erase", "write"} PROVE SectionInv'
  BY <1>k DEF SectionInv, BootSectionIntact
<1>r. ASSUME NEW bytes PROVE Resume(bytes) \notin {"erase", "write"}
  BY DEF Resume
<1>1. CASE Resets
  BY <1>1, <1>k
  DEF Resets, PowerOn, PowerOff, ExternalReset, BrownOut, WatchdogReset, Restart,
      ClearRam
<1>2. CASE ApplicationJumpCheck
  BY <1>2, <1>k DEF ApplicationJumpCheck, Jump
<1>3. CASE Push
  <2>1. flash' = flash /\ CurrAddress' = CurrAddress
    BY <1>3 DEF Push
  <2>2. pc' \in {"erase", "write"} => CurrAddress < BootStart
    BY <1>3, <1>r DEF Push
  <2> QED BY <2>1, <2>2 DEF SectionInv, BootSectionIntact
<1>4. CASE ErasePage \/ WritePage
  BY <1>4, PageWriteIntact
<1>5. CASE NextPage
  BY <1>5, <1>k, <1>r DEF NextPage
<1>6. CASE AppStopsWatchdog \/ AppUsesRam \/ MainLoop \/ ExitBootloader
  BY <1>6, <1>k DEF AppStopsWatchdog, AppUsesRam, MainLoop, ExitBootloader
<1>7. CASE AnyHost
  BY <1>7, <1>k
  DEF AnyHost, MidiNothing, MidiStart, MidiExit, MidiData, CdcNothing, CdcCommand,
      CdcExit, CdcBlockWrite, CdcBlockRead, CdcOther, CdcSetAddress, CdcFetch,
      CdcConclude
<1>8. CASE Cable \/ UNCHANGED bootVars
  <2>1. flash' = flash /\ pc' = pc /\ CurrAddress' = CurrAddress
    BY <1>8 DEF Cable, pageVars, bootVars
  <2> QED BY <2>1 DEF SectionInv, BootSectionIntact
<1> QED
  BY <1>1, <1>2, <1>3, <1>4, <1>5, <1>6, <1>7, <1>8 DEF BootNext, Cpu

\* A board as it is delivered has its section.
LEMMA SectionInit == BootInit => SectionInv
<1>1. \A a \in BootStart .. FlashSize - 1 : a \in FlashAddr /\ ~(a < BootStart)
  BY Geometry DEF FlashAddr
<1> QED BY <1>1 DEF BootInit, SectionInv, BootSectionIntact

\* No host command, in either protocol and at whatever address, changes the
\* bootloader's own section.
THEOREM BootSectionStaysIntact == BootSpec => []BootSectionIntact
<1>1. SectionInv => BootSectionIntact
  BY DEF SectionInv
<1> QED
  BY <1>1, SectionInit, BootTypeInit, BootTypeStep, SectionStep, PTL DEF BootSpec

-----------------------------------------------------------------------------
\* StartIsDue looks at the step that starts the application.  What the check finds
\* there is an invariant: the reset flags are those of the reset being served; the
\* bootloader's key is used up before the application runs, so that in a reset of
\* the application's own, or after a brown-out, a key is there by chance.
StartInv ==
    /\ pc \notin {"off", "check"} => mcusr = {}
    /\ pc \in {"app", "touch"} => (MagicBootKey => stray)
    /\ pc = "check" /\ why \in {"application", "brownout"} =>
          (MagicBootKey => stray) /\ "PORF" \notin mcusr
    /\ pc = "check" /\ why = "button" => "EXTRF" \in mcusr
    /\ why \in {"power", "button", "brownout", "exit", "application"}

\* Every step keeps the cause of a start and what the check looks at together.
LEMMA StartStep == StartInv /\ [BootNext]_bootVars => StartInv'
<1> SUFFICES ASSUME StartInv, [BootNext]_bootVars PROVE StartInv'
  OBVIOUS
<1> USE DEF StartInv
<1>k. ASSUME UNCHANGED resetVars, pc \notin {"off", "check"},
             pc' \notin {"off", "check", "app", "touch"}
      PROVE  StartInv'
  BY <1>k DEF resetVars
<1>r. ASSUME NEW bytes
      PROVE  Resume(bytes) \notin {"off", "check", "app", "touch"}
  BY DEF Resume
<1>1. CASE Resets
  BY <1>1
  DEF Resets, PowerOn, PowerOff, ExternalReset, BrownOut, WatchdogReset, Restart,
      CellByChance
<1>2. CASE ApplicationJumpCheck
  BY <1>2 DEF ApplicationJumpCheck, MayJump, Jump
<1>3. CASE Push
  BY <1>3, <1>k, <1>r DEF Push
<1>4. CASE ErasePage \/ WritePage
  BY <1>4, <1>k DEF ErasePage, WritePage
<1>5. CASE NextPage
  BY <1>5, <1>k, <1>r DEF NextPage
<1>6. CASE AppStopsWatchdog \/ AppUsesRam \/ ExitBootloader
  BY <1>6 DEF AppStopsWatchdog, AppUsesRam, CellByChance, ExitBootloader
<1>7. CASE MainLoop
  BY <1>7, <1>k DEF MainLoop
<1>8. CASE AnyHost
  BY <1>8, <1>k
  DEF AnyHost, MidiNothing, MidiStart, MidiExit, MidiData, CdcNothing, CdcCommand,
      CdcExit, CdcBlockWrite, CdcBlockRead, CdcOther, CdcSetAddress, CdcFetch,
      CdcConclude
<1>9. CASE Cable \/ UNCHANGED bootVars
  BY <1>9 DEF Cable, resetVars, bootVars
<1> QED
  BY <1>1, <1>2, <1>3, <1>4, <1>5, <1>6, <1>7, <1>8, <1>9 DEF BootNext, Cpu

\* What the check finds makes a start due.
LEMMA DueStart ==
    ASSUME StartInv, pc = "check", MayJump
    PROVE  /\ why # "button"
           /\ why \in {"power", "exit"} \/ stray
BY DEF StartInv, MayJump

\* Among the steps of the board, only the check starts the application.
LEMMA OnlyTheCheckStarts ==
    ASSUME BootNext, pc = "check", pc' = "app"
    PROVE  MayJump
<1>1. CASE Resets
  BY <1>1
  DEF Resets, PowerOn, PowerOff, ExternalReset, BrownOut, WatchdogReset, Restart
<1>2. CASE Cpu
  BY <1>2
  DEF Cpu, ApplicationJumpCheck, Push, ErasePage, WritePage, NextPage, MainLoop,
      ExitBootloader
<1>3. CASE AnyHost
  BY <1>3
  DEF AnyHost, MidiNothing, MidiStart, MidiExit, MidiData, CdcNothing, CdcCommand,
      CdcExit, CdcBlockWrite, CdcBlockRead, CdcOther, CdcSetAddress, CdcFetch,
      CdcConclude
<1>4. CASE AppStopsWatchdog \/ AppUsesRam \/ Cable
  BY <1>4 DEF AppStopsWatchdog, AppUsesRam, Cable
<1> QED BY <1>1, <1>2, <1>3, <1>4 DEF BootNext

\* A board as it is delivered.
LEMMA StartInit == BootInit => StartInv
BY DEF BootInit, StartInv

\* The application starts after power-on or because a host asked for it: never
\* after the button, and after any other reset only by a key that is there by
\* chance.
THEOREM ApplicationStartIsDue == BootSpec => StartIsDue
<1>1. ASSUME StartInv, [BootNext]_bootVars
      PROVE  [ (pc = "check" /\ pc' = "app")
                 => /\ why # "button"
                    /\ why \in {"power", "exit"} \/ stray ]_bootVars
  BY <1>1, DueStart, OnlyTheCheckStarts
<1> QED
  BY <1>1, StartInit, StartStep, PTL DEF BootSpec, StartIsDue

-----------------------------------------------------------------------------
\* The uploader.  The theorems above hold for hosts that send whatever they like
\* to the bootloader; those below are about BootloaderUpload, whose hosts also
\* open and close the application's port.

\* What the image's assumption says of it.
Multiple(x, p) == \E j \in Nat : x = p * j

\* A number without a remainder is a multiple.
LEMMA MultipleIs ==
    ASSUME NEW a \in Nat, NEW p \in Nat \ {0}
    PROVE  a % p = 0 <=> Multiple(a, p)
<1>1. ASSUME a % p = 0 PROVE Multiple(a, p)
  <2>1. a \div p \in Nat /\ a = p * (a \div p) + 0
    BY <1>1, DivMod
  <2>2. p * (a \div p) \in Nat
    BY <2>1, TimesNat
  <2> QED BY <2>1, <2>2 DEF Multiple
<1>2. ASSUME Multiple(a, p) PROVE a % p = 0
  <2>1. PICK j \in Nat : a = p * j + 0
    BY <1>2, TimesNat DEF Multiple
  <2> QED BY <2>1, DivModIs
<1> QED BY <1>1, <1>2

\* The next multiple is a step away, and there is none between them.
LEMMA MultipleNext ==
    ASSUME NEW a \in Nat, NEW p \in Nat \ {0}, Multiple(a, p)
    PROVE  /\ Multiple(a + p, p)
           /\ \A b \in Nat : Multiple(b, p) /\ a < b => a + p <= b
<1>1. PICK i \in Nat : a = p * i
  BY DEF Multiple
<1>2. p * (i + 1) = a + p
  BY <1>1, TimesPlus
<1>3. Multiple(a + p, p)
  BY <1>2 DEF Multiple
<1>4. ASSUME NEW b \in Nat, Multiple(b, p), a < b PROVE a + p <= b
  <2>1. PICK j \in Nat : b = p * j
    BY <1>4 DEF Multiple
  <2>2. i < j
    <3> SUFFICES ASSUME j <= i PROVE FALSE
      OBVIOUS
    <3>1. j * p <= i * p
      BY TimesMonotone
    <3>2. j * p = b /\ i * p = a
      BY <1>1, <2>1, TimesPlus
    <3> QED BY <1>4, <3>1, <3>2
  <2>3. (i + 1) * p <= j * p
    BY <2>2, TimesMonotone
  <2>4. (i + 1) * p = a + p /\ j * p = b
    BY <1>2, <2>1, TimesPlus
  <2> QED BY <2>3, <2>4
<1> QED BY <1>3, <1>4

\* The image is whole pages in front of the boot section, of bytes.
LEMMA ImageIs ==
    /\ ImageSize \in Nat /\ ImageSize >= 2 /\ ImageSize <= BootStart
    /\ Multiple(ImageSize, PageSize) /\ Multiple(ImageSize, 2)
    /\ \A k \in 0 .. ImageSize - 1 : Image[k] \in Byte
<1>1. ImageSize \in Nat /\ ImageSize >= 2 /\ ImageSize <= BootStart /\ ImageSize % PageSize = 0
  BY ImageAssumption, Geometry
<1>2. ImageSize % 2 = 0
  BY <1>1, Geometry, EvenMultiple
<1>3. \A k \in 0 .. ImageSize - 1 : Image[k] \in Byte
  BY ImageAssumption
<1> QED BY <1>1, <1>2, <1>3, Geometry, MultipleIs

\* What a page that begins at a has of the addresses before and in it, and which
\* byte of the buffer goes where.
LEMMA PageFrom ==
    ASSUME NEW a \in Nat, Multiple(a, PageSize), NEW x \in Nat
    PROVE  /\ x < a => ~ InPage(x, a)
           /\ a <= x /\ x < a + PageSize =>
                 InPage(x, a) /\ (x + PageSize - (a % PageSize)) % PageSize = x - a
<1>1. a % PageSize = 0 /\ PageOf(a) = a
  BY Geometry, MultipleIs DEF PageOf
<1> DEFINE q == x \div PageSize
           r == x % PageSize
<1>2. q \in Nat /\ r \in 0 .. PageSize - 1 /\ x = PageSize * q + r
  BY Geometry, DivMod
<1>3. PageOf(x) = x - r
  BY DEF PageOf
<1>4. ASSUME x < a PROVE ~ InPage(x, a)
  BY <1>1, <1>2, <1>3, <1>4 DEF InPage
<1>5. ASSUME a <= x, x < a + PageSize
      PROVE  InPage(x, a) /\ (x + PageSize - (a % PageSize)) % PageSize = x - a
  <2>1. PICK i \in Nat : a = PageSize * i
    BY DEF Multiple
  <2>2. x - a \in Nat /\ x - a < PageSize /\ x = PageSize * i + (x - a)
    BY <1>5, <2>1, Geometry, TimesNat
  <2>3. r = x - a
    BY <2>2, Geometry, DivModIs
  <2>4. PageSize * (i + 1) = a + PageSize
    BY <2>1, Geometry, TimesPlus
  <2>5. x + PageSize = PageSize * (i + 1) + (x - a) /\ x + PageSize \in Nat /\ i + 1 \in Nat
    BY <2>2, <2>4, Geometry
  <2>6. (x + PageSize) % PageSize = x - a
    BY <2>2, <2>5, Geometry, DivModIs
  <2>7. x + PageSize - (a % PageSize) = x + PageSize
    BY <1>1, Geometry
  <2>8. InPage(x, a)
    BY <1>1, <1>3, <2>2, <2>3 DEF InPage
  <2> QED BY <2>6, <2>7, <2>8
<1> QED BY <1>4, <1>5

-----------------------------------------------------------------------------
\* The invariant of an upload.

PageWriter == {"push", "erase", "write", "next"}

\* The application's variables and the uploader's have their types; the uploader
\* sends two bytes at a time.
SessionInv ==
    /\ touchRate \in BOOLEAN /\ keyHeld \in BOOLEAN /\ wdtcsr_save \in BOOLEAN
    /\ session \in {"none", "upload", "done"}
    /\ offset \in Nat /\ offset <= ImageSize /\ Multiple(offset, 2)

\* Nobody but the uploader pushes bytes.
QuietInv ==
    /\ task = "midi" /\ left = 0 /\ cmd \in Harmless /\ pc # "fetch"
    /\ pc \notin PageWriter => pend = <<>>
    /\ pc \in {"erase", "write", "next"} => FirmwarePageIndex = PageSize

HoldsUpTo(a) == \A k \in 0 .. ImageSize - 1 : k < a => flash[k] = Image[k]

\* What the uploader has sent is in the flash, in the page buffer, or waits to be
\* pushed.
ProgressInv ==
    session = "upload" =>
      /\ CurrAddress + FirmwarePageIndex + Len(pend) = offset
      /\ Multiple(CurrAddress, PageSize)
      /\ \A i \in 1 .. Len(pend) :
            pend[i] = Image[CurrAddress + FirmwarePageIndex + (i - 1)]
      /\ \A s \in PageSlots : s < FirmwarePageIndex =>
            FirmwarePageBuffer[s] = Image[CurrAddress + s]
      /\ HoldsUpTo(CurrAddress)
      /\ pc = "next" => HoldsUpTo(CurrAddress + PageSize)

\* After it nothing is pushed.
DoneInv == session = "done" => HoldsUpTo(ImageSize) /\ pc \notin PageWriter

UploadInv == BootTypeInv /\ SessionInv /\ QuietInv /\ ProgressInv /\ DoneInv

\* A board as it is delivered, without an uploader.
LEMMA UploadInitInv == UploadInit => UploadInv
<1> SUFFICES ASSUME UploadInit PROVE UploadInv
  OBVIOUS
<1>1. BootTypeInv
  BY BootTypeInit DEF UploadInit
<1>2. SessionInv
  <2>1. 0 = 2 * 0
    OBVIOUS
  <2>2. Multiple(0, 2)
    BY <2>1 DEF Multiple
  <2>3. touchRate \in BOOLEAN /\ keyHeld \in BOOLEAN /\ wdtcsr_save \in BOOLEAN
    BY DEF UploadInit
  <2>4. session = "none" /\ offset = 0
    BY DEF UploadInit
  <2>5. Multiple(offset, 2)
    BY <2>2, <2>4, Zenon
  <2>6. offset \in Nat /\ offset <= ImageSize
    BY <2>4, ImageIs
  <2> QED BY <2>3, <2>4, <2>5, <2>6 DEF SessionInv
<1>3. QuietInv
  BY DEF UploadInit, BootInit, QuietInv, Harmless, PageWriter
<1>4. ProgressInv /\ DoneInv
  BY DEF UploadInit, ProgressInv, DoneInv
<1> QED BY <1>1, <1>2, <1>3, <1>4 DEF UploadInv

\* The application's variables keep their types.
LEMMA AppRamType ==
    ASSUME SessionInv, AppRam \/ SketchWrites \/ ControlRequest, wdt \in BOOLEAN
    PROVE  touchRate' \in BOOLEAN /\ keyHeld' \in BOOLEAN /\ wdtcsr_save' \in BOOLEAN
<1>1. CASE AppRam
  BY <1>1 DEF AppRam, AppStarts, NoApp, appVars, SessionInv
<1>2. CASE SetLineCoding
  BY <1>2 DEF SetLineCoding, SessionInv
<1>3. CASE SetControlLineState
  BY <1>3 DEF SetControlLineState, Touch, CancelTouch, SessionInv
<1>4. CASE SketchWrites
  BY <1>4 DEF SketchWrites, SessionInv
<1> QED BY <1>1, <1>2, <1>3, <1>4 DEF ControlRequest

\* A control request of the application leaves the bootloader's variables alone but
\* for the watchdog and the statement the CPU is at.
LEMMA ControlLeaves ==
    ASSUME ControlRequest
    PROVE  /\ pc = "app" /\ pc' \in {"app", "touch"}
           /\ UNCHANGED <<flash, MagicBootKey, stray, mcusr, why, RunBootloader,
                          pageVars, task, cmd, pend, left, attached, reply>>
<1>1. CASE SetLineCoding
  BY <1>1 DEF SetLineCoding, InApp, bootVars, pageVars
<1>2. CASE SetControlLineState
  BY <1>2 DEF SetControlLineState, InApp, Touch, CancelTouch, pageVars
<1> QED BY <1>1, <1>2 DEF ControlRequest

\* It keeps the types.
LEMMA ControlType ==
    ASSUME BootTypeInv, SessionInv, ControlRequest
    PROVE  BootTypeInv'
<1>1. wdt' \in BOOLEAN
  <2>1. wdt \in BOOLEAN /\ wdtcsr_save \in BOOLEAN
    BY DEF BootTypeInv, BootTypeOK, SessionInv
  <2>2. CASE SetLineCoding
    BY <2>1, <2>2 DEF SetLineCoding, bootVars
  <2>3. CASE SetControlLineState
    BY <2>1, <2>3 DEF SetControlLineState, Touch, CancelTouch
  <2> QED BY <2>2, <2>3 DEF ControlRequest
<1> QED BY <1>1, ControlLeaves DEF BootTypeInv, BootTypeOK, BootPcs, pageVars

\* The two bytes of an event are in the image.
LEMMA EventBytes ==
    ASSUME SessionInv, offset < ImageSize
    PROVE  /\ offset + 1 < ImageSize /\ Multiple(offset + 2, 2)
           /\ Image[offset] \in Byte /\ Image[offset + 1] \in Byte
<1>1. offset + 2 <= ImageSize /\ Multiple(offset + 2, 2)
  BY ImageIs, MultipleNext DEF SessionInv
<1> QED BY <1>1, ImageIs DEF SessionInv

\* Every step of the upload is one of the board and its hosts, or a control request.
LEMMA UploadIsBoard ==
    ASSUME SessionInv, UploadNext
    PROVE  BootNext \/ ControlRequest
<1>1. CASE UploadStart \/ UploadExit
  BY <1>1 DEF UploadStart, UploadExit, BootNext, AnyHost
<1>2. CASE UploadData
  <2>1. MidiData(Image[offset], Image[offset + 1]) /\ offset < ImageSize
    BY <1>2 DEF UploadData
  <2>2. Image[offset] \in Byte /\ Image[offset + 1] \in Byte
    BY <2>1, EventBytes
  <2> QED BY <2>1, <2>2 DEF BootNext, AnyHost
<1>3. CASE Vanish
  BY <1>3 DEF Vanish, BootNext, Resets
<1>4. CASE OtherHost
  <2>1. \A command \in Harmless : command \in Commands
    BY DEF Harmless, Commands
  <2> QED BY <1>4, <2>1 DEF OtherHost, BootNext, AnyHost
<1>5. CASE UploadCpu \/ UploadedApp
  BY <1>5 DEF UploadCpu, UploadedApp, SketchWrites, BootNext
<1> QED BY <1>1, <1>2, <1>3, <1>4, <1>5 DEF UploadNext

\* The types, and what the uploader has sent.
LEMMA UploadTypes ==
    ASSUME UploadInv, [UploadNext]_allVars
    PROVE  BootTypeInv' /\ SessionInv'
<1>0. BootTypeInv /\ SessionInv
  BY DEF UploadInv
<1>1. CASE UNCHANGED allVars
  <2>1. UNCHANGED bootVars /\ UNCHANGED appVars /\ UNCHANGED uploadVars
    BY <1>1 DEF allVars
  <2>2. BootTypeInv'
    BY <1>0, <2>1, BootTypeStep
  <2> QED BY <1>0, <2>1, <2>2 DEF appVars, uploadVars, SessionInv
<1>2. CASE UploadNext
  <2>1. BootTypeInv'
    BY <1>0, <1>2, UploadIsBoard, BootTypeStep, ControlType
  <2>2. AppRam \/ SketchWrites \/ ControlRequest
    BY <1>2 DEF UploadNext, UploadStart, UploadData, UploadExit, Vanish, OtherHost,
                UploadCpu, UploadedApp
  <2>3. touchRate' \in BOOLEAN /\ keyHeld' \in BOOLEAN /\ wdtcsr_save' \in BOOLEAN
    BY <1>0, <2>2, AppRamType DEF BootTypeInv, BootTypeOK
  <2>4. /\ session' \in {"none", "upload", "done"}
        /\ offset' \in Nat /\ offset' <= ImageSize /\ Multiple(offset', 2)
    <3>1. CASE UploadStart
      <4>1. 0 = 2 * 0
        OBVIOUS
      <4>2. Multiple(0, 2)
        BY <4>1 DEF Multiple
      <4> QED BY <3>1, <4>2, ImageIs DEF UploadStart
    <3>2. CASE UploadData
      <4>1. /\ offset \in Nat /\ offset' = offset + 2 /\ session' = session
            /\ offset + 1 < ImageSize /\ Multiple(offset + 2, 2)
        BY <1>0, <3>2, EventBytes DEF UploadData, SessionInv
      <4> QED BY <1>0, <4>1, ImageIs DEF SessionInv
    <3>3. CASE UploadExit \/ Vanish
      BY <1>0, <3>3 DEF UploadExit, Vanish, SessionInv
    <3>4. CASE OtherHost \/ UploadCpu \/ UploadedApp
      BY <1>0, <3>4 DEF OtherHost, UploadCpu, UploadedApp, uploadVars, SessionInv
    <3> QED BY <1>2, <3>1, <3>2, <3>3, <3>4 DEF UploadNext
  <2> QED BY <2>1, <2>3, <2>4 DEF SessionInv
<1> QED BY <1>1, <1>2

\* Resume() in an upload: the second byte of an event, or the end of MIDI_Task().
LEMMA UploadResumes ==
    ASSUME QuietInv, NEW bytes
    PROVE  Resume(bytes) = IF bytes # <<>> THEN "push" ELSE "cdc"
BY DEF QuietInv, Resume

\* Nobody else pushes bytes.
LEMMA QuietStep ==
    ASSUME UploadInv, [UploadNext]_allVars
    PROVE  QuietInv'
<1>0. BootTypeInv /\ QuietInv /\ DoneInv
  BY DEF UploadInv
<1> USE <1>0 DEF QuietInv, PageWriter
<1>1. CASE UNCHANGED allVars
  BY <1>1 DEF allVars, bootVars
<1>2. CASE UploadStart
  BY <1>2 DEF UploadStart, MidiStart
<1>3. CASE UploadData
  BY <1>3 DEF UploadData, MidiData, pageVars
<1>4. CASE UploadExit
  BY <1>4 DEF UploadExit, MidiExit, pageVars
<1>5. CASE Vanish
  <2>1. CASE Cable
    BY <2>1 DEF Cable, pageVars
  <2>2. CASE PowerOn \/ PowerOff \/ ExternalReset \/ BrownOut \/ WatchdogReset
    <3>1. ClearRam /\ pc' \in {"off", "check"}
      BY <2>2 DEF PowerOn, PowerOff, ExternalReset, BrownOut, WatchdogReset, Restart
    <3> QED BY <3>1 DEF ClearRam, Harmless
  <2> QED BY <1>5, <2>1, <2>2 DEF Vanish
<1>6. CASE OtherHost
  <2>1. CASE MidiNothing \/ CdcNothing \/ CdcBlockRead \/ CdcExit \/ CdcOther \/ CdcConclude
    BY <2>1 DEF MidiNothing, CdcNothing, CdcBlockRead, CdcExit, CdcOther, CdcConclude, pageVars
  <2>2. CASE \E command \in Harmless : CdcCommand(command)
    BY <2>2 DEF CdcCommand, pageVars
  <2> QED BY <1>6, <2>1, <2>2 DEF OtherHost
<1>7. CASE UploadCpu
  <2>1. CASE ApplicationJumpCheck
    BY <2>1 DEF ApplicationJumpCheck, Jump, pageVars
  <2>2. CASE Push
    BY <2>2, UploadResumes DEF Push
  <2>3. CASE ErasePage \/ WritePage
    BY <2>3 DEF ErasePage, WritePage, pageVars
  <2>4. CASE NextPage
    BY <2>4, UploadResumes DEF NextPage
  <2>5. CASE MainLoop \/ ExitBootloader
    BY <2>5 DEF MainLoop, ExitBootloader, pageVars
  <2> QED BY <1>7, <2>1, <2>2, <2>3, <2>4, <2>5 DEF UploadCpu, Cpu
<1>8. CASE UploadedApp
  <2>1. CASE AppStopsWatchdog \/ SketchWrites
    BY <2>1 DEF AppStopsWatchdog, SketchWrites, AppUsesRam, pageVars
  <2>2. CASE ControlRequest
    BY <2>2, ControlLeaves DEF pageVars
  <2> QED BY <1>8, <2>1, <2>2 DEF UploadedApp
<1> QED
  BY <1>1, <1>2, <1>3, <1>4, <1>5, <1>6, <1>7, <1>8 DEF UploadNext

\* A step that leaves flash, page and image alone leaves the progress as it is.
LEMMA ProgressStays ==
    ASSUME UploadInv, UNCHANGED <<flash, pageVars, pend, offset>>,
           session' = session \/ session' = "none",
           pc' = pc \/ pc' \notin PageWriter
    PROVE  ProgressInv' /\ DoneInv'
<1>1. ProgressInv'
  BY DEF UploadInv, ProgressInv, HoldsUpTo, pageVars, PageWriter
<1>2. DoneInv'
  BY DEF UploadInv, DoneInv, HoldsUpTo
<1> QED BY <1>1, <1>2

\* The types of what the progress relates.
LEMMA ProgressTypes ==
    ASSUME UploadInv
    PROVE  /\ CurrAddress \in Nat /\ FirmwarePageIndex \in Nat /\ FirmwarePageIndex <= PageSize
           /\ FirmwarePageIndex = PageSize => pc \in {"erase", "write", "next"}
           /\ pend \in Seq(Byte) /\ Len(pend) \in Nat
           /\ FirmwarePageBuffer \in [PageSlots -> Byte]
           /\ offset \in Nat /\ offset <= ImageSize
           /\ pc = "push" => pend # <<>>
           /\ session \in {"none", "upload", "done"}
BY Geometry DEF UploadInv, BootTypeInv, BootTypeOK, EvenAddr, SessionInv

\* StartFirmware begins at the first byte of the first page.
LEMMA StartProgress ==
    ASSUME UploadInv, UploadStart
    PROVE  ProgressInv' /\ DoneInv'
<1>1. /\ CurrAddress' = 0 /\ FirmwarePageIndex' = 0 /\ offset' = 0 /\ session' = "upload"
      /\ pend' = <<>> /\ pc' = "cdc"
  BY DEF UploadStart, MidiStart, UploadInv, QuietInv, PageWriter
<1>2. Len(pend') = 0
  BY <1>1
<1>3. Multiple(CurrAddress', PageSize)
  <2>1. 0 = PageSize * 0
    BY Geometry
  <2>2. Multiple(0, PageSize)
    BY <2>1 DEF Multiple
  <2> QED BY <1>1, <2>2
<1>4. \A s \in PageSlots : ~(s < FirmwarePageIndex')
  BY <1>1 DEF PageSlots
<1>5. \A k \in 0 .. ImageSize - 1 : ~(k < CurrAddress')
  BY <1>1, ImageIs
<1>6. \A i \in 1 .. Len(pend') : FALSE
  BY <1>2
<1>7. CurrAddress' + FirmwarePageIndex' + Len(pend') = offset'
  BY <1>1, <1>2
<1> QED BY <1>1, <1>3, <1>4, <1>5, <1>6, <1>7 DEF ProgressInv, DoneInv, HoldsUpTo

\* An event brings the next two bytes.
LEMMA DataProgress ==
    ASSUME UploadInv, UploadData
    PROVE  ProgressInv' /\ DoneInv'
<1>1. /\ session = "upload" /\ session' = "upload" /\ offset' = offset + 2
      /\ pend = <<>> /\ pend' = <<Image[offset], Image[offset + 1]>> /\ pc' = "push"
      /\ UNCHANGED <<flash, CurrAddress, FirmwarePageIndex, FirmwarePageBuffer>>
  BY DEF UploadData, MidiData, pageVars, UploadInv, QuietInv, PageWriter
<1>2. CurrAddress + FirmwarePageIndex = offset
  <2>1. CurrAddress + FirmwarePageIndex + Len(pend) = offset
    BY <1>1 DEF UploadInv, ProgressInv
  <2>2. Len(pend) = 0
    BY <1>1
  <2> QED BY <2>1, <2>2, ProgressTypes
<1>3. Len(pend') = 2 /\ pend'[1] = Image[offset] /\ pend'[2] = Image[offset + 1]
  BY <1>1
<1>4. ASSUME NEW i \in 1 .. Len(pend')
      PROVE  pend'[i] = Image[CurrAddress' + FirmwarePageIndex' + (i - 1)]
  <2>1. i \in {1, 2}
    BY <1>3
  <2>2. CurrAddress' + FirmwarePageIndex' = offset
    BY <1>1, <1>2
  <2>3. offset + (1 - 1) = offset /\ offset + (2 - 1) = offset + 1
    BY ProgressTypes
  <2>4. CASE i = 1
    BY <1>3, <2>2, <2>3, <2>4
  <2>5. CASE i = 2
    BY <1>3, <2>2, <2>3, <2>5
  <2> QED BY <2>1, <2>4, <2>5
<1>5. CurrAddress' + FirmwarePageIndex' + Len(pend') = offset'
  BY <1>1, <1>2, <1>3, ProgressTypes
<1>6. Multiple(CurrAddress', PageSize) /\ HoldsUpTo(CurrAddress)'
  BY <1>1 DEF UploadInv, ProgressInv, HoldsUpTo
<1>7. \A s \in PageSlots : s < FirmwarePageIndex' =>
         FirmwarePageBuffer'[s] = Image[CurrAddress' + s]
  BY <1>1 DEF UploadInv, ProgressInv
<1> QED BY <1>1, <1>4, <1>5, <1>6, <1>7 DEF ProgressInv, DoneInv

\* When all is sent and the board has come back for more, all is written.
LEMMA ExitProgress ==
    ASSUME UploadInv, UploadExit
    PROVE  ProgressInv' /\ DoneInv'
<1>1. /\ session = "upload" /\ session' = "done" /\ offset = ImageSize
      /\ pend = <<>> /\ pc = "midi" /\ pc' = "cdc" /\ flash' = flash
  BY DEF UploadExit, MidiExit, UploadInv, QuietInv, PageWriter
<1>2. CurrAddress + FirmwarePageIndex = ImageSize
  <2>1. CurrAddress + FirmwarePageIndex + Len(pend) = offset
    BY <1>1 DEF UploadInv, ProgressInv
  <2>2. Len(pend) = 0
    BY <1>1
  <2> QED BY <1>1, <2>1, <2>2, ProgressTypes
<1>3. FirmwarePageIndex < PageSize
  BY <1>1, ProgressTypes, Geometry
<1>4. Multiple(CurrAddress, PageSize) /\ HoldsUpTo(CurrAddress)
  BY <1>1 DEF UploadInv, ProgressInv
<1>5. CurrAddress = ImageSize
  <2>1. ~ (CurrAddress < ImageSize)
    <3> SUFFICES ASSUME CurrAddress < ImageSize PROVE FALSE
      OBVIOUS
    <3>1. CurrAddress + PageSize <= ImageSize
      BY <1>4, MultipleNext, ImageIs, ProgressTypes, Geometry
    <3> QED BY <1>2, <1>3, <3>1, ProgressTypes, ImageIs, Geometry
  <2> QED BY <1>2, <2>1, ProgressTypes, ImageIs
<1>6. HoldsUpTo(ImageSize)'
  BY <1>1, <1>4, <1>5 DEF HoldsUpTo
<1> QED BY <1>1, <1>6 DEF ProgressInv, DoneInv, PageWriter

\* A byte moves from the event to the buffer; a full page is in front of the boot
\* section.
LEMMA PushProgress ==
    ASSUME UploadInv, Push, UNCHANGED uploadVars
    PROVE  ProgressInv' /\ DoneInv'
<1>0. pc = "push" /\ session' = session /\ offset' = offset
  BY DEF Push, uploadVars
<1>1. DoneInv'
  BY <1>0 DEF UploadInv, DoneInv, PageWriter
<1>2. CASE session # "upload"
  BY <1>0, <1>1, <1>2 DEF ProgressInv
<1>3. CASE session = "upload"
  <2> DEFINE C == CurrAddress
             I == FirmwarePageIndex
             L == Len(pend)
  <2>1. /\ C \in Nat /\ I \in Nat /\ I < PageSize /\ L \in Nat \ {0} /\ offset \in Nat
        /\ pend \in Seq(Byte) /\ pend # <<>>
    BY <1>0, ProgressTypes, Geometry
  <2>2. /\ C + I + L = offset /\ Multiple(C, PageSize) /\ HoldsUpTo(C)
        /\ \A i \in 1 .. L : pend[i] = Image[C + I + (i - 1)]
        /\ \A s \in PageSlots : s < I => FirmwarePageBuffer[s] = Image[C + s]
    BY <1>3 DEF UploadInv, ProgressInv
  <2>3. /\ C' = C /\ I' = I + 1 /\ pend' = Tail(pend) /\ flash' = flash
        /\ FirmwarePageBuffer' = [FirmwarePageBuffer EXCEPT ![I] = Head(pend)]
    BY DEF Push
  <2>4. /\ L' = L - 1 /\ Head(pend) = pend[1]
        /\ \A i \in 1 .. L - 1 : Tail(pend)[i] = pend[i + 1]
    BY <2>1, <2>3
  <2>5. FirmwarePageBuffer \in [PageSlots -> Byte]
    BY ProgressTypes
  <2> HIDE DEF C, I, L
  <2>6. C' + I' + L' = offset'
    BY <1>0, <2>1, <2>2, <2>3, <2>4
  <2>7. ASSUME NEW i \in 1 .. L' PROVE pend'[i] = Image[C' + I' + (i - 1)]
    <3>1. i \in 1 .. L - 1 /\ i + 1 \in 1 .. L
      BY <2>1, <2>4
    <3>2. pend'[i] = pend[i + 1]
      BY <2>3, <2>4, <3>1
    <3>3. pend[i + 1] = Image[C + I + ((i + 1) - 1)]
      BY <2>2, <3>1
    <3>4. C + I + ((i + 1) - 1) = C' + I' + (i - 1)
      BY <2>1, <2>3, <3>1
    <3> QED BY <3>2, <3>3, <3>4
  <2>8. ASSUME NEW s \in PageSlots, s < I' PROVE FirmwarePageBuffer'[s] = Image[C' + s]
    <3>1. CASE s = I
      <4>1. FirmwarePageBuffer'[s] = pend[1]
        BY <2>3, <2>4, <2>5, <3>1
      <4>2. pend[1] = Image[C + I + (1 - 1)] /\ C + I + (1 - 1) = C' + s
        BY <2>1, <2>2, <2>3, <3>1
      <4> QED BY <4>1, <4>2
    <3>2. CASE s # I
      <4>1. s < I
        BY <2>1, <2>3, <2>8, <3>2 DEF PageSlots
      <4>2. FirmwarePageBuffer'[s] = FirmwarePageBuffer[s]
        BY <2>3, <2>5, <3>2
      <4> QED BY <2>2, <2>3, <4>1, <4>2
    <3> QED BY <3>1, <3>2
  <2>9. Multiple(C', PageSize) /\ HoldsUpTo(C)'
    BY <2>2, <2>3 DEF HoldsUpTo
  <2>10. C < BootStart
    BY <2>1, <2>2, ProgressTypes, ImageIs, Geometry
  <2>11. pc' # "next"
    <3>1. Resume(Tail(pend)) # "next"
      BY UploadResumes DEF UploadInv
    <3> QED BY <2>10, <3>1 DEF Push, C
  <2> QED BY <1>0, <1>1, <1>3, <2>6, <2>7, <2>8, <2>9, <2>11 DEF ProgressInv, C, I, L
<1> QED BY <1>2, <1>3

\* Erasing a page and writing it leave the pages before it; written, it holds what
\* the buffer does.
LEMMA PageProgress ==
    ASSUME UploadInv, ErasePage \/ WritePage, UNCHANGED uploadVars
    PROVE  ProgressInv' /\ DoneInv'
<1>0. /\ pc \in {"erase", "write"} /\ session' = session /\ offset' = offset
      /\ UNCHANGED <<CurrAddress, FirmwarePageIndex, FirmwarePageBuffer, pend>>
  BY DEF ErasePage, WritePage, uploadVars, pageVars
<1>1. DoneInv'
  BY <1>0 DEF UploadInv, DoneInv, PageWriter
<1>2. CASE session # "upload"
  BY <1>0, <1>1, <1>2 DEF ProgressInv
<1>3. CASE session = "upload"
  <2>1. /\ CurrAddress + FirmwarePageIndex + Len(pend) = offset
        /\ Multiple(CurrAddress, PageSize) /\ HoldsUpTo(CurrAddress)
        /\ \A i \in 1 .. Len(pend) :
              pend[i] = Image[CurrAddress + FirmwarePageIndex + (i - 1)]
        /\ \A s \in PageSlots : s < FirmwarePageIndex =>
              FirmwarePageBuffer[s] = Image[CurrAddress + s]
    BY <1>3 DEF UploadInv, ProgressInv
  <2>2. FirmwarePageIndex = PageSize /\ CurrAddress \in Nat
    BY <1>0, ProgressTypes DEF UploadInv, QuietInv
  <2>3. \A k \in 0 .. ImageSize - 1 : k \in Nat /\ k \in FlashAddr
    BY ImageIs, GeometryAssumption DEF FlashAddr
  <2>4. \A k \in 0 .. ImageSize - 1 : k < CurrAddress => ~ InPage(k, CurrAddress)
    BY <2>1, <2>2, <2>3, PageFrom
  <2>5. HoldsUpTo(CurrAddress)'
    <3>1. CASE ErasePage
      BY <1>0, <2>1, <2>3, <2>4, <3>1 DEF ErasePage, Erased, HoldsUpTo
    <3>2. CASE WritePage
      BY <1>0, <2>1, <2>3, <2>4, <3>2 DEF WritePage, Written, HoldsUpTo
    <3> QED BY <3>1, <3>2
  <2>6. ASSUME pc' = "next" PROVE HoldsUpTo(CurrAddress + PageSize)'
    <3>1. flash' = Written(CurrAddress)
      BY <2>6 DEF ErasePage, WritePage
    <3>2. ASSUME NEW k \in 0 .. ImageSize - 1, k < CurrAddress + PageSize
          PROVE  flash'[k] = Image[k]
      <4>1. CASE k < CurrAddress
        BY <1>0, <2>5, <4>1 DEF HoldsUpTo
      <4>2. CASE CurrAddress <= k
        <5>1. /\ InPage(k, CurrAddress)
              /\ (k + PageSize - (CurrAddress % PageSize)) % PageSize = k - CurrAddress
          BY <2>1, <2>2, <2>3, <3>2, <4>2, PageFrom
        <5>2. flash'[k] = FirmwarePageBuffer[k - CurrAddress]
          BY <2>3, <3>1, <5>1 DEF Written
        <5>3. /\ k - CurrAddress \in PageSlots /\ k - CurrAddress < PageSize
              /\ CurrAddress + (k - CurrAddress) = k
          BY <2>2, <2>3, <3>2, <4>2, Geometry DEF PageSlots
        <5>4. FirmwarePageBuffer[k - CurrAddress] = Image[CurrAddress + (k - CurrAddress)]
          BY <2>1, <2>2, <5>3
        <5> QED BY <5>2, <5>3, <5>4
      <4> QED BY <2>2, <2>3, <4>1, <4>2
    <3> QED BY <1>0, <3>2 DEF HoldsUpTo
  <2> QED BY <1>0, <1>1, <2>1, <2>5, <2>6 DEF ProgressInv
<1> QED BY <1>2, <1>3

\* The address moves on, and does not wrap: the image ends in front of the boot
\* section.
LEMMA NextProgress ==
    ASSUME UploadInv, NextPage, UNCHANGED uploadVars
    PROVE  ProgressInv' /\ DoneInv'
<1>0. pc = "next" /\ session' = session /\ offset' = offset
  BY DEF NextPage, uploadVars
<1>1. DoneInv'
  BY <1>0 DEF UploadInv, DoneInv, PageWriter
<1>2. CASE session # "upload"
  BY <1>0, <1>1, <1>2 DEF ProgressInv
<1>3. CASE session = "upload"
  <2>1. /\ CurrAddress + FirmwarePageIndex + Len(pend) = offset
        /\ Multiple(CurrAddress, PageSize) /\ HoldsUpTo(CurrAddress + PageSize)
        /\ \A i \in 1 .. Len(pend) :
              pend[i] = Image[CurrAddress + FirmwarePageIndex + (i - 1)]
    BY <1>0, <1>3 DEF UploadInv, ProgressInv
  <2>2. FirmwarePageIndex = PageSize /\ CurrAddress \in Nat /\ Len(pend) \in Nat
    BY <1>0, ProgressTypes DEF UploadInv, QuietInv
  <2>3. CurrAddress + PageSize < AddrSpace /\ CurrAddress + PageSize \in Nat
    BY <2>1, <2>2, ProgressTypes, ImageIs, GeometryAssumption
  <2>4. (CurrAddress + PageSize) % AddrSpace = CurrAddress + PageSize
    <3>1. PICK a \in Nat : a = CurrAddress + PageSize
      BY <2>3
    <3>2. a < AddrSpace /\ a = AddrSpace * 0 + a
      BY <2>3, <3>1, Geometry
    <3>3. a % AddrSpace = a
      BY <3>2, Geometry, DivModIs
    <3> QED BY <3>1, <3>3
  <2>5. /\ CurrAddress' = CurrAddress + PageSize /\ FirmwarePageIndex' = 0
        /\ pend' = pend /\ flash' = flash
    BY <2>4 DEF NextPage
  <2>6. Multiple(CurrAddress', PageSize)
    BY <2>1, <2>2, <2>5, MultipleNext, Geometry
  <2>7. CurrAddress' + FirmwarePageIndex' + Len(pend') = offset'
    BY <1>0, <2>1, <2>2, <2>5, Geometry
  <2>8. ASSUME NEW i \in 1 .. Len(pend')
        PROVE  pend'[i] = Image[CurrAddress' + FirmwarePageIndex' + (i - 1)]
    <3>1. pend'[i] = Image[CurrAddress + FirmwarePageIndex + (i - 1)]
      BY <2>1, <2>5
    <3>2. CurrAddress + FirmwarePageIndex + (i - 1) = CurrAddress' + FirmwarePageIndex' + (i - 1)
      BY <2>2, <2>5, Geometry
    <3> QED BY <3>1, <3>2
  <2>9. HoldsUpTo(CurrAddress)'
    BY <2>1, <2>5 DEF HoldsUpTo
  <2>10. \A s \in PageSlots : ~ (s < FirmwarePageIndex')
    BY <2>5 DEF PageSlots
  <2>11. pc' # "next"
    <3>1. Resume(pend) # "next"
      BY UploadResumes DEF UploadInv
    <3> QED BY <3>1 DEF NextPage
  <2> QED BY <1>1, <2>6, <2>7, <2>8, <2>9, <2>10, <2>11 DEF ProgressInv
<1> QED BY <1>2, <1>3

\* Every step.
LEMMA ProgressStep ==
    ASSUME UploadInv, [UploadNext]_allVars
    PROVE  ProgressInv' /\ DoneInv'
<1>1. CASE UNCHANGED allVars
  BY <1>1, ProgressStays DEF allVars, bootVars, pageVars, uploadVars
<1>2. CASE UploadStart \/ UploadData \/ UploadExit
  BY <1>2, StartProgress, DataProgress, ExitProgress
<1>3. CASE Vanish
  <2>1. /\ session' = IF session = "upload" THEN "none" ELSE session
        /\ flash' = flash /\ (pc' = pc \/ pc' \notin PageWriter)
    BY <1>3
    DEF Vanish, Cable, PowerOn, PowerOff, ExternalReset, BrownOut, WatchdogReset, Restart,
        ClearRam, PageWriter
  <2>2. session' # "upload" /\ (session' = "done" => session = "done")
    BY <2>1
  <2> QED BY <2>1, <2>2 DEF UploadInv, ProgressInv, DoneInv, HoldsUpTo
<1>4. CASE OtherHost
  <2>1. UNCHANGED <<flash, pageVars, pend>> /\ pc' \notin PageWriter
    BY <1>4
    DEF OtherHost, MidiNothing, CdcNothing, CdcCommand, CdcBlockRead, CdcExit, CdcOther,
        CdcConclude, PageWriter
  <2> QED BY <1>4, <2>1, ProgressStays DEF OtherHost, uploadVars
<1>5. CASE UploadCpu
  <2>0. UNCHANGED uploadVars
    BY <1>5 DEF UploadCpu
  <2>1. CASE ApplicationJumpCheck \/ MainLoop \/ ExitBootloader
    <3>1. UNCHANGED <<flash, pageVars, pend>> /\ pc' \notin PageWriter
      BY <2>1 DEF ApplicationJumpCheck, Jump, MainLoop, ExitBootloader, PageWriter
    <3> QED BY <2>0, <3>1, ProgressStays DEF uploadVars
  <2> QED
    BY <1>5, <2>0, <2>1, PushProgress, PageProgress, NextProgress DEF UploadCpu, Cpu
<1>6. CASE UploadedApp
  <2>1. UNCHANGED <<flash, pageVars, pend>> /\ (pc' = pc \/ pc' \notin PageWriter)
    BY <1>6, ControlLeaves
    DEF UploadedApp, AppStopsWatchdog, SketchWrites, AppUsesRam, PageWriter
  <2> QED BY <1>6, <2>1, ProgressStays DEF UploadedApp, uploadVars
<1> QED BY <1>1, <1>2, <1>3, <1>4, <1>5, <1>6 DEF UploadNext

\* The invariant holds in every state.
LEMMA UploadSafety == UploadSpec => []UploadInv
<1>1. UploadInv /\ [UploadNext]_allVars => UploadInv'
  BY UploadTypes, QuietStep, ProgressStep DEF UploadInv
<1> QED BY <1>1, UploadInitInv, PTL DEF UploadSpec

\* Once an upload is complete the application section holds the image, however many
\* uploads broke off before it, at whatever byte, and whatever follows.
THEOREM UploadsAreComplete == UploadSpec => []CompleteUploadIsInFlash
<1>1. UploadInv => CompleteUploadIsInFlash
  BY ImageIs DEF UploadInv, DoneInv, HoldsUpTo, CompleteUploadIsInFlash
<1> QED BY <1>1, UploadSafety, PTL

\* A request of a host to the application neither changes flash nor makes a start due.
LEMMA ControlSection == SectionInv /\ ControlRequest => SectionInv'
BY ControlLeaves DEF SectionInv, BootSectionIntact

\* The same for the key and the flags: the touch sets a key of its own.
LEMMA ControlStart == StartInv /\ ControlRequest => StartInv'
BY ControlLeaves DEF StartInv

\* What the check finds, with uploads and touches in the system.
LEMMA UploadStartInv == UploadSpec => []StartInv
<1>1. UploadInit => StartInv
  BY StartInit DEF UploadInit
<1>2. UploadInv /\ StartInv /\ [UploadNext]_allVars => StartInv'
  <2> SUFFICES ASSUME UploadInv, StartInv, [UploadNext]_allVars PROVE StartInv'
    OBVIOUS
  <2>1. CASE UploadNext
    BY <2>1, UploadIsBoard, StartStep, ControlStart DEF UploadInv
  <2>2. CASE UNCHANGED allVars
    BY <2>2, StartStep DEF allVars
  <2> QED BY <2>1, <2>2
<1> QED BY <1>1, <1>2, UploadSafety, PTL DEF UploadSpec

\* In an upload, with touches of the application's port, data of the sketch over
\* the cells of both keys and bootloader exits from elsewhere, the start of an
\* application is due as well.
THEOREM TouchedStartIsDue == UploadSpec => StartIsDue
<1>1. ASSUME UploadInv, StartInv, [UploadNext]_allVars
      PROVE  [ (pc = "check" /\ pc' = "app")
                 => /\ why # "button"
                    /\ why \in {"power", "exit"} \/ stray ]_bootVars
  <2> SUFFICES ASSUME pc = "check", pc' = "app"
               PROVE  /\ why # "button"
                      /\ why \in {"power", "exit"} \/ stray
    OBVIOUS
  <2>1. UploadNext
    BY <1>1 DEF allVars, bootVars
  <2>2. MayJump
    BY <1>1, <2>1, UploadIsBoard, OnlyTheCheckStarts, ControlLeaves DEF UploadInv
  <2> QED BY <1>1, <2>2, DueStart
<1> QED BY <1>1, UploadStartInv, UploadSafety, PTL DEF UploadSpec, StartIsDue

\* The same for the bootloader's own section.
THEOREM TouchedSectionIntact == UploadSpec => []BootSectionIntact
<1>1. UploadInit => SectionInv
  BY SectionInit DEF UploadInit
<1>2. UploadInv /\ SectionInv /\ [UploadNext]_allVars => SectionInv'
  <2> SUFFICES ASSUME UploadInv, SectionInv, [UploadNext]_allVars PROVE SectionInv'
    OBVIOUS
  <2>0. BootTypeInv /\ SessionInv
    BY DEF UploadInv
  <2>1. CASE UploadNext
    BY <2>0, <2>1, UploadIsBoard, SectionStep, ControlSection
  <2>2. CASE UNCHANGED allVars
    BY <2>0, <2>2, SectionStep DEF allVars
  <2> QED BY <2>1, <2>2
<1>3. SectionInv => BootSectionIntact
  BY DEF SectionInv
<1> QED BY <1>1, <1>2, <1>3, UploadSafety, PTL DEF UploadSpec

-----------------------------------------------------------------------------
\* UploadedStarts: what the check finds after power-on and after an exit of the
\* bootloader, when no other reset has come since.
CauseInv ==
    /\ pc \notin {"off", "check"} => mcusr = {}
    /\ pc = "spin" => MagicBootKey
    /\ pc = "check" /\ why = "power" => "PORF" \in mcusr /\ "EXTRF" \notin mcusr
    /\ pc = "check" /\ why = "exit" =>
          MagicBootKey /\ "EXTRF" \notin mcusr /\ "PORF" \notin mcusr

\* Every step of the board keeps it.
LEMMA CauseStep == CauseInv /\ [BootNext]_bootVars => CauseInv'
<1> SUFFICES ASSUME CauseInv, [BootNext]_bootVars PROVE CauseInv'
  OBVIOUS
<1> USE DEF CauseInv
<1>k. ASSUME UNCHANGED resetVars, pc \notin {"off", "check"},
             pc' \notin {"off", "check", "spin"}
      PROVE  CauseInv'
  BY <1>k DEF resetVars
<1>r. ASSUME NEW bytes
      PROVE  Resume(bytes) \notin {"off", "check", "spin"}
  BY DEF Resume
<1>1. CASE Resets
  BY <1>1
  DEF Resets, PowerOn, PowerOff, ExternalReset, BrownOut, WatchdogReset, Restart,
      CellByChance
<1>2. CASE ApplicationJumpCheck
  BY <1>2 DEF ApplicationJumpCheck, Jump
<1>3. CASE Push
  BY <1>3, <1>k, <1>r DEF Push
<1>4. CASE ErasePage \/ WritePage
  BY <1>4, <1>k DEF ErasePage, WritePage
<1>5. CASE NextPage
  BY <1>5, <1>k, <1>r DEF NextPage
<1>6. CASE AppStopsWatchdog \/ AppUsesRam \/ ExitBootloader
  BY <1>6 DEF AppStopsWatchdog, AppUsesRam, CellByChance, ExitBootloader
<1>7. CASE MainLoop
  BY <1>7, <1>k DEF MainLoop
<1>8. CASE AnyHost
  BY <1>8, <1>k
  DEF AnyHost, MidiNothing, MidiStart, MidiExit, MidiData, CdcNothing, CdcCommand,
      CdcExit, CdcBlockWrite, CdcBlockRead, CdcOther, CdcSetAddress, CdcFetch,
      CdcConclude
<1>9. CASE Cable \/ UNCHANGED bootVars
  BY <1>9 DEF Cable, resetVars, bootVars
<1> QED
  BY <1>1, <1>2, <1>3, <1>4, <1>5, <1>6, <1>7, <1>8, <1>9 DEF BootNext, Cpu

\* So does every step of the upload, and every touch.
LEMMA CauseInUpload == UploadInv /\ CauseInv /\ [UploadNext]_allVars => CauseInv'
<1> SUFFICES ASSUME UploadInv, CauseInv, [UploadNext]_allVars PROVE CauseInv'
  OBVIOUS
<1>1. CASE ControlRequest
  BY <1>1, ControlLeaves DEF CauseInv
<1>2. CASE UploadNext /\ ~ ControlRequest
  BY <1>2, UploadIsBoard, CauseStep DEF UploadInv
<1>3. CASE UNCHANGED allVars
  BY <1>3, CauseStep DEF allVars
<1> QED BY <1>1, <1>2, <1>3

\* With an image in the flash the check finds a firmware.
LEMMA UploadIsFirmware == UploadInv /\ session = "done" => FirmwarePresent
<1> SUFFICES ASSUME UploadInv, session = "done" PROVE FirmwarePresent
  OBVIOUS
<1>1. flash[0] = Image[0] /\ flash[1] = Image[1]
  BY ImageIs DEF UploadInv, DoneInv, HoldsUpTo
<1> QED BY <1>1, ImageAssumption DEF FirmwarePresent

\* After a complete upload power-on and an exit a host has asked for start the image:
\* the check that follows them does not stay in the bootloader.
THEOREM UploadedImageStarts == UploadSpec => UploadedStarts
<1>1. UploadInit => CauseInv
  BY DEF UploadInit, BootInit, CauseInv
<1>2. ASSUME UploadInv, CauseInv, [UploadNext]_allVars
      PROVE  [ (session = "done" /\ pc = "check" /\ why \in {"power", "exit"})
                 => (pc' \in {"app", "off", "check"}) ]_allVars
  <2> SUFFICES ASSUME session = "done", pc = "check", why \in {"power", "exit"}, UploadNext
               PROVE  pc' \in {"app", "off", "check"}
    BY <1>2
  <2>1. MayJump
    <3>1. "EXTRF" \notin mcusr /\ ("PORF" \in mcusr \/ MagicBootKey)
      BY <1>2 DEF CauseInv
    <3> QED BY <1>2, <3>1, UploadIsFirmware DEF MayJump
  <2>2. CASE ApplicationJumpCheck
    BY <2>1, <2>2 DEF ApplicationJumpCheck, Jump
  <2>3. CASE Vanish
    BY <2>3
    DEF Vanish, PowerOn, PowerOff, ExternalReset, BrownOut, WatchdogReset, Restart, Cable
  <2>4. ~ UploadStart /\ ~ UploadData /\ ~ UploadExit
    BY DEF UploadStart, UploadData, UploadExit, MidiStart, MidiData, MidiExit
  <2>5. ~ OtherHost
    BY DEF OtherHost, MidiNothing, CdcNothing, CdcCommand, CdcBlockRead, CdcExit,
           CdcOther, CdcConclude
  <2>6. UploadCpu => ApplicationJumpCheck
    BY DEF UploadCpu, Cpu, Push, ErasePage, WritePage, NextPage, MainLoop, ExitBootloader
  <2>7. ~ UploadedApp
    BY ControlLeaves DEF UploadedApp, AppStopsWatchdog, SketchWrites, AppUsesRam
  <2> QED BY <2>2, <2>3, <2>4, <2>5, <2>6, <2>7 DEF UploadNext
<1> QED
  BY <1>1, <1>2, CauseInUpload, UploadSafety, PTL DEF UploadSpec, UploadedStarts
=============================================================================
