------------------------------ MODULE UsbSend ------------------------------
(***************************************************************************)
(* Sending over USB: USB_Send(), USB_SendSpace() and USB_Flush() of        *)
(* USBCore.cpp under three callers, Serial.write() and flush(), the MIDI   *)
(* library and HID().SendReport(), with the two USB interrupts.            *)
(*                                                                         *)
(* Endpoint e has Banks[e] memory banks of EpSize bytes.  The CPU fills one; *)
(* releasing it queues it for the host.  All endpoint registers act on the *)
(* endpoint UENUM selects, and both interrupt handlers select another one  *)
(* and do not restore it: that is what LockEP is for.  A call never waits, *)
(* so the host does not get through a whole enumeration within one: the    *)
(* endpoints are configured only between calls.  What the control endpoint *)
(* carries is not modelled, only that its handler selects it.              *)
(***************************************************************************)
EXTENDS Naturals, Sequences, SequencesExt

CONSTANTS EpSize,       \* USB_EP_SIZE
          Banks,        \* banks of each endpoint, two in EP_DOUBLE_64
          CdcTexts,     \* what the sketch passes to Serial.write()
          MidiEvents,   \* what it passes to MidiUSB.sendMIDI()
          ReportId,     \* the HID report identifier
          ReportBodies  \* what it passes to HID().SendReport()

Ins == {"cdc", "midi", "hid"}   \* CDC_TX, MIDI_TX, the HID endpoint

Whole(body) == <<ReportId>> \o body

ASSUME UsbSizesAssumption == EpSize \in Nat \ {0} /\ Banks \in [Ins -> Nat \ {0}]
ASSUME UsbDataAssumption ==
    /\ \A d \in CdcTexts \cup MidiEvents \cup ReportBodies : d \in Seq(Nat) /\ d # <<>>
    /\ \A d \in ReportBodies : Len(Whole(d)) < EpSize
    /\ ReportId \in Nat

VARIABLES
    conf,     \* _usbConfiguration # 0
    open,     \* _usbLineInfo.lineState > 0
    enabled,  \* hardware: the endpoints are configured
    eorst,    \* hardware: the end-of-reset interrupt is pending
    uenum,    \* UENUM: the selected endpoint
    bank,     \* hardware: the bytes in the bank the CPU fills
    queue,    \* hardware: the released packets the host has not taken
    pc,       \* the statement the sketch executes next
    ep,       \* the endpoint of the call
    left,     \* the data USB_Send() has not written yet
    n,        \* its local n
    sendZlp,  \* its local sendZlp
    release,  \* TRANSFER_RELEASE
    body,     \* what SendReport() sends after the identifier
    pending,  \* bytes written and not yet taken by the host (history)
    full,     \* the last packet released was a full one (history)
    refused   \* the last send of the endpoint returned -1 (history)

hardware == <<enabled, eorst, bank, queue, pending, full>>
call == <<pc, ep, left, n, sendZlp, release, body>>
vars == <<conf, open, enabled, eorst, uenum, bank, queue, pc, ep, left, n,
          sendZlp, release, body, pending, full, refused>>

Nothing == [e \in Ins |-> <<>>]

UsbInit ==
    /\ conf = FALSE /\ open = FALSE /\ enabled = FALSE /\ eorst = FALSE
    /\ uenum = "ep0" /\ bank = Nothing /\ queue = Nothing
    /\ pc = "idle" /\ ep = "cdc" /\ left = <<>> /\ n = 0
    /\ sendZlp = FALSE /\ release = FALSE /\ body = <<>>
    /\ pending = Nothing
    /\ full = [e \in Ins |-> FALSE] /\ refused = [e \in Ins |-> FALSE]

-----------------------------------------------------------------------------
\* The endpoint registers.

BankFree(e) == enabled /\ Len(queue[e]) < Banks[e]

\* ReadWriteAllowed(): the CPU has a bank and it is not full.
Allowed(e) == e \in Ins /\ BankFree(e) /\ Len(bank[e]) < EpSize

\* FifoByteCount(): with no bank free, of the one the host takes next.
ByteCount(e) == IF ~BankFree(e) /\ queue[e] # <<>>
                THEN Len(Head(queue[e])) ELSE Len(bank[e])

\* ReleaseTX() for e, once more is in its bank: without a free bank, nothing.
Release(e, more) ==
    IF e \in Ins /\ BankFree(e)
    THEN /\ queue' = [queue EXCEPT ![e] = Append(@, bank[e] \o more)]
         /\ bank' = [bank EXCEPT ![e] = <<>>]
         /\ full' = [full EXCEPT ![e] = Len(bank[e] \o more) = EpSize]
    ELSE UNCHANGED <<queue, bank, full>>

-----------------------------------------------------------------------------
\* The call ends.
Return(fails) ==
    /\ pc' = "idle" /\ left' = <<>> /\ n' = 0 /\ sendZlp' = FALSE
    /\ release' = FALSE /\ body' = <<>> /\ ep' = "cdc"
    /\ refused' = [refused EXCEPT ![ep] = fails]

\* USB_Send(e, data) is called; a device that is not configured sends nothing.
StartSend(e, data, next) ==
    /\ pc = "idle"
    /\ IF conf
       THEN /\ pc' = "space" /\ ep' = e /\ left' = data /\ body' = next
            /\ UNCHANGED <<n, sendZlp, release, refused>>
       ELSE /\ refused' = [refused EXCEPT ![e] = TRUE]
            /\ UNCHANGED call
    /\ UNCHANGED <<conf, open, uenum, hardware>>

\* Serial_::write() sends only when the host has the port open.
SerialWrite == open /\ \E d \in CdcTexts : StartSend("cdc", d, <<>>)

SendMidi == \E d \in MidiEvents : StartSend("midi", d, <<>>)

\* HID_::SendReport(): the identifier first, then the body.
SendReport == \E d \in ReportBodies : StartSend("hid", <<ReportId>>, d)

\* Mutant of SendSpace: a full endpoint is tried again.
SendSpaceAgain ==
    /\ pc = "space"
    /\ uenum' = ep
    /\ IF Allowed(ep)
       THEN /\ pc' = "lock" /\ n' = Min({EpSize - Len(bank[ep]), Len(left)})
            /\ UNCHANGED <<ep, left, sendZlp, release, body, refused>>
       ELSE UNCHANGED <<call, refused>>
    /\ UNCHANGED <<conf, open, hardware>>

\* USB_SendSpace(), under its own lock: without space, USB_Send() fails.
SendSpace ==
    /\ pc = "space"
    /\ uenum' = ep
    /\ IF Allowed(ep)
       THEN /\ pc' = "lock" /\ n' = Min({EpSize - Len(bank[ep]), Len(left)})
            /\ UNCHANGED <<ep, left, sendZlp, release, body, refused>>
       ELSE Return(TRUE)
    /\ UNCHANGED <<conf, open, hardware>>

\* LockEP: interrupts off, then the endpoint is selected.
Lock ==
    /\ pc = "lock"
    /\ uenum' = ep /\ pc' = "fill"
    /\ UNCHANGED <<conf, open, ep, left, n, sendZlp, release, body, hardware, refused>>

\* Mutant of InLock: LockEP leaves interrupts on.
InLockNever == FALSE

InLock == pc = "fill"

\* while (len || sendZlp) and what follows the loop: SendReport() goes on with
\* the body of its report.
Continue(rest, zlp) ==
    IF rest # <<>> \/ zlp
    THEN /\ pc' = "space" /\ left' = rest /\ sendZlp' = zlp /\ n' = 0
         /\ UNCHANGED <<ep, release, body, refused>>
    ELSE IF body # <<>> /\ conf
         THEN /\ pc' = "space" /\ left' = body /\ sendZlp' = FALSE /\ n' = 0
              /\ release' = TRUE /\ body' = <<>>
              /\ UNCHANGED <<ep, refused>>
         ELSE Return(body # <<>>)

\* Mutant of Releases: TRANSFER_RELEASE is ignored.
ReleasesNotForced(fills, last) == sendZlp \/ fills

\* Whether this round releases the bank, and whether a zero-length packet has
\* to follow: after the last byte filled it.
Releases(fills, last) == sendZlp \/ fills \/ (last /\ release)

\* Mutant of NeedsZlp: no zero-length packet follows a full one.
NeedsZlpNever(fills, last) == FALSE

NeedsZlp(fills, last) == ~sendZlp /\ fills /\ last

\* What Send8() and ReleaseTX() do to the endpoint that is selected: bytes it
\* has no room for are lost.
WriteBank(releasing) ==
    LET more == SubSeq(left, 1, n) IN
    IF ~Allowed(uenum)
    THEN UNCHANGED <<bank, queue, full>>
    ELSE IF releasing
         THEN Release(uenum, more)
         ELSE /\ bank' = [bank EXCEPT ![uenum] = @ \o more]
              /\ UNCHANGED <<queue, full>>

\* "Frame may have been released by the SOF interrupt handler".
StillAllowed == Allowed(uenum)

\* The rest of the locked block: if the frame is gone, the loop starts over;
\* otherwise n bytes are written and a full bank is released.
Fill ==
    /\ pc = "fill"
    /\ IF StillAllowed
       THEN LET fills == Len(bank[uenum]) + n >= EpSize
                last == n = Len(left) IN
            /\ WriteBank(Releases(fills, last))
            /\ pending' = [pending EXCEPT ![ep] = @ \o SubSeq(left, 1, n)]
            /\ Continue(SubSeq(left, n + 1, Len(left)), NeedsZlp(fills, last))
       ELSE /\ pc' = "space"
            /\ UNCHANGED <<ep, left, n, sendZlp, release, body, bank, queue, pending,
                           full, refused>>
    /\ UNCHANGED <<conf, open, enabled, eorst, uenum>>

-----------------------------------------------------------------------------
\* USB_Flush(): no lock.  Serial.flush() and MidiUSB.flush() call it.
StartFlush ==
    /\ pc = "idle"
    /\ uenum' \in {"cdc", "midi"}
    /\ pc' = "count"
    /\ UNCHANGED <<conf, open, ep, left, n, sendZlp, release, body, hardware, refused>>

FlushCount ==
    /\ pc = "count"
    /\ pc' = IF uenum \in Ins /\ ByteCount(uenum) # 0 THEN "release" ELSE "idle"
    /\ UNCHANGED <<conf, open, uenum, ep, left, n, sendZlp, release, body, hardware,
                   refused>>

FlushRelease ==
    /\ pc = "release"
    /\ Release(uenum, <<>>)
    /\ pc' = "idle"
    /\ UNCHANGED <<conf, open, enabled, eorst, uenum, ep, left, n, sendZlp, release,
                   body, pending, refused>>

Sketch ==
    \/ SerialWrite \/ SendMidi \/ SendReport
    \/ SendSpace \/ Lock \/ Fill
    \/ StartFlush \/ FlushCount \/ FlushRelease

-----------------------------------------------------------------------------
\* Mutant of StartOfFrame: it flushes nothing.
StartOfFrameOnly ==
    /\ ~InLock /\ enabled
    /\ uenum' = "cdc"
    /\ UNCHANGED <<conf, open, hardware, call, refused>>

\* USB_GEN_vect, start of frame: flushes the serial endpoint.  UENUM stays.
StartOfFrame ==
    /\ ~InLock /\ enabled
    /\ uenum' = "cdc"
    /\ IF ByteCount("cdc") # 0
       THEN Release("cdc", <<>>)
       ELSE UNCHANGED <<bank, queue, full>>
    /\ UNCHANGED <<conf, open, enabled, eorst, pending, call, refused>>

\* USB_GEN_vect, end of reset: endpoint 0 only.
EndOfReset ==
    /\ ~InLock /\ eorst
    /\ eorst' = FALSE /\ conf' = FALSE /\ uenum' = "ep0"
    /\ UNCHANGED <<open, enabled, bank, queue, pending, full, call, refused>>

\* USB_COM_vect, SET_CONFIGURATION: InitEndpoints() resets every endpoint and
\* leaves the last one selected.
SetConfiguration ==
    /\ pc = "idle" /\ ~eorst
    /\ enabled' = TRUE /\ conf' = TRUE /\ uenum' = "hid"
    /\ bank' = Nothing /\ queue' = Nothing
    /\ pending' = Nothing /\ full' = [e \in Ins |-> FALSE]
    /\ UNCHANGED <<open, eorst, call, refused>>

\* USB_COM_vect, SET_CONTROL_LINE_STATE and the requests that only answer.
ControlRequest ==
    /\ ~InLock /\ ~eorst
    /\ uenum' = "ep0" /\ open' \in BOOLEAN
    /\ UNCHANGED <<conf, hardware, call, refused>>

\* The host takes a packet.
HostTakes(e) ==
    /\ queue[e] # <<>>
    /\ queue' = [queue EXCEPT ![e] = Tail(@)]
    /\ pending' = [pending EXCEPT ![e] = SubSeq(@, Len(Head(queue[e])) + 1, Len(@))]
    /\ UNCHANGED <<conf, open, enabled, eorst, uenum, bank, full, call, refused>>

\* The host resets the bus: every endpoint but 0 is off until it is configured.
BusReset ==
    /\ enabled' = FALSE /\ eorst' = TRUE
    /\ bank' = Nothing /\ queue' = Nothing
    /\ pending' = Nothing /\ full' = [e \in Ins |-> FALSE]
    /\ UNCHANGED <<conf, open, uenum, call, refused>>

Next ==
    \/ Sketch
    \/ StartOfFrame \/ EndOfReset \/ SetConfiguration \/ ControlRequest
    \/ \E e \in Ins : HostTakes(e)
    \/ BusReset

Spec == UsbInit /\ [][Next]_vars

\* The processor does not stop, and neither does the bus while it is up: an
\* interrupt that waits for a lock is taken when the lock is given back.
Fairness ==
    /\ WF_vars(SendSpace \/ Lock \/ Fill \/ FlushCount \/ FlushRelease)
    /\ SF_vars(StartOfFrame) /\ SF_vars(EndOfReset)

FairSpec == Spec /\ Fairness

-----------------------------------------------------------------------------
\* Every byte USB_Send() wrote is, in order, in a packet that waits for the
\* host or in the bank of its own endpoint, whatever the handlers select.
StreamsKeptApart ==
    \A e \in Ins : FlattenSeq(queue[e]) \o bank[e] = pending[e]

\* A transfer that was not refused never leaves the host waiting for more: once
\* the bank is empty, the last packet released is a short one.
TransfersEnd ==
    \A e \in Ins :
        (pc = "idle" /\ ~refused[e] /\ bank[e] = <<>>) => ~full[e]

\* A HID report goes out whole or is refused, and the endpoint keeps at most
\* as many as it has banks: SendReport() implements ReportPipe.
HidPipe == INSTANCE ReportPipe
          WITH Report <- {Whole(b) : b \in ReportBodies},
               Depth <- Banks["hid"],
               pipe <- queue["hid"]
ImplementsReportPipe == HidPipe!PipeSpec

\* A call returns, however little the host reads.
SendReturns == pc # "idle" ~> pc = "idle"

\* What a write leaves in a serial bank is released by a start of frame.
NothingRests ==
    (bank["cdc"] # <<>> /\ queue["cdc"] = <<>>)
        ~> (bank["cdc"] = <<>> \/ queue["cdc"] # <<>>)
=============================================================================
