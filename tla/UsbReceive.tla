----------------------------- MODULE UsbReceive -----------------------------
(***************************************************************************)
(* Receiving over USB: the OUT endpoints of CDC and MIDI, which hold       *)
(* packets in two banks; USB_Recv() and USB_Available() (USBCore.cpp);     *)
(* Serial_::read() and peek() (CDC.cpp); MIDI_::accept() and read()        *)
(* (MIDIUSB.cpp).  The USB handlers run between any two steps of the       *)
(* sketch that LockEP does not protect, and select another endpoint; a     *)
(* reset of the bus strikes between any two, LockEP or not, and empties    *)
(* the endpoints.                                                          *)
(*                                                                         *)
(* A unit is what one USB_Recv() takes: a byte from CDC, an event of four  *)
(* bytes from MIDI.  The host sends whole events, and no empty packets:    *)
(* USB_Recv() never releases the bank of one.  A unit is taken in one      *)
(* step: a reset among the four bytes of an event is not modelled.         *)
(***************************************************************************)
EXTENDS Naturals, Sequences

CONSTANTS
    None,        \* -1, or an event of zeros
    Banks,       \* packets an endpoint holds: EP_DOUBLE_64
    PacketSize,  \* units in a packet, at most
    RingSize,    \* MIDI_BUFFER_SIZE
    MaxUnits     \* bound: units the host sends to each endpoint

ASSUME ReceiveAssumption ==
    /\ None \notin Nat
    /\ Banks \in Nat \ {0} /\ PacketSize \in Nat \ {0} /\ MaxUnits \in [{"CDC", "MIDI"} -> Nat]
    /\ RingSize \in Nat /\ RingSize >= 2

VARIABLES
    bank,        \* bank[ep]: the packets in the endpoint, read from the first
    uenum,       \* UENUM; "other" for endpoints that are not modelled
    cli,         \* inside LockEP
    configured,  \* _usbConfiguration
    peek_buffer,
    midiEvent, head, tail,   \* midi_rx_buffer
    pc,          \* the statement the sketch executes next
    call,        \* the function called: "cdc_read", "cdc_peek" or "midi_read"
    value,       \* what it is about to return
    sent,        \* sent[ep]: how many units the host has sent; they are numbered
    due,         \* due[ep]: the units that arrived and are to be read
    struck,      \* a reset of the bus has struck the call under way
    stale,       \* what read() loaded is no event of the ring, which was empty
    promised     \* promised[ep]: available() has said there is something

usbVars == <<bank, uenum, cli, configured>>
ringVars == <<midiEvent, head, tail>>
seenVars == <<sent, due, struck, stale>>
recvVars == <<bank, uenum, cli, configured, peek_buffer, midiEvent, head, tail,
              pc, call, value, sent, due, struck, stale, promised>>

Endpoints == {"CDC", "MIDI"}
Slots == 0 .. RingSize - 1

RecvInit ==
    /\ bank = [ep \in Endpoints |-> <<>>]
    /\ uenum = "other" /\ cli = FALSE /\ configured = FALSE
    /\ peek_buffer = None
    /\ midiEvent = [s \in Slots |-> None] /\ head = 0 /\ tail = 0
    /\ pc = "idle" /\ call = "cdc_read" /\ value = None
    /\ sent = [ep \in Endpoints |-> 0]
    /\ due = [ep \in Endpoints |-> <<>>] /\ struck = FALSE /\ stale = FALSE
    /\ promised = [ep \in Endpoints |-> FALSE]

-----------------------------------------------------------------------------
\* The host and the handlers.

\* A packet goes into a free bank; without one the host is refused and repeats.
HostSends(ep) ==
    /\ configured /\ Len(bank[ep]) < Banks
    /\ \E n \in 1 .. PacketSize :
          /\ sent[ep] + n <= MaxUnits[ep]
          /\ LET packet == [k \in 1 .. n |-> sent[ep] + k]
             IN  /\ bank' = [bank EXCEPT ![ep] = Append(@, packet)]
                 /\ due' = [due EXCEPT ![ep] = @ \o packet]
          /\ sent' = [sent EXCEPT ![ep] = @ + n]
    /\ UNCHANGED <<uenum, cli, configured, peek_buffer, ringVars, pc, call, value,
                   struck, stale, promised>>

\* Start of frame, control transfers: another endpoint is selected.
Handler ==
    /\ ~cli
    /\ uenum' = "other"
    /\ UNCHANGED <<bank, cli, configured, peek_buffer, ringVars, pc, call, value,
                   seenVars, promised>>

\* The events in the MIDI ring.
Ring == [k \in 1 .. (RingSize + head - tail) % RingSize |->
            midiEvent[(tail + k - 1) % RingSize]]

\* What the board has taken out of the endpoints already: what is stored, and what
\* the call under way has in hand.
OfMidi == call = "midi_read"
Taking == pc \in {"release", "received"} /\ value # None
Returning == pc = "return" /\ value # None /\ ~stale
HeldMidi == IF OfMidi /\ Returning THEN <<value>> \o Ring
            ELSE IF OfMidi /\ Taking THEN Append(Ring, value)
            ELSE Ring
HeldCdc == IF peek_buffer # None THEN <<peek_buffer>>
           ELSE IF ~OfMidi /\ (Returning \/ Taking) THEN <<value>>
           ELSE <<>>

\* Only what has been taken out is still to be read.
Emptied ==
    /\ bank' = [ep \in Endpoints |-> <<>>]
    /\ due' = [ep \in Endpoints |-> IF ep = "MIDI" THEN HeldMidi ELSE HeldCdc]
    /\ promised' = [ep \in Endpoints |-> FALSE]
    /\ struck' = (pc # "idle")
    /\ UNCHANGED <<cli, peek_buffer, ringVars, pc, call, value, sent, stale>>

\* A reset of the bus empties the endpoints, whatever the sketch is doing.
BusReset == Emptied /\ UNCHANGED <<uenum, configured>>

\* The handlers of its end, and of SET_CONFIGURATION, which empties them as well.
Reconfigure ==
    /\ ~cli
    /\ Emptied
    /\ configured' \in BOOLEAN
    /\ uenum' = "other"

-----------------------------------------------------------------------------
\* USB_Recv() and USB_Available().

FifoByteCount == IF uenum = "other" \/ bank[uenum] = <<>> THEN 0
                 ELSE Len(Head(bank[uenum]))

SetEP(ep) == uenum' = ep /\ cli' = TRUE

\* Mutant of RecvLock: the endpoint is selected with interrupts on.
RecvLockWithoutCli ==
    /\ pc = "recv"
    /\ IF configured
       THEN uenum' = (IF call = "midi_read" THEN "MIDI" ELSE "CDC") /\ pc' = "take"
       ELSE pc' = "received" /\ UNCHANGED uenum
    /\ value' = None
    /\ UNCHANGED <<bank, cli, configured, peek_buffer, ringVars, call, seenVars,
                   promised>>

\* _usbConfiguration, then LockEP.
RecvLock ==
    /\ pc = "recv"
    /\ IF configured
       THEN SetEP(IF call = "midi_read" THEN "MIDI" ELSE "CDC") /\ pc' = "take"
       ELSE pc' = "received" /\ UNCHANGED <<uenum, cli>>
    /\ value' = None
    /\ UNCHANGED <<bank, configured, peek_buffer, ringVars, call, seenVars, promised>>

RecvTake ==
    /\ pc = "take"
    /\ IF FifoByteCount = 0
       THEN value' = None /\ UNCHANGED bank
       ELSE /\ value' = Head(Head(bank[uenum]))
            /\ bank' = [bank EXCEPT ![uenum] = <<Tail(Head(@))>> \o Tail(@)]
    /\ pc' = "release"
    /\ UNCHANGED <<uenum, cli, configured, peek_buffer, ringVars, call, seenVars,
                   promised>>

\* Mutant of RecvRelease: the bank is never released.
RecvReleaseNever ==
    /\ pc = "release"
    /\ cli' = FALSE
    /\ pc' = "received"
    /\ UNCHANGED <<bank, uenum, configured, peek_buffer, ringVars, call, value,
                   seenVars, promised>>

\* ReleaseRX() once the bank is empty, and the end of LockEP.  After a reset, and on
\* another endpoint, there is no bank to release.
RecvRelease ==
    /\ pc = "release"
    /\ bank' = IF /\ value # None /\ FifoByteCount = 0
                  /\ uenum # "other" /\ bank[uenum] # <<>>
               THEN [bank EXCEPT ![uenum] = Tail(@)] ELSE bank
    /\ cli' = FALSE
    /\ pc' = "received"
    /\ UNCHANGED <<uenum, configured, peek_buffer, ringVars, call, value, seenVars,
                   promised>>

\* USB_Available(), under LockEP from its first step to its last.
Available(ep) == IF bank[ep] = <<>> THEN 0 ELSE Len(Head(bank[ep]))

-----------------------------------------------------------------------------
\* Serial_

\* available()
CdcAvailable ==
    /\ pc = "idle"
    /\ promised' = [promised EXCEPT !["CDC"] = peek_buffer # None \/ Available("CDC") > 0]
    /\ uenum' = "CDC"
    /\ UNCHANGED <<bank, cli, configured, peek_buffer, ringVars, pc, call, value, seenVars>>

CdcRead ==
    /\ pc = "idle"
    /\ call' = "cdc_read"
    /\ IF peek_buffer = None
       THEN pc' = "recv" /\ UNCHANGED value
       ELSE pc' = "return" /\ value' = peek_buffer
    /\ peek_buffer' = None
    /\ UNCHANGED <<usbVars, ringVars, seenVars, promised>>

CdcPeek ==
    /\ pc = "idle"
    /\ call' = "cdc_peek"
    /\ IF peek_buffer = None
       THEN pc' = "recv" /\ UNCHANGED value
       ELSE pc' = "return" /\ value' = peek_buffer
    /\ UNCHANGED <<usbVars, peek_buffer, ringVars, seenVars, promised>>

CdcReceived ==
    /\ pc = "received" /\ call # "midi_read"
    /\ peek_buffer' = IF call = "cdc_peek" THEN value ELSE peek_buffer
    /\ pc' = "return"
    /\ UNCHANGED <<usbVars, ringVars, call, value, seenVars, promised>>

\* begin() forgets the byte peek() took.
CdcBegin ==
    /\ pc = "idle"
    /\ peek_buffer' = None
    /\ due' = IF peek_buffer = None THEN due
              ELSE [due EXCEPT !["CDC"] = SubSeq(@, 2, Len(@))]
    /\ promised' = [promised EXCEPT !["CDC"] = FALSE]
    /\ UNCHANGED <<usbVars, ringVars, pc, call, value, sent, struck, stale>>

-----------------------------------------------------------------------------
\* MIDI_

MidiAvailable ==
    /\ pc = "idle"
    /\ promised' = [promised EXCEPT !["MIDI"] = (RingSize + head - tail) % RingSize > 0]
    /\ UNCHANGED <<usbVars, peek_buffer, ringVars, pc, call, value, seenVars>>

\* read(): the ring first; then what the endpoint has, through accept().
MidiRead ==
    /\ pc = "idle"
    /\ call' = "midi_read"
    /\ \/ (RingSize + head - tail) % RingSize > 0 /\ pc' = "load" /\ UNCHANGED uenum
       \/ /\ (RingSize + head - tail) % RingSize = 0
          /\ uenum' = "MIDI"
          /\ pc' = IF Available("MIDI") > 0 THEN "accept" ELSE "midi_return"
    /\ value' = None
    /\ UNCHANGED <<bank, cli, configured, peek_buffer, ringVars, seenVars, promised>>

\* Mutant of Accept: a full ring is filled further.
AcceptIntoFull ==
    /\ pc = "accept"
    /\ pc' = "recv"
    /\ UNCHANGED <<usbVars, peek_buffer, ringVars, call, value, seenVars, promised>>

\* accept(): one round of its loop.
Accept ==
    /\ pc = "accept"
    /\ pc' = IF (head + 1) % RingSize # tail THEN "recv" ELSE "load"
    /\ UNCHANGED <<usbVars, peek_buffer, ringVars, call, value, seenVars, promised>>

AcceptStore ==
    /\ pc = "received" /\ call = "midi_read"
    /\ IF value = None
       THEN pc' = "load" /\ UNCHANGED ringVars
       ELSE /\ midiEvent' = [midiEvent EXCEPT ![head] = value]
            /\ head' = (head + 1) % RingSize
            /\ pc' = "accept"
            /\ UNCHANGED tail
    /\ UNCHANGED <<usbVars, peek_buffer, call, value, seenVars, promised>>

\* Whatever the slot holds, also when accept() found nothing.
MidiLoad ==
    /\ pc = "load"
    /\ value' = midiEvent[tail]
    /\ stale' = (head = tail)
    /\ pc' = "midi_return"
    /\ UNCHANGED <<usbVars, peek_buffer, ringVars, call, sent, due, struck, promised>>

MidiReturn ==
    /\ pc = "midi_return"
    /\ tail' = IF head # tail THEN (tail + 1) % RingSize ELSE tail
    /\ pc' = "return"
    /\ UNCHANGED <<usbVars, peek_buffer, midiEvent, head, call, value, seenVars,
                   promised>>

-----------------------------------------------------------------------------
From == IF call = "midi_read" THEN "MIDI" ELSE "CDC"

\* The call is over: what it read is no longer due.
Return ==
    /\ pc = "return"
    /\ pc' = "idle"
    /\ due' = IF value = None \/ stale \/ call = "cdc_peek" THEN due
              ELSE [due EXCEPT ![From] = SubSeq(@, 2, Len(@))]
    /\ promised' = IF call = "cdc_peek" THEN promised
                   ELSE [promised EXCEPT ![From] = FALSE]
    /\ value' = None
    /\ struck' = FALSE /\ stale' = FALSE
    /\ UNCHANGED <<usbVars, peek_buffer, ringVars, call, sent>>

Proceed ==
    \/ RecvLock \/ RecvTake \/ RecvRelease
    \/ CdcReceived
    \/ Accept \/ AcceptStore \/ MidiLoad \/ MidiReturn
    \/ Return

RecvNext ==
    \/ \E ep \in Endpoints : HostSends(ep)
    \/ Handler \/ BusReset \/ Reconfigure
    \/ CdcAvailable \/ CdcRead \/ CdcPeek \/ CdcBegin
    \/ MidiAvailable \/ MidiRead
    \/ Proceed

RecvSpec == RecvInit /\ [][RecvNext]_recvVars

\* The sketch goes on, and comes back to both reads again and again.
RecvFairness ==
    /\ WF_recvVars(Proceed)
    /\ SF_recvVars(CdcRead) /\ SF_recvVars(MidiRead)

FairRecvSpec == RecvSpec /\ RecvFairness

-----------------------------------------------------------------------------
\* read() and peek() return what the host sent to their own interface, in order,
\* each unit once, and lose nothing but what a reset of the bus emptied or begin()
\* forgot.  Only a MidiUSB.read() that a reset struck, and that found its ring
\* empty, returns something else.
ReceivedInOrder ==
    pc = "return" /\ value # None =>
        \/ due[From] # <<>> /\ value = Head(due[From])
        \/ OfMidi /\ struck /\ stale

\* What read() of MidiUSB says of itself: "if the head isn't ahead of the tail, we
\* don't have any characters".  It does not hold: after a reset between
\* USB_Available() and USB_Recv() the ring is empty and the slot is returned.
NoHeadNoEvent ==
    pc = "midi_return" /\ head = tail => value = None

\* Once available() said there is something to read, the next read() returns
\* something.
AvailableIsKept ==
    pc = "return" /\ value = None => ~promised[From]

\* All that arrives is read at last, or emptied by a reset of the bus.
EverythingIsRead ==
    \A ep \in Endpoints : \A n \in 1 .. MaxUnits[ep] :
        (due[ep] # <<>> /\ Head(due[ep]) = n) ~> (due[ep] = <<>> \/ Head(due[ep]) # n)
=============================================================================
