------------------------------ MODULE Keyboard ------------------------------
(***************************************************************************)
(* The Keyboard library: a key report that press(), release() and          *)
(* releaseAll() change and send, over the report pipe HID gives it.  The   *)
(* host knows only the last report it took.                                *)
(*                                                                         *)
(* A character that is not in the ASCII map changes nothing and is left    *)
(* out.                                                                    *)
(***************************************************************************)
EXTENDS Naturals, Sequences, SequencesExt

CONSTANTS Slots,      \* keys in a report: six
          Scan,       \* scan codes, none of them 0
          Modifiers,  \* the modifier keys
          Shift,      \* KEY_LEFT_SHIFT, what a capital letter adds
          Depth       \* reports the endpoint keeps for the host

ASSUME KbSizesAssumption == Slots \in Nat \ {0} /\ Depth \in Nat \ {0}
ASSUME KbKeysAssumption == Scan \subseteq Nat \ {0} /\ Shift \in Modifiers

\* What a caller may press: a modifier, or a key with its shift state.
Keys == [scan : {0}, mods : {{m} : m \in Modifiers}]
          \cup [scan : Scan, mods : {{}, {Shift}}]

KeyReport == [keys : [1 .. Slots -> Scan \cup {0}], mods : SUBSET Modifiers]
NoKeys == [keys |-> [i \in 1 .. Slots |-> 0], mods |-> {}]

VARIABLES
    report,  \* _keyReport
    writing, \* <<k>> while write(k) has still to release k, else <<>>
    up,      \* the device is configured
    pipe,    \* reports that wait for the host
    host,    \* the last report the host took
    sent     \* the last change of the report was sent (history)

kbVars == <<report, writing, up, pipe, host, sent>>

Pipe == INSTANCE ReportPipe WITH Report <- KeyReport

KbInit ==
    /\ report = NoKeys /\ host = NoKeys /\ Pipe!PipeInit
    /\ writing = <<>> /\ up = FALSE /\ sent = TRUE

\* sendReport(): nobody looks at what SendReport() returns.
SendKeys(r) ==
    /\ report' = r
    /\ IF up /\ Pipe!HasRoom
       THEN Pipe!Put(r) /\ sent' = TRUE
       ELSE UNCHANGED pipe /\ sent' = FALSE

Free == {i \in 1 .. Slots : report.keys[i] = 0}

Present(scan) == \E i \in 1 .. Slots : report.keys[i] = scan

\* press(): the key takes the first free slot.  With no slot left it fails
\* after the modifiers have changed, and sends nothing.
DoPress(k) ==
    LET mods == report.mods \cup k.mods IN
    IF Present(k.scan)
    THEN SendKeys([keys |-> report.keys, mods |-> mods])
    ELSE IF Free # {}
         THEN SendKeys([keys |-> [report.keys EXCEPT ![Min(Free)] = k.scan],
                        mods |-> mods])
         ELSE /\ report' = [keys |-> report.keys, mods |-> mods]
              /\ sent' = FALSE
              /\ UNCHANGED pipe

\* Mutant of DoRelease: a key that is not pressed is not sent.
DoReleaseQuiet(k) ==
    LET r == [keys |-> [i \in 1 .. Slots |->
                          IF report.keys[i] = k.scan THEN 0 ELSE report.keys[i]],
              mods |-> report.mods \ k.mods] IN
    IF r.keys = report.keys
    THEN report' = r /\ UNCHANGED <<pipe, sent>>
    ELSE SendKeys(r)

\* release(): the key leaves every slot, its modifier leaves too.
DoRelease(k) ==
    SendKeys([keys |-> [i \in 1 .. Slots |->
                          IF report.keys[i] = k.scan THEN 0 ELSE report.keys[i]],
              mods |-> report.mods \ k.mods])

PressKey ==
    /\ writing = <<>>
    /\ \E k \in Keys : DoPress(k)
    /\ UNCHANGED <<writing, up, host>>

ReleaseKey ==
    /\ writing = <<>>
    /\ \E k \in Keys : DoRelease(k)
    /\ UNCHANGED <<writing, up, host>>

ReleaseAll ==
    /\ writing = <<>>
    /\ SendKeys(NoKeys)
    /\ UNCHANGED <<writing, up, host>>

\* write(): press(), then release() whatever press() said.
WriteDown ==
    /\ writing = <<>>
    /\ \E k \in Keys : writing' = <<k>> /\ DoPress(k)
    /\ UNCHANGED <<up, host>>

WriteUp ==
    /\ writing # <<>> /\ writing' = <<>>
    /\ DoRelease(writing[1])
    /\ UNCHANGED <<up, host>>

\* The host polls the endpoint.
HostPolls ==
    /\ Pipe!Take
    /\ host' = Head(pipe)
    /\ UNCHANGED <<report, writing, up, sent>>

\* A bus reset: what waits is lost and the host forgets the keyboard.
KbReset ==
    /\ up
    /\ up' = FALSE /\ pipe' = <<>> /\ host' = NoKeys /\ sent' = FALSE
    /\ UNCHANGED <<report, writing>>

Configure ==
    /\ ~up /\ up' = TRUE
    /\ UNCHANGED <<report, writing, pipe, host, sent>>

KbNext == \/ PressKey \/ ReleaseKey \/ ReleaseAll \/ WriteDown \/ WriteUp
          \/ HostPolls \/ KbReset \/ Configure

KbSpec == KbInit /\ [][KbNext]_kbVars

-----------------------------------------------------------------------------
\* If the last change went out, the host ends up with exactly the report the
\* sketch has.
HostFollows ==
    sent => report = (IF pipe = <<>> THEN host ELSE Last(pipe))
=============================================================================
