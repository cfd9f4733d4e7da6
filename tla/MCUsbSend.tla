----------------------------- MODULE MCUsbSend -----------------------------
(* Values for checking UsbSend: banks of three bytes; writes of two bytes,    *)
(* of which the second does not fit in the bank the first has begun; a MIDI   *)
(* event of one byte; reports of two, the identifier and one byte.            *)
EXTENDS UsbSend

MCCdcTexts == {<<1, 2>>}
MCBanks == [e \in Ins |-> IF e = "midi" THEN 1 ELSE 2]
MCMidiEvents == {<<1>>}
MCReportBodies == {<<1>>}
=============================================================================
