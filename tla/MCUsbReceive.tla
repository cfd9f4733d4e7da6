---------------------------- MODULE MCUsbReceive ----------------------------
(* Bounds for checking UsbReceive: enough events to fill the ring of three *)
(* slots, wrap around it and overfill it; bytes for one packet or two.     *)
EXTENDS UsbReceive

MCMaxUnits == [ep \in Endpoints |-> IF ep = "MIDI" THEN 4 ELSE 2]
=============================================================================
