------------------------- MODULE MCHardwareSerialRx -------------------------
(***************************************************************************)
(* HardwareSerialRx on a small instance.  Bytes are only moved.            *)
(***************************************************************************)
EXTENDS HardwareSerialRx, TLC

ByteSymmetry == Permutations(Byte)
=============================================================================
