------------------------- MODULE MCBootloaderUpload -------------------------
(***************************************************************************)
(* An image of two pages of four bytes, all different.                     *)
(***************************************************************************)
EXTENDS BootloaderUpload

MCImage == [k \in 0 .. 7 |-> k]
MCByte == (0 .. 7) \cup {100, 255}
=============================================================================
