---------------------------- MODULE ByteChannel ----------------------------
(***************************************************************************)
(* What a serial driver promises to its caller: an ordered channel.  Bytes *)
(* the caller handed over come out once each, in order, and at most        *)
(* Capacity of them are between the two ends.                              *)
(***************************************************************************)
EXTENDS Naturals, Sequences

CONSTANTS Byte,      \* the values a byte takes
          Capacity   \* how many accepted bytes may be undelivered

VARIABLES accepted,  \* every byte taken from the caller, in order
          delivered  \* every byte that came out, in order

channelVars == <<accepted, delivered>>

ChannelInit == accepted = <<>> /\ delivered = <<>>

\* The caller hands over one more byte.
Accept ==
    /\ Len(accepted) - Len(delivered) < Capacity
    /\ \E c \in Byte : accepted' = Append(accepted, c)
    /\ UNCHANGED delivered

\* The oldest byte that is still inside comes out.
Deliver ==
    /\ Len(delivered) < Len(accepted)
    /\ delivered' = Append(delivered, accepted[Len(delivered) + 1])
    /\ UNCHANGED accepted

ChannelNext == Accept \/ Deliver

ChannelSpec == ChannelInit /\ [][ChannelNext]_channelVars
=============================================================================
