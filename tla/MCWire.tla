------------------------------- MODULE MCWire -------------------------------
EXTENDS Wire
CONSTANTS b0, b1

TwoBytes == {b0, b1}
OneByte == {b0}
MCRegisters == {<<>>, <<b0, b1, b1>>}
NoRegister == {<<>>}
MCReplies == {<<b0>>}
NoReplies == {}
=============================================================================
