---------------------------- MODULE MCPinHandlers ----------------------------
EXTENDS PinHandlers
MCServoPin == [s \in {0, 1} |-> IF s = 0 THEN "s0" ELSE "s1"]
MCLengths == {-1, 2}
=============================================================================
