--------------------------- MODULE MCDeviceLogin ---------------------------
(* DeviceLogin with small units: the server asks for an interval below,    *)
(* inside or above the limits, and for a lifetime below, inside or above   *)
(* its own.                                                                *)
EXTENDS DeviceLogin

MCIntervals == {0, 1, 9}
MCLifetimes == {0, 5, 20}
MCHints == {0, 2}
=============================================================================
