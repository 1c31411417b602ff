----------------------------- MODULE MCBatching -----------------------------
(* Two devices; time stamps 0 and 1 are within one window, as are 1 and 2,     *)
(* while 0 and 2 are not.  The ring and the timeline overflow at the third     *)
(* batch or time stamp.                                                        *)
EXTENDS Batching, TLC

CONSTANTS d1, d2

MCDevices == {d1, d2}

\* Devices are interchangeable.
DeviceSymmetry == Permutations(MCDevices)
=============================================================================
