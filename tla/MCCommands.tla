----------------------------- MODULE MCCommands -----------------------------
(* Two devices with a valve, so that commands overlap on one and not on the    *)
(* other, or on both.                                                          *)
EXTENDS CommandHistoryPage, TLC

CONSTANTS d1, d2

MCDevices == {d1, d2}

\* Devices with a valve are interchangeable.
DeviceSymmetry == Permutations(MCDevices)
=============================================================================
