--------------------------- MODULE MCProvisioning ---------------------------
\* Two requests and the provisioning handler compete for one or two devices;
\* two places tell whose data was kept.
EXTENDS Provisioning, TLC

CONSTANTS d1, d2, p1, p2, r1, r2

MCDevices == {d1, d2}
MCPlaces == {p1, p2}
MCRequests == {r1, r2}

\* Devices, places and requests are interchangeable.
Interchangeable ==
    Permutations(MCDevices) \cup Permutations(MCPlaces) \cup Permutations(MCRequests)
=============================================================================
