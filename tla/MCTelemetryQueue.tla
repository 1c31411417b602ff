-------------------------- MODULE MCTelemetryQueue --------------------------
\* Two producers, so that the permits of two Enqueue calls can be released in
\* either order, and two critical severities besides the normal one.
EXTENDS TelemetryQueue

CONSTANTS p1, p2

MCProducers == {p1, p2}
MCSeverities == 0 .. 2
=============================================================================
