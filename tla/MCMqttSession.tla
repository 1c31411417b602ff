---------------------------- MODULE MCMqttSession ----------------------------
\* Two devices, so that one message can wait while the other is handled, and
\* faults enough for a restart or a lost connection while another is mended.
EXTENDS MqttSession

CONSTANTS d1, d2

MCDevices == {d1, d2}
=============================================================================
