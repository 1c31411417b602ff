-------------------------- MODULE MCDeviceRegistry --------------------------
\* One device, the unit of contention, and three threads: the telemetry consumer
\* and the command and registration requests.
EXTENDS DeviceRegistry

CONSTANTS d1, t1, t2, t3, o1

MCDevices == {d1}
MCThreads == {t1, t2, t3}
MCOverrides == {o1}
=============================================================================
