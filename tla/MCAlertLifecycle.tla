-------------------------- MODULE MCAlertLifecycle --------------------------
\* One device with two metrics, so that one reading can raise one alert and clear
\* the other; a single metric is enough for the finding.
EXTENDS AlertLifecycle

CONSTANTS d1, m1, m2

OneDevice == {d1}
OneMetric == {m1}
TwoMetrics == {m1, m2}
=============================================================================
