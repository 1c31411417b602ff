---------------------------- MODULE ThresholdViews ----------------------------
(* Thresholds: what the server takes for a breach of one metric in one subzone *)
(* (backend/Settings/ThresholdSettings.cs, Services/Snapshots/SnapshotBuilder) *)
(* and what frontend/src marks as past the threshold (lib/format.js and the    *)
(* tables and charts that use it).  Values are small integers; a domain of an  *)
(* axis is in hundredths.  The average, and what is shown while the thresholds *)
(* are not loaded, are left out.                                               *)
EXTENDS Integers, Sequences, FiniteSetsExt

CONSTANTS Sensors,    \* devices that measure the metric
          Values,     \* the values they measure
          MaxReadings \* bound on the readings of a batch

\* Values are those of a float, which has a least and a greatest: the
\* accumulator starts with them.
ASSUME ThresholdsAssumption ==
    /\ Values \subseteq Int /\ MaxReadings \in Nat
    /\ \E least, greatest \in Values : \A v \in Values : least <= v /\ v <= greatest

VARIABLES threshold, \* MetricThreshold of the metric
          readings,  \* history: the packets of the batch that were added, in order
          summary,   \* the subzone's Accumulator
          breaches   \* its BreachingReading of each device, readings 0 for none

thresholdVars == <<threshold, readings, summary, breaches>>

NoBreach == [value |-> 0, readings |-> 0]

ThresholdTypeOK ==
    /\ threshold \in [normal : Values, critical : Values]
    /\ readings \in Seq([sensor : Sensors, value : Values]) /\ Len(readings) <= MaxReadings
    /\ summary.count \in Nat /\ summary.breaching \in Nat
    /\ breaches \in [Sensors -> [value : Values \cup {0}, readings : Nat]]

ThresholdInit ==
    /\ threshold \in [normal : Values, critical : Values]
    /\ readings = <<>>
    /\ summary = [count |-> 0, min |-> Max(Values), max |-> Min(Values), breaching |-> 0]
    /\ breaches = [s \in Sensors |-> NoBreach]
-----------------------------------------------------------------------------
(* The server.                                                                 *)

\* Severity is Excess over |Critical - Normal|: infinite where those are equal.
Excess(v) ==
    IF threshold.critical < threshold.normal THEN threshold.critical - v
                                             ELSE v - threshold.critical
IsBreach(v) == Excess(v) > 0
MoreSevere(v, w) ==
    /\ IsBreach(v)
    /\ \/ ~IsBreach(w)
       \/ threshold.critical # threshold.normal /\ Excess(v) > Excess(w)

\* Mutant: the last reading of a device is kept.
RecordBreach_Last(s, v) ==
    [breaches EXCEPT ![s] = [value |-> v, readings |-> @.readings + 1]]

\* The device's worst reading, and how many it has.
RecordBreach(s, v) ==
    [breaches EXCEPT ![s] =
        [value |-> IF @.readings = 0 \/ MoreSevere(v, @.value) THEN v ELSE @.value,
         readings |-> @.readings + 1]]

\* One packet in Build's loop.
AddReading(s, v) ==
    /\ Len(readings) < MaxReadings
    /\ readings' = Append(readings, [sensor |-> s, value |-> v])
    /\ summary' = [count |-> summary.count + 1,
                   min |-> Min({summary.min, v}), max |-> Max({summary.max, v}),
                   breaching |-> summary.breaching + (IF IsBreach(v) THEN 1 ELSE 0)]
    /\ breaches' = IF IsBreach(v) THEN RecordBreach(s, v) ELSE breaches
    /\ UNCHANGED threshold

ThresholdNext == \E s \in Sensors, v \in Values : AddReading(s, v)
-----------------------------------------------------------------------------
(* The client.                                                                 *)

LowIsBad == threshold.critical < threshold.normal

IsPastThreshold(v) == IF LowIsBad THEN v < threshold.critical ELSE v > threshold.critical

\* pickStat of the worst sensor, and what a subzone's card says.
WorstStat == IF LowIsBad THEN summary.min ELSE summary.max
SaysPast == summary.breaching > 0

\* The table's list of a subzone and the number in its last column.
Listed == {s \in Sensors : breaches[s].readings > 0}
PastCount == summary.breaching

\* A reading is red in the table of recent readings.
IsRed(v) == IsPastThreshold(v)

CriticalInView(values, critical) ==
    LET span == Max(values) - Min(values)
    IN  Min(values) - span <= critical /\ critical <= Max(values) + span

PaddedDomain(all, ratio) ==
    LET span == Max(all) - Min(all)
        pad == IF span = 0 THEN 100 ELSE span * ratio
    IN  [lo |-> 100 * Min(all) - pad, hi |-> 100 * Max(all) + pad]

\* The axis of the overview's chart, with the critical line where it is near.
OverviewDomain(values) ==
    PaddedDomain(IF CriticalInView(values, threshold.critical)
                 THEN values \cup {threshold.critical} ELSE values, 40)

\* A device's timeline: its axis, and the area that is shaded.
TimelineDomain(values) == PaddedDomain(values \cup {threshold.critical}, 15)
ShadedArea(values) ==
    LET domain == TimelineDomain(values)
    IN  IF LowIsBad THEN [lo |-> domain.lo, hi |-> 100 * threshold.critical]
                    ELSE [lo |-> 100 * threshold.critical, hi |-> domain.hi]

Within(v, area) == area.lo <= 100 * v /\ 100 * v <= area.hi
-----------------------------------------------------------------------------
(* Property.                                                                   *)

\* What the pages mark as past the threshold is what the server counted and
\* alerts about, for a metric that is bad when low as for one that is bad when
\* high: the worst sensor, the number and the list of a subzone, the red
\* readings and the shaded area of a device agree, the list has each device's
\* worst reading and their number, and every value is on its chart.  Where
\* Normal is Critical every breach is as severe and the list keeps the first.
\* Code: Severity, SnapshotBuilder, pickStat, isPastThreshold, paddedDomain.
PastIsMarkedAlike ==
    LET values == {readings[i].value : i \in DOMAIN readings}
        past == {i \in DOMAIN readings : IsPastThreshold(readings[i].value)}
    IN  readings # <<>> =>
            /\ SaysPast <=> IsPastThreshold(WorstStat)
            /\ PastCount = Cardinality(past)
            /\ \A s \in Sensors :
                   breaches[s].readings = Cardinality({i \in past : readings[i].sensor = s})
            /\ Listed = {readings[i].sensor : i \in past}
            /\ threshold.normal # threshold.critical =>
                   \A i \in past : ~MoreSevere(readings[i].value, breaches[readings[i].sensor].value)
            /\ \A v \in values :
                   /\ IsRed(v) <=> Within(v, ShadedArea(values)) /\ v # threshold.critical
                   /\ Within(v, TimelineDomain(values)) /\ Within(v, OverviewDomain(values))
            /\ CriticalInView(values, threshold.critical)
                   => Within(threshold.critical, OverviewDomain(values))
=============================================================================
