--------------------------- MODULE AlertLifecycle ---------------------------
(* How an alert is raised, announced, acknowledged and cleared: the alert part *)
(* of TelemetryProcessor.Process (Services/Telemetry/TelemetryProcessor.cs)    *)
(* against the Mute, Unmute and Acknowledge commands of CommandService.Issue.  *)
(*                                                                             *)
(* The telemetry queue appears as the buffer it implements (PriorityBuffer):   *)
(* critical readings overtake normal ones, so readings of one device are       *)
(* processed out of order.  The device registry's compare-and-swap loops       *)
(* appear as the atomic updates they implement.  ActiveAlerts, AlertLog,       *)
(* MutedDevices and AcknowledgedAlerts each lock themselves only, so every     *)
(* call on one of them is a step of its own.                                   *)
EXTENDS Naturals, Sequences, FiniteSets

CONSTANTS Devices,          \* registered devices
          Metrics,          \* metrics a reading is checked for
          MaxSeverity,      \* severities are 1 .. MaxSeverity, 0 for no breach
          RecentCapacity,   \* AlertLog.RecentCapacity
          MaxReadings,      \* bound on the readings that arrive
          MaxCommands       \* bound on the commands issued

ASSUME BoundsAssumption ==
    /\ Metrics # {}
    /\ MaxSeverity \in Nat \ {0}
    /\ RecentCapacity \in Nat \ {0}
    /\ MaxReadings \in Nat
    /\ MaxCommands \in Nat

VARIABLES now,            \* the last receivedAtUtc that Ingest stamped
          arrived,        \* readings enqueued so far
          pending,        \* readings in the telemetry queue
          lastSeen,       \* LastSeenUtc of each device, 0 for null
          active,         \* ActiveAlerts
          logged,         \* the keys of AlertLog._active
          recent,         \* AlertLog._recent
          muted,          \* MutedDevices
          acknowledged,   \* AcknowledgedAlerts
          consumer,       \* the consumer thread inside Process
          command,        \* the command thread inside Issue
          issued,         \* commands issued so far
          sent,           \* history: the alerts announced to clients, in order
          episodes,       \* history: the alerts added to ActiveAlerts, in order
          newest,         \* history: per device, its last arrival and the breaches
                          \* of the readings with that stamp
          mutedSince      \* history: the device's mute state since its last raise

alertVars == <<active, logged, recent, acknowledged, muted>>
historyVars == <<sent, episodes, mutedSince>>
vars == <<now, arrived, pending, lastSeen, alertVars, consumer, command, issued,
          historyVars, newest>>

Keys == [device : Devices, metric : Metrics]
Key(d, m) == [device |-> d, metric |-> m]

Reading == [seq : 1 .. MaxReadings, sev : 0 .. MaxSeverity, device : Devices,
            at : 1 .. MaxReadings, breaches : SUBSET Metrics]

\* r is served before s (TelemetryQueue, as PriorityBuffer states it).
Precedes(r, s) ==
    \/ r.sev > s.sev
    \/ r.sev = s.sev /\ r.seq < s.seq

MuteState(d) == IF d \in muted THEN "muted" ELSE "unmuted"

Idle == [at |-> "idle"]

Init ==
    /\ now = 0 /\ arrived = 0 /\ pending = {}
    /\ lastSeen = [d \in Devices |-> 0]
    /\ active = {} /\ logged = {} /\ recent = <<>>
    /\ muted = {} /\ acknowledged = {}
    /\ consumer = Idle /\ command = Idle /\ issued = 0
    /\ sent = <<>> /\ episodes = <<>>
    /\ newest = [d \in Devices |-> [at |-> 0, breaches |-> {{}}]]
    /\ mutedSince = "unmuted"
-----------------------------------------------------------------------------
(* Ingest, on the MQTT callback: stamps the arrival and enqueues the checks.   *)
(* Two arrivals may get the same stamp.                                        *)
Ingest(d, breaches, sev) ==
    /\ arrived < MaxReadings
    /\ (sev = 0) = (breaches = {})
    /\ \E t \in {now, now + 1} \ {0} :
         /\ now' = t
         /\ pending' = pending \cup {[seq |-> arrived + 1, sev |-> sev, device |-> d,
                                      at |-> t, breaches |-> breaches]}
         /\ newest' = [newest EXCEPT ![d] =
                          [at |-> t, breaches |-> IF @.at = t THEN @.breaches \cup {breaches}
                                                              ELSE {breaches}]]
    /\ arrived' = arrived + 1
    /\ UNCHANGED <<lastSeen, alertVars, consumer, command, issued, historyVars>>
-----------------------------------------------------------------------------
(* The consumer.                                                               *)

\* Mutant: a stale reading has its checks applied too.
Take_AppliesStale ==
    /\ consumer = Idle
    /\ \E r \in pending :
         /\ \A s \in pending \ {r} : Precedes(r, s)
         /\ pending' = pending \ {r}
         /\ lastSeen' = [lastSeen EXCEPT ![r.device] = r.at]
         /\ consumer' = [at |-> "check", reading |-> r, todo |-> Metrics]
    /\ UNCHANGED <<now, arrived, alertVars, command, issued, historyVars, newest>>

\* DequeueAsync and RecordTelemetry: only the consumer writes LastSeenUtc.
Take ==
    /\ consumer = Idle
    /\ \E r \in pending :
         /\ \A s \in pending \ {r} : Precedes(r, s)
         /\ pending' = pending \ {r}
         /\ IF r.at > lastSeen[r.device]
            THEN /\ lastSeen' = [lastSeen EXCEPT ![r.device] = r.at]
                 /\ consumer' = [at |-> "check", reading |-> r, todo |-> Metrics]
            ELSE UNCHANGED <<lastSeen, consumer>>   \* stale: no checks
    /\ UNCHANGED <<now, arrived, alertVars, command, issued, historyVars, newest>>

\* The key the consumer works on.
CurrentKey == Key(consumer.reading.device, consumer.metric)

\* On to the next check, or out of the foreach.
NextCheck(c, m) ==
    IF c.todo = {m} THEN Idle
    ELSE [at |-> "check", reading |-> c.reading, todo |-> c.todo \ {m}]

\* On to a later call for the same check.
GoTo(c, m, label) ==
    [at |-> label, reading |-> c.reading, todo |-> c.todo, metric |-> m]

\* Mutant: what TryAdd returns is not tested.
TryRaise_Untested ==
    /\ consumer.at = "check"
    /\ \E m \in consumer.todo \cap consumer.reading.breaches :
         LET k == Key(consumer.reading.device, m)
         IN  /\ active' = active \cup {k}
             /\ consumer' = GoTo(consumer, m, "log")
             /\ episodes' = IF k \in active THEN episodes ELSE Append(episodes, k)
             /\ mutedSince' = MuteState(consumer.reading.device)
    /\ UNCHANGED <<now, arrived, pending, lastSeen, logged, recent, acknowledged, muted,
                   command, issued, sent, newest>>

\* _activeAlerts.TryAdd(key).
TryRaise ==
    /\ consumer.at = "check"
    /\ \E m \in consumer.todo \cap consumer.reading.breaches :
         LET k == Key(consumer.reading.device, m)
         IN  /\ active' = active \cup {k}
             /\ consumer' = IF k \in active THEN NextCheck(consumer, m)
                                            ELSE GoTo(consumer, m, "log")
             /\ episodes' = IF k \in active THEN episodes ELSE Append(episodes, k)
             /\ mutedSince' = MuteState(consumer.reading.device)
    /\ UNCHANGED <<now, arrived, pending, lastSeen, logged, recent, acknowledged, muted,
                   command, issued, sent, newest>>

\* _alertLog.Raised.
LogRaised ==
    /\ consumer.at = "log"
    /\ logged' = logged \cup {CurrentKey}
    /\ recent' = IF Len(recent) < RecentCapacity
                 THEN Append(recent, CurrentKey)
                 ELSE Tail(Append(recent, CurrentKey))
    /\ consumer' = [consumer EXCEPT !.at = "mutetest"]
    /\ UNCHANGED <<now, arrived, pending, lastSeen, active, acknowledged, muted,
                   command, issued, historyVars, newest>>

\* Mutant: the mute is not tested.
TestMuted_Ignored ==
    /\ consumer.at = "mutetest"
    /\ consumer' = [consumer EXCEPT !.at = "announce"]
    /\ UNCHANGED <<now, arrived, pending, lastSeen, alertVars, command, issued,
                   historyVars, newest>>

\* _muted.Contains.
TestMuted ==
    /\ consumer.at = "mutetest"
    /\ consumer' = IF consumer.reading.device \in muted
                   THEN NextCheck(consumer, consumer.metric)
                   ELSE [consumer EXCEPT !.at = "announce"]
    /\ UNCHANGED <<now, arrived, pending, lastSeen, alertVars, command, issued,
                   historyVars, newest>>

\* _liveUpdates.AlertRaised.
Announce ==
    /\ consumer.at = "announce"
    /\ sent' = Append(sent, CurrentKey)
    /\ consumer' = NextCheck(consumer, consumer.metric)
    /\ UNCHANGED <<now, arrived, pending, lastSeen, alertVars, command, issued,
                   episodes, mutedSince, newest>>

\* _activeAlerts.Remove(key), for a check without breach.
TryClear ==
    /\ consumer.at = "check"
    /\ \E m \in consumer.todo \ consumer.reading.breaches :
         LET k == Key(consumer.reading.device, m)
         IN  /\ active' = active \ {k}
             /\ consumer' = IF k \in active THEN GoTo(consumer, m, "unacknowledge")
                                            ELSE NextCheck(consumer, m)
    /\ UNCHANGED <<now, arrived, pending, lastSeen, logged, recent, acknowledged, muted,
                   command, issued, historyVars, newest>>

\* _acknowledged.Remove(key).
Unacknowledge ==
    /\ consumer.at = "unacknowledge"
    /\ acknowledged' = acknowledged \ {CurrentKey}
    /\ consumer' = [consumer EXCEPT !.at = "unlog"]
    /\ UNCHANGED <<now, arrived, pending, lastSeen, active, logged, recent, muted,
                   command, issued, historyVars, newest>>

\* Mutant: the log is not told that the alert cleared.
LogCleared_Missing ==
    /\ consumer.at = "unlog"
    /\ consumer' = NextCheck(consumer, consumer.metric)
    /\ UNCHANGED <<now, arrived, pending, lastSeen, alertVars, command, issued,
                   historyVars, newest>>

\* _alertLog.Cleared(key).
LogCleared ==
    /\ consumer.at = "unlog"
    /\ logged' = logged \ {CurrentKey}
    /\ consumer' = NextCheck(consumer, consumer.metric)
    /\ UNCHANGED <<now, arrived, pending, lastSeen, active, recent, acknowledged, muted,
                   command, issued, historyVars, newest>>

ConsumerStep ==
    \/ Take \/ TryRaise \/ LogRaised \/ TestMuted \/ Announce
    \/ TryClear \/ Unacknowledge \/ LogCleared
-----------------------------------------------------------------------------
(* The commands; CommandService._lock makes them one at a time.                *)

CanIssue == command = Idle /\ issued < MaxCommands

\* The history variable follows the device whose alert is being raised.
MuteChanged(d, state) ==
    mutedSince' = IF consumer # Idle /\ consumer.reading.device = d /\ mutedSince # state
                  THEN "changed" ELSE mutedSince

Mute(d) ==
    /\ CanIssue
    /\ issued' = issued + 1
    /\ d \notin muted
    /\ muted' = muted \cup {d}
    /\ MuteChanged(d, "muted")
    /\ UNCHANGED <<now, arrived, pending, lastSeen, active, logged, recent, acknowledged,
                   consumer, command, sent, episodes, newest>>

Unmute(d) ==
    /\ CanIssue
    /\ issued' = issued + 1
    /\ d \in muted
    /\ muted' = muted \ {d}
    /\ MuteChanged(d, "unmuted")
    /\ UNCHANGED <<now, arrived, pending, lastSeen, active, logged, recent, acknowledged,
                   consumer, command, sent, episodes, newest>>

\* Acknowledge goes through the metrics of its device.
Acknowledge(d) ==
    /\ CanIssue
    /\ issued' = issued + 1
    /\ command' = [at |-> "test", device |-> d, todo |-> Metrics]
    /\ UNCHANGED <<now, arrived, pending, lastSeen, alertVars, consumer, historyVars, newest>>

\* On to the next metric, or out of the foreach.
NextMetric(c, m) ==
    IF c.todo = {m} THEN Idle
    ELSE [at |-> "test", device |-> c.device, todo |-> c.todo \ {m}]

\* _alerts.Contains(key).
TestActive ==
    /\ command.at = "test"
    /\ \E m \in command.todo :
         command' = IF Key(command.device, m) \in active
                    THEN [at |-> "add", device |-> command.device,
                          todo |-> command.todo, metric |-> m]
                    ELSE NextMetric(command, m)
    /\ UNCHANGED <<now, arrived, pending, lastSeen, alertVars, consumer, issued,
                   historyVars, newest>>

\* _acknowledged.TryAdd(key).
AddAcknowledged ==
    /\ command.at = "add"
    /\ acknowledged' = acknowledged \cup {Key(command.device, command.metric)}
    /\ command' = NextMetric(command, command.metric)
    /\ UNCHANGED <<now, arrived, pending, lastSeen, active, logged, recent, muted,
                   consumer, issued, historyVars, newest>>

AcknowledgeStep == TestActive \/ AddAcknowledged
-----------------------------------------------------------------------------
Next ==
    \/ \E d \in Devices, b \in SUBSET Metrics, s \in 0 .. MaxSeverity : Ingest(d, b, s)
    \/ ConsumerStep
    \/ \E d \in Devices : Mute(d) \/ Unmute(d) \/ Acknowledge(d)
    \/ AcknowledgeStep

Spec == Init /\ [][Next]_vars
-----------------------------------------------------------------------------
ConsumerType ==
    \/ consumer = Idle
    \/ /\ consumer.at = "check"
       /\ consumer \in [at : {"check"}, reading : Reading, todo : (SUBSET Metrics) \ {{}}]
    \/ /\ consumer.at \in {"log", "mutetest", "announce", "unacknowledge", "unlog"}
       /\ consumer \in [at : {"log", "mutetest", "announce", "unacknowledge", "unlog"},
                        reading : Reading, todo : (SUBSET Metrics) \ {{}}, metric : Metrics]

CommandType ==
    \/ command = Idle
    \/ /\ command.at = "test"
       /\ command \in [at : {"test"}, device : Devices, todo : (SUBSET Metrics) \ {{}}]
    \/ /\ command.at = "add"
       /\ command \in [at : {"add"}, device : Devices, todo : (SUBSET Metrics) \ {{}},
                       metric : Metrics]

\* Every variable has its type.
TypeOK ==
    /\ now \in 0 .. MaxReadings /\ arrived \in 0 .. MaxReadings
    /\ pending \subseteq Reading
    /\ lastSeen \in [Devices -> 0 .. MaxReadings]
    /\ active \subseteq Keys /\ logged \subseteq Keys /\ acknowledged \subseteq Keys
    /\ muted \subseteq Devices
    /\ recent \in Seq(Keys) /\ Len(recent) <= RecentCapacity
    /\ ConsumerType /\ CommandType /\ issued \in 0 .. MaxCommands
    /\ sent \in Seq(Keys) /\ episodes \in Seq(Keys)
    /\ newest \in [Devices -> [at : 0 .. MaxReadings, breaches : SUBSET SUBSET Metrics]]
    /\ mutedSince \in {"muted", "unmuted", "changed"}

\* ActiveAlerts and AlertLog, which nothing locks together, hold the same
\* alerts except for the one key the consumer is between the two with.
LogMatchesActive ==
    CASE consumer.at = "log" -> CurrentKey \notin logged /\ active = logged \cup {CurrentKey}
      [] consumer.at \in {"unacknowledge", "unlog"} ->
            CurrentKey \notin active /\ logged = active \cup {CurrentKey}
      [] OTHER -> logged = active

\* AlertLog._recent is the tail of the alerts ever raised, each once.
RecentIsLastEpisodes ==
    LET raised == IF consumer.at = "log" THEN SubSeq(episodes, 1, Len(episodes) - 1)
                                         ELSE episodes
        kept == IF Len(raised) > RecentCapacity THEN RecentCapacity ELSE Len(raised)
    IN  recent = SubSeq(raised, Len(raised) - kept + 1, Len(raised))

\* AlertLog says what is active and what was raised last.
LogExact == LogMatchesActive /\ RecentIsLastEpisodes

Occurrences(k, s) == Cardinality({i \in DOMAIN s : s[i] = k})

\* Clients hear of an alert at most once between its raise and its clear.
AnnouncedOncePerEpisode ==
    \A k \in Keys : Occurrences(k, sent) <= Occurrences(k, episodes)

ActiveMetrics(d) == {m \in Metrics : Key(d, m) \in active}

\* Critical readings overtake normal ones, so a device's readings are processed
\* out of order; still, once all of them are, its active alerts are exactly the
\* breaches of its newest reading (of one of them, if two share a stamp).
AlertsMatchNewest ==
    \A d \in Devices :
        (consumer = Idle /\ \A r \in pending : r.device # d)
            => ActiveMetrics(d) \in newest[d].breaches

\* A client is not told of an alert raised while its device was, and stayed,
\* muted, and is told of one raised while it was, and stayed, unmuted
\* (frontend/src/lib/commands.js:25 and :31).
AnnouncementFollowsMute ==
    [][/\ sent' # sent => mutedSince # "muted"
       /\ consumer.at = "mutetest" /\ consumer' # consumer /\ consumer'.at # "announce"
            => mutedSince # "unmuted"]_vars

\* "Each acknowledgement ends when its alert clears"
\* (frontend/src/lib/commands.js:37): with no acknowledge command under way, and
\* no alert half cleared, only active alerts are acknowledged.
AcknowledgementEndsWithAlert ==
    command = Idle /\ consumer.at # "unacknowledge" => acknowledged \subseteq active
=============================================================================
