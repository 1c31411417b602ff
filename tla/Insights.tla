------------------------------ MODULE Insights ------------------------------
(* backend/Services/Insights/InsightEngine.cs with its callers: suggestions    *)
(* from rules and from what operators did after earlier alerts.  A rebuild     *)
(* reads the clock, the registry, the alert log, the acknowledged, muted and   *)
(* offline devices and the learned counts one after the other, each under a    *)
(* lock of its own; learning and forgetting a command happen after the command *)
(* lock was released.                                                          *)
(*                                                                             *)
(* One subzone; a sensor has one metric, that of its category, so an alert is  *)
(* known by its device.  The commands are those of module Commands and the     *)
(* alerts those of AlertLifecycle, an atomic step each.  A drift that meets    *)
(* both limits is a fact about a sensor, and confidence is in percent.         *)
EXTENDS Integers, Sequences, FiniteSets, Bags, FiniteSetsExt, SequencesExt

CONSTANTS Devices,            \* registered devices
          Category,           \* "Environmental", "FlowRate" or "Actuator"
          Point,              \* zone and rounded chainage of a device
          CommandTypes,       \* the command types that are issued
          Threads,            \* request threads and timer callbacks
          Nobody,             \* not a thread
          RecencyBatches, MinSupport, NeglectedBatches, LongOfflineBatches,
          MaxSuggestions,     \* the limits of InsightEngine
          GraceBatches,       \* CommandService.GraceBatches
          LowBatteryPct,      \* SearchSettings.LowBatteryPct
          BatteryLevels,      \* battery readings
          MaxSeverity, MaxBatch, MaxInputs   \* bounds

ASSUME InsightsAssumption ==
    /\ IsFiniteSet(Devices) /\ Nobody \notin Threads
    /\ Category \in [Devices -> {"Environmental", "FlowRate", "Actuator"}]
    /\ {RecencyBatches, MinSupport, NeglectedBatches, LongOfflineBatches, GraceBatches,
         LowBatteryPct, MaxSeverity, MaxBatch, MaxInputs} \subseteq Nat
    /\ MaxSuggestions \in Nat \ {0} /\ BatteryLevels \subseteq 0 .. 100

VARIABLES clock,          \* BatchClock.Current
          alerts,         \* AlertLog._active
          recent,         \* AlertLog._recent, whose capacity is in AlertLifecycle
          clearing,       \* the sensor whose alert the consumer is clearing
          acknowledged,   \* AcknowledgedAlerts
          muted,          \* MutedDevices
          offlineSince,   \* DisconnectDetector._offlineSince, 0 for no entry
          battery,        \* BatteryPct of each device's state
          drifting,       \* sensors whose history drifts
          override,       \* Override of each device's state
          lastId, undo,   \* CommandService._lastId and _undo
          counts,         \* _transitions: a function of the responses that occurred
          credited,       \* _creditedCommands
          dismissed,      \* _dismissed
          candidates,     \* _candidates
          rebuilder,      \* the holder of _rebuildLock
          thread,         \* where each thread is in its call
          changes,        \* changes of alerts, offline entries, batteries and drifts so far
          clicks,         \* history: how often a click was learned
          early,          \* history: commands forgotten before they were learned
          forgotten,      \* history: commands forgotten
          causes,         \* history: what kind of cause each dismissal was for
          kept,           \* history: dismissals whose call returned
          fresh           \* history: nothing changed since the last rebuild began

deviceVars == <<battery, drifting>>
alertVars == <<alerts, recent, clearing>>
commandVars == <<override, lastId, undo>>
learnVars == <<counts, credited, clicks, early, forgotten>>
dismissVars == <<dismissed, causes, kept>>
buildVars == <<candidates, rebuilder>>
worldVars == <<clock, alertVars, acknowledged, muted, offlineSince, deviceVars, commandVars>>
engineVars == <<learnVars, dismissVars, buildVars>>
vars == <<worldVars, engineVars, thread, changes, fresh>>

Sensors == {d \in Devices : Category[d] # "Actuator"}
Actuators == Devices \ Sensors
Metrics == {Category[d] : d \in Sensors}
ValveCommands == {"OpenValve", "CloseValve"}
Subzone == "Subzone"
Targets == Devices \cup {Subzone}

NoAlert == [batch |-> -1, severity |-> 0]
NoOverride == [kind |-> "none", until |-> 0, id |-> 0]

\* What is counted: a response to a metric, ActionKey(action, scope).
Responses == [metric : Metrics, action : CommandTypes \cup {"Inspect"},
              scope : {Subzone, "Device"} \cup {Category[d] : d \in Devices}]

\* The function f with a value for x.
With(f, x, value) == [y \in DOMAIN f \cup {x} |-> IF y = x THEN value ELSE f[y]]

Idle == [at |-> "idle"]
Waiting == [at |-> "wait", dismissal |-> {}]   \* to rebuild

Init ==
    /\ clock = 0
    /\ alerts = [d \in Sensors |-> NoAlert] /\ recent = {} /\ clearing = {}
    /\ acknowledged = {} /\ muted = {}
    /\ offlineSince = [d \in Devices |-> 0]
    /\ battery = [d \in Devices |-> 100] /\ drifting = {}
    /\ override = [d \in Devices |-> NoOverride] /\ lastId = 0 /\ undo = <<>>
    /\ counts = EmptyBag /\ credited = <<>>
    /\ dismissed = {} /\ candidates = {} /\ rebuilder = Nobody
    /\ thread = [t \in Threads |-> Idle]
    /\ changes = 0
    /\ clicks = EmptyBag /\ early = {} /\ forgotten = {}
    /\ causes = {} /\ kept = {} /\ fresh = FALSE
-----------------------------------------------------------------------------
(* What the telemetry consumer changes.                                        *)

\* Changes, commands, learned clicks and dismissals so far, which are bounded.
Inputs == changes + lastId + BagCardinality(clicks) + Cardinality(causes)

Change ==
    /\ Inputs < MaxInputs
    /\ changes' = changes + 1

\* AlertLog.Raised, with the batch of the moment.
Raise(d, severity) ==
    /\ Change
    /\ alerts[d] = NoAlert
    /\ LET alert == [batch |-> clock, severity |-> severity]
       IN /\ alerts' = [alerts EXCEPT ![d] = alert]
          /\ recent' = recent \cup {[device |-> d, alert |-> alert]}
    /\ UNCHANGED <<clock, clearing, acknowledged, muted, offlineSince, deviceVars,
                   commandVars, engineVars, thread>>

\* The alert leaves ActiveAlerts and AcknowledgedAlerts, and then the log.
Unacknowledge(d) ==
    /\ Change
    /\ alerts[d] # NoAlert
    /\ clearing = {}
    /\ clearing' = {d}
    /\ acknowledged' = acknowledged \ {d}
    /\ UNCHANGED <<clock, alerts, recent, muted, offlineSince, deviceVars, commandVars,
                   engineVars, thread>>

LogCleared(d) ==
    /\ d \in clearing
    /\ clearing' = {}
    /\ alerts' = [alerts EXCEPT ![d] = NoAlert]
    /\ UNCHANGED <<clock, recent, acknowledged, muted, offlineSince, deviceVars,
                   commandVars, engineVars, thread, changes>>

ReportBattery(d, level) ==
    /\ Change
    /\ battery' = [battery EXCEPT ![d] = level]
    /\ UNCHANGED <<clock, alertVars, acknowledged, muted, offlineSince, drifting,
                   commandVars, engineVars, thread>>

\* The history of a sensor begins or ceases to drift.
ReportDrift(d) ==
    /\ Change
    /\ drifting' = (drifting \ {d}) \cup ({d} \ drifting)
    /\ UNCHANGED <<clock, alertVars, acknowledged, muted, offlineSince, battery,
                   commandVars, engineVars, thread>>
-----------------------------------------------------------------------------
(* A batch closes: the clock, the disconnect detector, a rebuild.              *)

CloseBatch(t) ==
    /\ thread[t] = Idle
    /\ clock < MaxBatch
    /\ clock' = clock + 1
    /\ thread' = [thread EXCEPT ![t] = [at |-> "detect", todo |-> Devices]]
    /\ UNCHANGED <<alertVars, acknowledged, muted, offlineSince, deviceVars,
                   commandVars, engineVars, changes>>

\* Detect finds that d has gone, or is back.
Detect(t, d) ==
    /\ Change
    /\ thread[t].at = "detect"
    /\ d \in thread[t].todo
    /\ offlineSince' = [offlineSince EXCEPT ![d] = IF @ = 0 THEN clock ELSE 0]
    /\ thread' = [thread EXCEPT ![t].todo = @ \ {d}]
    /\ UNCHANGED <<clock, alertVars, acknowledged, muted, deviceVars, commandVars,
                   engineVars>>

\* The other devices are where they were.
EndDetect(t) ==
    /\ thread[t].at = "detect"
    /\ thread' = [thread EXCEPT ![t] = Waiting]
    /\ UNCHANGED <<worldVars, engineVars, changes>>
-----------------------------------------------------------------------------
(* Commands and clicks, and what is learned from them.                         *)

\* ResolveTargets.
Reached(type, target) ==
    (IF target = Subzone THEN Devices ELSE {target})
        \cap (IF type \in ValveCommands THEN Actuators ELSE Devices)

IsRebooting(d) == override[d].kind = "Reboot" /\ override[d].until > clock

\* Open and close valves, reboot.
IssueOverride(type, target) ==
    LET affected == {d \in Reached(type, target) : type = "Reboot" \/ ~IsRebooting(d)}
    IN  /\ type \in ValveCommands \cup {"Reboot"}
        /\ affected # {}
        /\ override' = [d \in Devices |->
              IF d \in affected
              THEN [kind |-> type, until |-> clock + GraceBatches, id |-> lastId + 1]
              ELSE override[d]]
        /\ undo' = IF type \in ValveCommands
                   THEN Append(undo, [id |-> lastId + 1, batch |-> clock, priors |-> override])
                   ELSE undo
        /\ UNCHANGED <<muted, acknowledged>>

IssueMute(type, target) ==
    LET affected == IF type = "Mute" THEN Reached(type, target) \ muted
                                     ELSE Reached(type, target) \cap muted
    IN  /\ type \in {"Mute", "Unmute"}
        /\ affected # {}
        /\ muted' = (muted \ affected) \cup (affected \ muted)
        /\ UNCHANGED <<acknowledged, override, undo>>

IssueAcknowledge(type, target) ==
    LET affected == {d \in (Reached(type, target) \cap Sensors) \ (acknowledged \cup clearing) :
                        alerts[d] # NoAlert}
    IN  /\ type = "Acknowledge"
        /\ affected # {}
        /\ acknowledged' = acknowledged \cup affected
        /\ UNCHANGED <<muted, override, undo>>

\* POST /api/commands: Issue returns a record, which is still to be learned from.
Issue(t) ==
    /\ thread[t] = Idle
    /\ Inputs < MaxInputs
    /\ \E type \in CommandTypes, target \in Targets :
          /\ \/ IssueOverride(type, target)
             \/ IssueMute(type, target)
             \/ IssueAcknowledge(type, target)
          /\ thread' = [thread EXCEPT ![t] = [at |-> "learn", id |-> lastId + 1, action |-> type,
                                              target |-> target, batch |-> clock]]
    /\ lastId' = lastId + 1
    /\ UNCHANGED <<clock, alertVars, offlineSince, deviceVars, engineVars, changes>>

\* POST /api/search/clicks: learned like a command without id.
Click(t) ==
    /\ thread[t] = Idle
    /\ Inputs < MaxInputs
    /\ \E d \in Devices :
          thread' = [thread EXCEPT ![t] = [at |-> "learn", id |-> 0, action |-> "Inspect",
                                           target |-> d, batch |-> clock]]
    /\ UNCHANGED <<worldVars, engineVars, changes>>

\* CandidatesFor, and those not later than the batch.
Eligible(batch) ==
    {r \in recent \cup {[device |-> d, alert |-> alerts[d]] : d \in Sensors} :
        /\ r.alert # NoAlert
        /\ alerts[r.device] = r.alert \/ r.alert.batch >= batch - RecencyBatches
        /\ r.alert.batch <= batch}

NoLaterThan(r, s) ==
    \/ r.alert.batch < s.alert.batch
    \/ r.alert.batch = s.alert.batch /\ r.alert.severity <= s.alert.severity

\* The latest, of these the most severe; which of equals is open.
NearestAlerts(batch) ==
    {r \in Eligible(batch) : \A s \in Eligible(batch) : NoLaterThan(s, r)}

ScopeOf(device, target) ==
    CASE target = Subzone -> Subzone
      [] target = device  -> "Device"
      [] OTHER            -> Category[target]

\* A command goes on to rebuild, a click is done.
AfterLearning(t) == IF thread[t].id = 0 THEN Idle ELSE Waiting

\* LearnFromCommand and LearnFromClick find the alert that was responded to.
FindAlert(t) ==
    /\ thread[t].at = "learn"
    /\ IF Eligible(thread[t].batch) = {}
       THEN thread' = [thread EXCEPT ![t] = AfterLearning(t)]
       ELSE \E r \in NearestAlerts(thread[t].batch) :
               thread' = [thread EXCEPT ![t] =
                  [at |-> "credit", id |-> thread[t].id,
                   response |-> [metric |-> Category[r.device], action |-> thread[t].action,
                                 scope |-> ScopeOf(r.device, thread[t].target)]]]
    /\ UNCHANGED <<worldVars, engineVars, changes>>

\* Increment, under _lock.
Credit(t) ==
    /\ thread[t].at = "credit"
    /\ LET r == thread[t].response
           n == thread[t].id
       IN /\ counts' = counts (+) SetToBag({r})
          /\ IF n = 0 THEN /\ clicks' = clicks (+) SetToBag({r})
                           /\ UNCHANGED credited
                      ELSE /\ credited' = With(credited, n, r)
                           /\ UNCHANGED clicks
    /\ thread' = [thread EXCEPT ![t] = AfterLearning(t)]
    /\ UNCHANGED <<worldVars, early, forgotten, dismissVars, buildVars, changes>>

\* POST /api/commands/undo: the newest valve command that has not expired.
Undo(t) ==
    /\ thread[t] = Idle
    /\ undo # <<>>
    /\ Last(undo).batch + GraceBatches > clock
    /\ override' = [d \in Devices |-> IF override[d].id = Last(undo).id
                                      THEN Last(undo).priors[d] ELSE override[d]]
    /\ undo' = Front(undo)
    /\ thread' = [thread EXCEPT ![t] = [at |-> "forget", id |-> Last(undo).id]]
    /\ UNCHANGED <<clock, alertVars, acknowledged, muted, offlineSince, deviceVars,
                   lastId, engineVars, changes>>

\* Mutant: the row is removed whatever its count.
Decremented_Removed(r) == Restrict(counts, DOMAIN counts \ {r})

\* A row entry that comes to 0 is removed.
Decremented(r) == counts (-) SetToBag({r})

\* ForgetCommand: the credit, if there is one, is taken back.
Forget(t) ==
    /\ thread[t].at = "forget"
    /\ LET n == thread[t].id
       IN /\ IF n \in DOMAIN credited
             THEN /\ counts' = Decremented(credited[n])
                  /\ credited' = Restrict(credited, DOMAIN credited \ {n})
             ELSE UNCHANGED <<counts, credited>>
          /\ forgotten' = forgotten \cup {n}
          /\ early' = IF \E u \in Threads : thread[u].at \in {"learn", "credit"} /\ thread[u].id = n
                      THEN early \cup {n} ELSE early
    /\ thread' = [thread EXCEPT ![t] = Waiting]
    /\ UNCHANGED <<worldVars, clicks, dismissVars, buildVars, changes>>
-----------------------------------------------------------------------------
(* The rules.  A view v holds what a rebuild has read.                         *)

\* A suggestion by one rule.  The id is the action and its target; the version is
\* an alert (its device and batch), a metric (with 0), or just a number.
Suggestion(action, target, kind, cause, device, rank, version, source) ==
    [id |-> <<action, target>>, kind |-> kind, cause |-> cause, device |-> device,
     rank |-> rank, version |-> version, sources |-> {source}]

Rank(tier, severity, confidence) == <<-tier, severity, confidence>>
AlertVersion(v, d) == <<d, v.alerts[d].batch>>
Number(n) == <<"", n>>

Alerting(v) == {d \in Sensors : v.alerts[d] # NoAlert}
Visible(v) == Alerting(v) \ v.muted
Neighbours(d) == {n \in Devices \ {d} : Point[n] = Point[d]}

\* What a response to the alert of d is aimed at: none, or one.
ResponseTargets(d, scope) ==
    CASE scope = Subzone  -> {Subzone}
      [] scope = "Device" -> {d}
      [] OTHER -> LET fit == {n \in Neighbours(d) : Category[n] = scope}
                  IN  IF fit = {} THEN {} ELSE {CHOOSE n \in fit : TRUE}

AlreadyDone(v, action, d, target) ==
    \/ action = "Acknowledge" /\ d \in v.acknowledged
    \/ action \in ValveCommands /\ target # Subzone /\ v.devices.override[target].until > v.now

\* The responses to the metric of d that are counted.
Row(v, d) == {r \in DOMAIN v.learned.counts : r.metric = Category[d]}

Confidence(v, d, r) ==
    (100 * v.learned.counts[r]) \div MapThenSumSet(LAMBDA q : v.learned.counts[q], Row(v, d))

\* Enough responses to the alert of d before.
LearnedFor(v, d) ==
    {Suggestion(p[1].action, p[2], "Learned", "Breach", d,
                Rank(0, v.alerts[d].severity, Confidence(v, d, p[1])), AlertVersion(v, d), "Learned") :
        p \in {q \in Row(v, d) \X Targets :
            /\ v.learned.counts[q[1]] >= MinSupport
            /\ q[2] \in ResponseTargets(d, q[1].scope)
            /\ ~AlreadyDone(v, q[1].action, d, q[2])}}

Learned(v) == UNION {LearnedFor(v, d) : d \in Visible(v)}

\* Alerts that nobody acknowledged for long: the worst of the subzone.
Neglected(v) ==
    LET old == {d \in Visible(v) \ v.acknowledged :
                   v.now - v.alerts[d].batch >= NeglectedBatches}
        worst == CHOOSE d \in old : \A e \in old : v.alerts[d].severity >= v.alerts[e].severity
    IN  IF old = {} THEN {}
        ELSE {Suggestion("Acknowledge", Subzone, "Rule", "Breach", worst,
                         Rank(0, v.alerts[worst].severity, 90),
                         Number(Max({v.alerts[d].batch : d \in old})), "Neglected")}

\* The histories are read here, when everything else has been.
Drift(v) ==
    {Suggestion("Inspect", d, "Rule", "Drift", d, Rank(1, 0, 80), <<Category[d], 0>>, "Drift") :
        d \in {s \in drifting \ (Alerting(v) \cup v.muted) : v.offlineSince[s] = 0}}

CoLocated(v) ==
    UNION {{Suggestion("Inspect", n, "Rule", "Breach", d, Rank(2, v.alerts[d].severity, 70),
                       AlertVersion(v, d), "CoLocated") :
               n \in Neighbours(d) \ Alerting(v)} : d \in Visible(v)}

LongOffline(v) ==
    {Suggestion("Inspect", d, "Rule", "Offline", d, Rank(3, v.now - v.offlineSince[d], 60),
                Number(v.offlineSince[d]), "Offline") :
        d \in {e \in Devices \ v.muted :
                  v.offlineSince[e] # 0 /\ v.now - v.offlineSince[e] >= LongOfflineBatches}}

LowBattery(v) ==
    {Suggestion("Inspect", d, "Rule", "Battery", d,
                Rank(4, LowBatteryPct - v.devices.battery[d], 50),
                Number(v.devices.battery[d] \div 5), "Battery") :
        d \in {e \in Devices \ v.muted : v.devices.battery[e] <= LowBatteryPct}}

Rules(v) == <<Learned(v), Neglected(v), Drift(v), CoLocated(v), LongOffline(v), LowBattery(v)>>

\* Tuples are compared from the left.
AtLeast(p, q) ==
    \/ p[1] > q[1]
    \/ p[1] = q[1] /\ p[2] > q[2]
    \/ p[1] = q[1] /\ p[2] = q[2] /\ p[3] >= q[3]

\* Mutant: the later suggestion wins.
Merge_KeepsLast(a, b) ==
    [b EXCEPT !.kind = IF "Learned" \in {a.kind, b.kind} THEN "Learned" ELSE "Rule",
              !.sources = a.sources \cup b.sources]

\* The better of two suggestions with one id, with the sources of both.
Merge(a, b) ==
    [IF AtLeast(a.rank, b.rank) THEN a ELSE b
     EXCEPT !.kind = IF "Learned" \in {a.kind, b.kind} THEN "Learned" ELSE "Rule",
            !.sources = a.sources \cup b.sources]

\* Add, unless this version was dismissed.
AddTo(v, found, s) ==
    LET same == {c \in found : c.id = s.id}
    IN  IF <<s.id, s.version>> \in v.learned.dismissed THEN found
        ELSE (found \ same) \cup {IF same = {} THEN s ELSE Merge(CHOOSE c \in same : TRUE, s)}

\* Rule by rule; the order within a rule is that of a dictionary.
RebuildCore(v) ==
    FoldLeft(LAMBDA found, rule : FoldSet(LAMBDA s, f : AddTo(v, f, s), found, rule),
             {}, Rules(v))

\* The k best: a heap that gives up its worst when it holds more than k.
TopK(suggestions, k) ==
    FoldSet(LAMBDA s, heap :
               LET h == heap \cup {s}
               IN  IF Cardinality(h) <= k THEN h
                   ELSE h \ {CHOOSE w \in h : \A c \in h : AtLeast(c.rank, w.rank)},
            {}, suggestions)

\* The suggestions of a type: a metric, or the cause that has none.
OfType(type) ==
    IF type = "all" THEN candidates
    ELSE {c \in candidates :
             type = IF c.cause \in {"Breach", "Drift"} THEN Category[c.device] ELSE c.cause}

Types == {"all", "Offline", "Battery"} \cup Metrics

\* GET /api/insights.
Current(type) == TopK(OfType(type), MaxSuggestions)
-----------------------------------------------------------------------------
(* Dismiss and Rebuild.                                                        *)

Dismiss(t) ==
    /\ thread[t] = Idle
    /\ Inputs < MaxInputs
    /\ \E s \in Current("all") :
          /\ dismissed' = dismissed \cup {<<s.id, s.version>>}
          /\ causes' = causes \cup {<<s.id, s.version, s.cause>>}
          /\ thread' = [thread EXCEPT ![t] = [at |-> "wait", dismissal |-> {<<s.id, s.version>>}]]
    /\ UNCHANGED <<worldVars, learnVars, kept, buildVars, changes>>

\* What a rebuild reads, and in which order, each at one instant.
World == [now |-> clock, devices |-> [battery |-> battery, override |-> override],
          alerts |-> alerts, acknowledged |-> acknowledged, muted |-> muted,
          offlineSince |-> offlineSince,
          learned |-> [counts |-> counts, dismissed |-> dismissed]]

ReadOrder ==
    <<"now", "devices", "alerts", "acknowledged", "muted", "offlineSince", "learned">>

\* Mutant: rebuilds do not exclude each other.
BeginRebuild_NoLock(t) ==
    /\ thread[t].at = "wait"
    /\ rebuilder' = t
    /\ thread' = [thread EXCEPT ![t] = [at |-> "rebuild", next |-> 1, view |-> <<>>,
                                        dismissal |-> thread[t].dismissal]]
    /\ UNCHANGED <<worldVars, learnVars, dismissVars, candidates, changes>>

BeginRebuild(t) ==
    /\ thread[t].at = "wait"
    /\ rebuilder = Nobody
    /\ rebuilder' = t
    /\ thread' = [thread EXCEPT ![t] = [at |-> "rebuild", next |-> 1, view |-> <<>>,
                                        dismissal |-> thread[t].dismissal]]
    /\ UNCHANGED <<worldVars, learnVars, dismissVars, candidates, changes>>

Read(t) ==
    /\ thread[t].at = "rebuild"
    /\ thread[t].next <= Len(ReadOrder)
    /\ thread' = [thread EXCEPT
          ![t].view = With(@, ReadOrder[thread[t].next], World[ReadOrder[thread[t].next]]),
          ![t].next = @ + 1]
    /\ UNCHANGED <<worldVars, engineVars, changes>>

\* The candidates are replaced, the lock is released and the call returns.
Publish(t) ==
    /\ thread[t].at = "rebuild"
    /\ thread[t].next = Len(ReadOrder) + 1
    /\ candidates' = RebuildCore(thread[t].view)
    /\ rebuilder' = Nobody
    /\ kept' = kept \cup thread[t].dismissal
    /\ thread' = [thread EXCEPT ![t] = Idle]
    /\ UNCHANGED <<worldVars, learnVars, dismissed, causes, changes>>
-----------------------------------------------------------------------------
Telemetry ==
    \/ \E d \in Sensors :
          \/ \E severity \in 1 .. MaxSeverity : Raise(d, severity)
          \/ Unacknowledge(d) \/ LogCleared(d) \/ ReportDrift(d)
    \/ \E d \in Devices, level \in BatteryLevels : ReportBattery(d, level)

\* Steps that change what a rebuild reads.
Input(t) ==
    \/ CloseBatch(t) \/ \E d \in Devices : Detect(t, d)
    \/ Issue(t) \/ Undo(t) \/ Credit(t) \/ Forget(t)
    \/ Dismiss(t)

Other(t) == Click(t) \/ FindAlert(t) \/ EndDetect(t) \/ Read(t) \/ Publish(t)

Next ==
    \/ Telemetry /\ fresh' = FALSE
    \/ \E t \in Threads :
          \/ Input(t) /\ fresh' = FALSE
          \/ BeginRebuild(t) /\ fresh' = TRUE
          \/ Other(t) /\ UNCHANGED fresh

Spec == Init /\ [][Next]_vars
-----------------------------------------------------------------------------
Ids == (CommandTypes \cup {"Acknowledge", "Inspect"}) \X Targets
Versions == (Devices \cup Metrics \cup {""}) \X Nat
Causes == {"Breach", "Drift", "Offline", "Battery"}
RuleNames == {"Learned", "Neglected", "Drift", "CoLocated", "Offline", "Battery"}

Suggestions == [id : Ids, kind : {"Learned", "Rule"}, cause : Causes, device : Devices,
                rank : (-4 .. 0) \X Int \X (0 .. 100), version : Versions,
                sources : (SUBSET RuleNames) \ {{}}]

Stages == {"idle", "detect", "learn", "credit", "forget", "wait", "rebuild"}

\* The dictionary of candidates has suggestions, one per id.
CandidatesType ==
    /\ candidates \subseteq Suggestions
    /\ \A a, b \in candidates : a.id = b.id => a = b

\* Every other variable has its type.
TypeOK ==
    /\ clock \in 0 .. MaxBatch /\ changes \in 0 .. MaxInputs
    /\ alerts \in [Sensors -> {NoAlert} \cup [batch : 0 .. MaxBatch, severity : 1 .. MaxSeverity]]
    /\ \A r \in recent : r.device \in Sensors
    /\ clearing \cup acknowledged \cup drifting \subseteq Sensors
    /\ muted \subseteq Devices /\ offlineSince \in [Devices -> 0 .. MaxBatch]
    /\ battery \in [Devices -> BatteryLevels \cup {100}]
    /\ override \in [Devices -> [kind : CommandTypes \cup {"none"}, until : Nat,
                                 id : 0 .. MaxInputs]]
    /\ lastId \in 0 .. MaxInputs /\ Len(undo) <= lastId
    /\ IsABag(counts) /\ BagToSet(counts) \subseteq Responses
    /\ credited \in [DOMAIN credited -> Responses] /\ DOMAIN credited \subseteq 1 .. lastId
    /\ dismissed \subseteq Ids \X Versions
    /\ rebuilder \in Threads \cup {Nobody} /\ fresh \in BOOLEAN
    /\ \A t \in Threads : thread[t].at \in Stages

\* What the rules have to say now, leaving out what was dismissed.
OffersNow == UNION {Rules(World)[i] : i \in DOMAIN Rules(World)}
Standing == {o \in OffersNow : <<o.id, o.version>> \notin dismissed}

\* c speaks for the offers with its id: it is one of the best, and names them all.
SpeaksFor(c, offers) ==
    /\ \E o \in offers :
          /\ \A p \in offers : AtLeast(o.rank, p.rank)
          /\ <<c.rank, c.version, c.cause, c.device>> = <<o.rank, o.version, o.cause, o.device>>
    /\ c.sources = UNION {o.sources : o \in offers}
    /\ c.kind = IF \E o \in offers : o.kind = "Learned" THEN "Learned" ELSE "Rule"

\* When nothing has changed since the last rebuild began and it has ended, there is
\* a candidate for exactly the ids on offer, each the best of its offers; and of
\* each type the page gets as many as fit, none of them behind one left out.  So
\* rebuilds of several threads publish in the order in which they read, and an id
\* is never suggested twice.
BestShown ==
    /\ CandidatesType
    /\ fresh /\ rebuilder = Nobody =>
          /\ {c.id : c \in candidates} = {o.id : o \in Standing}
          /\ \A c \in candidates : SpeaksFor(c, {o \in Standing : o.id = c.id})
    /\ \A type \in Types :
          /\ Cardinality(Current(type)) = Min({MaxSuggestions, Cardinality(OfType(type))})
          /\ \A s \in Current(type), r \in OfType(type) \ Current(type) : AtLeast(s.rank, r.rank)

\* A dismissal whose call returned is never undone by a rebuild that had read the
\* dismissals before.
DismissedStaysAway == \A c \in candidates : <<c.id, c.version>> \notin kept

Copies(r, bag) == IF BagIn(r, bag) THEN bag[r] ELSE 0

\* Whatever is learned and forgotten at once, the count of a response is that of its
\* clicks and of the commands credited with it; a command that was taken back is
\* among them only where the undo overtook the learning.
CountsAreCredits ==
    /\ \A r \in DOMAIN counts \cup Range(credited) \cup DOMAIN clicks :
          Copies(r, counts) = Copies(r, clicks)
                              + Cardinality({n \in DOMAIN credited : credited[n] = r})
    /\ DOMAIN credited \cap forgotten \subseteq early

\* "Dismiss until the cause changes" (frontend/src/pages/Insights.jsx:72): what is
\* kept from the page was dismissed for the cause it has.
DismissedForItsCause ==
    \A o \in OffersNow :
        <<o.id, o.version>> \in dismissed => <<o.id, o.version, o.cause>> \in causes
=============================================================================
