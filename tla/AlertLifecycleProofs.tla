------------------------- MODULE AlertLifecycleProofs -------------------------
(* The invariants of AlertLifecycle and its rule about muted devices, for any  *)
(* devices, metrics, severities, capacity of the log, number of readings and   *)
(* of commands.                                                                *)
EXTENDS AlertLifecycle, FiniteSetTheorems, TLAPS

\* What the consumer is at: the checks of a reading, or the calls for one check.
Raises == {"log", "mutetest", "announce"}
Clears == {"unacknowledge", "unlog"}
Checking == [at : {"check"}, reading : Reading, todo : (SUBSET Metrics) \ {{}}]
Working == [at : Raises \cup Clears, reading : Reading, todo : (SUBSET Metrics) \ {{}},
            metric : Metrics]

\* The check the consumer is at is one it has to do.
AtOwnCheck == consumer.at \in Raises \cup Clears => consumer.metric \in consumer.todo

\* The log is exact, and what it is told next is the alert that was raised last.
LogInv ==
    /\ LogMatchesActive /\ RecentIsLastEpisodes
    /\ consumer.at = "log" => episodes # <<>> /\ episodes[Len(episodes)] = CurrentKey

\* An alert that is about to be announced was not announced yet.
Pending(k) == IF consumer.at \in Raises /\ CurrentKey = k THEN 1 ELSE 0
CountInv == \A k \in Keys : Occurrences(k, sent) + Pending(k) <= Occurrences(k, episodes)

\* Between the raise and the mute's test the mute is what it was, or changed.
MuteInv ==
    LET d == consumer.reading.device
    IN  /\ consumer.at \in {"log", "mutetest"} =>
               /\ mutedSince = "muted" => d \in muted
               /\ mutedSince = "unmuted" => d \notin muted
        /\ consumer.at = "announce" => mutedSince # "muted"

\* The newest reading of a device waits, unless it is the one last applied.
Waits ==
    /\ now <= arrived
    /\ \A r \in pending :
           /\ r.at > 0 /\ r.at <= newest[r.device].at
           /\ r.at = newest[r.device].at => r.breaches \in newest[r.device].breaches
    /\ \A d \in Devices :
           /\ newest[d].at <= now /\ lastSeen[d] <= newest[d].at
           /\ lastSeen[d] < newest[d].at
                  => \E r \in pending : r.device = d /\ r.at = newest[d].at

\* The reading whose checks are under way is the one last applied, and the
\* checks that are done left its breaches active.
Applies ==
    LET r == consumer.reading
    IN  consumer # Idle =>
            /\ lastSeen[r.device] = r.at
            /\ r.at = newest[r.device].at => r.breaches \in newest[r.device].breaches
            /\ \A m \in Metrics \ consumer.todo : Key(r.device, m) \in active <=> m \in r.breaches
            /\ consumer.at \in Raises => CurrentKey \in active /\ consumer.metric \in r.breaches
            /\ consumer.at \in Clears => CurrentKey \notin active /\ consumer.metric \notin r.breaches

\* What was applied is active.
Applied ==
    \A d \in Devices :
        lastSeen[d] = newest[d].at
            => \/ consumer # Idle /\ consumer.reading.device = d
               \/ ActiveMetrics(d) \in newest[d].breaches

\* The inductive invariant.
IInv ==
    /\ TypeOK /\ AtOwnCheck /\ LogInv /\ CountInv /\ MuteInv
    /\ Waits /\ Applies /\ Applied
-----------------------------------------------------------------------------
(* The records.                                                                *)

LEMMA ReadingFacts ==
    ASSUME NEW r \in Reading
    PROVE  /\ r.device \in Devices /\ r.at \in 1 .. MaxReadings
           /\ r.breaches \in SUBSET Metrics
BY DEF Reading

LEMMA KeyFacts ==
    ASSUME NEW d \in Devices, NEW m \in Metrics
    PROVE  /\ Key(d, m) \in Keys
           /\ \A e \in Devices, n \in Metrics : Key(d, m) = Key(e, n) <=> d = e /\ m = n
BY DEF Key, Keys

\* A consumer that is inside Process.
LEMMA BusyFacts ==
    ASSUME NEW c \in Checking \cup Working
    PROVE  /\ c # Idle /\ c.at # "idle" /\ c.reading \in Reading
           /\ c.todo \in (SUBSET Metrics) \ {{}}
           /\ c \in Checking <=> c.at = "check"
           /\ c \in Working <=> c.at \in Raises \cup Clears
           /\ c \in Working => c.metric \in Metrics
<1>1. CASE c \in Checking
  BY <1>1 DEF Checking, Working, Idle, Raises, Clears
<1>2. CASE c \in Working
  BY <1>2 DEF Checking, Working, Idle, Raises, Clears
<1> QED
  BY <1>1, <1>2

LEMMA ConsumerFacts ==
    ASSUME ConsumerType
    PROVE  /\ consumer = Idle \/ consumer \in Checking \cup Working
           /\ consumer.at = "check" => consumer \in Checking
           /\ consumer.at \in Raises \cup Clears => consumer \in Working /\ CurrentKey \in Keys
           /\ consumer = Idle => consumer.at \notin Raises \cup Clears \cup {"check"}
<1>1. consumer = Idle \/ consumer \in Checking \cup Working
  BY DEF ConsumerType, Checking, Working, Raises, Clears
<1>2. consumer = Idle => consumer.at \notin Raises \cup Clears \cup {"check"}
  BY DEF Idle, Raises, Clears
<1>3. "check" \notin Raises \cup Clears
  BY DEF Raises, Clears
<1>4. ASSUME consumer \in Working PROVE CurrentKey \in Keys
  BY <1>4, BusyFacts, ReadingFacts, KeyFacts DEF CurrentKey
<1> QED
  BY <1>1, <1>2, <1>3, <1>4, BusyFacts

LEMMA ConsumerTyped ==
    ASSUME consumer = Idle \/ consumer \in Checking \cup Working
    PROVE  ConsumerType
<1>1. CASE consumer \in Checking
  BY <1>1 DEF Checking, ConsumerType
<1>2. CASE consumer \in Working
  BY <1>2 DEF Working, Raises, Clears, ConsumerType
<1> QED
  BY <1>1, <1>2 DEF ConsumerType

LEMMA NextCheckFacts ==
    ASSUME NEW c \in Checking \cup Working, NEW m \in c.todo, NEW n, n = NextCheck(c, m)
    PROVE  \/ n = Idle /\ c.todo = {m}
           \/ /\ n \in Checking /\ n.at = "check"
              /\ n.reading = c.reading /\ n.todo = c.todo \ {m}
<1>1. c.reading \in Reading /\ c.todo \in (SUBSET Metrics) \ {{}}
  BY BusyFacts
<1>2. ASSUME c.todo # {m}
      PROVE  n = [at |-> "check", reading |-> c.reading, todo |-> c.todo \ {m}]
  BY <1>2 DEF NextCheck
<1>3. ASSUME c.todo = {m} PROVE n = Idle
  BY <1>3 DEF NextCheck
<1>4. c.todo # {m} => c.todo \ {m} \in (SUBSET Metrics) \ {{}}
  BY <1>1
<1> QED
  BY <1>1, <1>2, <1>3, <1>4 DEF Checking

LEMMA FirstCheckFacts ==
    ASSUME NEW r \in Reading, NEW c, c = [at |-> "check", reading |-> r, todo |-> Metrics]
    PROVE  c \in Checking /\ c.reading = r /\ c.todo = Metrics
<1>0. Metrics # {}
  BY BoundsAssumption
<1>1. Metrics \in (SUBSET Metrics) \ {{}}
  BY <1>0, Zenon
<1>2. \A t \in (SUBSET Metrics) \ {{}} : [at |-> "check", reading |-> r, todo |-> t] \in Checking
  BY DEF Checking
<1>3. c.reading = r /\ c.todo = Metrics
  OBVIOUS
<1> QED
  BY <1>1, <1>2, <1>3, Zenon

LEMMA GoToFacts ==
    ASSUME NEW c \in Checking \cup Working, NEW m \in c.todo,
           NEW label \in Raises \cup Clears, NEW n, n = GoTo(c, m, label)
    PROVE  /\ n \in Working /\ n.at = label /\ n.metric = m
           /\ n.reading = c.reading /\ n.todo = c.todo
<1>1. c.reading \in Reading /\ c.todo \in (SUBSET Metrics) \ {{}} /\ m \in Metrics
  BY BusyFacts
<1>2. n = [at |-> label, reading |-> c.reading, todo |-> c.todo, metric |-> m]
  BY Zenon DEF GoTo
<1> QED
  BY <1>1, <1>2 DEF Working

LEMMA AtSet ==
    ASSUME NEW c \in Working, NEW label \in Raises \cup Clears,
           NEW n, n = [c EXCEPT !.at = label]
    PROVE  /\ n \in Working /\ n.at = label /\ n.metric = c.metric
           /\ n.reading = c.reading /\ n.todo = c.todo
BY DEF Working
-----------------------------------------------------------------------------
(* The sequences.                                                              *)

\* The last of a sequence.
LEMMA LastFacts ==
    ASSUME NEW s \in Seq(Keys), NEW kept \in 0 .. Len(s)
    PROVE  LET r == SubSeq(s, Len(s) - kept + 1, Len(s))
           IN  /\ r \in Seq(Keys) /\ Len(r) = kept
               /\ \A i \in 1 .. kept : r[i] = s[Len(s) - kept + i]
OBVIOUS

LEMMA AppendFacts ==
    ASSUME NEW s \in Seq(Keys), NEW k \in Keys
    PROVE  LET t == Append(s, k)
           IN  /\ t \in Seq(Keys) /\ Len(t) = Len(s) + 1 /\ t[Len(s) + 1] = k
               /\ \A i \in 1 .. Len(s) : t[i] = s[i]
               /\ Tail(t) \in Seq(Keys) /\ Len(Tail(t)) = Len(s)
               /\ \A i \in 1 .. Len(s) : Tail(t)[i] = t[i + 1]
               /\ SubSeq(t, 1, Len(t) - 1) = s
OBVIOUS

LEMMA SameSequence ==
    ASSUME NEW s \in Seq(Keys), NEW t \in Seq(Keys), Len(s) = Len(t),
           \A i \in 1 .. Len(s) : s[i] = t[i]
    PROVE  s = t
OBVIOUS

LEMMA KeptFacts ==
    ASSUME NEW l \in Nat, NEW C \in Nat \ {0}
    PROVE  LET kept == IF l > C THEN C ELSE l
           IN  kept \in 0 .. l /\ kept <= C /\ (kept < C => kept = l)
OBVIOUS

\* The last of a sequence, up to a capacity, after one more is appended.
LEMMA LastAppended ==
    ASSUME NEW s \in Seq(Keys), NEW C \in Nat \ {0}, NEW k \in Keys,
           NEW kept \in 0 .. Len(s), kept <= C, kept < C => kept = Len(s),
           NEW more \in 0 .. Len(s) + 1, more <= C, more < C => more = Len(s) + 1
    PROVE  LET r == SubSeq(s, Len(s) - kept + 1, Len(s))
               t == Append(s, k)
           IN  /\ Len(r) < C => Append(r, k) = SubSeq(t, Len(t) - more + 1, Len(t))
               /\ Len(r) >= C => Tail(Append(r, k)) = SubSeq(t, Len(t) - more + 1, Len(t))
<1> DEFINE l == Len(s)
           r == SubSeq(s, l - kept + 1, l)
           t == Append(s, k)
           u == SubSeq(t, Len(t) - more + 1, Len(t))
           a == Append(r, k)
<1>1. l \in Nat /\ kept \in 0 .. l /\ more \in 0 .. l + 1
  OBVIOUS
<1>2. r \in Seq(Keys) /\ Len(r) = kept /\ \A i \in 1 .. kept : r[i] = s[l - kept + i]
  BY LastFacts
<1>3. t \in Seq(Keys) /\ Len(t) = l + 1 /\ t[l + 1] = k /\ \A i \in 1 .. l : t[i] = s[i]
  BY AppendFacts
<1>4. /\ u \in Seq(Keys) /\ Len(u) = more
      /\ \A i \in 1 .. more : u[i] = t[l + 1 - more + i]
  <2> HIDE DEF t
  <2>1. more \in 0 .. Len(t)
    BY <1>1, <1>3
  <2> QED
    BY <1>3, <2>1, LastFacts
<1>5. /\ a \in Seq(Keys) /\ Len(a) = kept + 1 /\ a[kept + 1] = k
      /\ \A i \in 1 .. kept : a[i] = r[i]
      /\ Tail(a) \in Seq(Keys) /\ Len(Tail(a)) = kept
      /\ \A i \in 1 .. kept : Tail(a)[i] = a[i + 1]
  <2> HIDE DEF r
  <2> QED
    BY <1>2, AppendFacts
<1> HIDE DEF l, r, t, u, a
<1>6. ASSUME kept < C PROVE a = u
  <2>1. kept = l /\ more = l + 1
    BY <1>1, <1>6 DEF l
  <2>2. ASSUME NEW i \in 1 .. Len(a) PROVE a[i] = u[i]
    <3>1. CASE i = l + 1
      BY <1>1, <1>3, <1>4, <1>5, <2>1, <3>1
    <3>2. CASE i # l + 1
      <4>1. i \in 1 .. l
        BY <1>1, <1>5, <2>1, <3>2
      <4> QED
        BY <1>1, <1>2, <1>3, <1>4, <1>5, <2>1, <4>1
    <3> QED
      BY <3>1, <3>2
  <2> QED
    BY <1>4, <1>5, <2>1, <2>2, SameSequence
<1>7. ASSUME kept >= C PROVE Tail(a) = u
  <2>1. kept = C /\ more = C /\ C \in 1 .. l
    BY <1>1, <1>7 DEF l
  <2>2. ASSUME NEW i \in 1 .. kept PROVE Tail(a)[i] = u[i]
    <3>1. Tail(a)[i] = a[i + 1] /\ u[i] = t[l + 1 - kept + i]
      BY <1>4, <1>5, <2>1
    <3>2. CASE i = kept
      BY <1>1, <1>3, <1>5, <2>1, <3>1, <3>2
    <3>3. CASE i # kept
      <4>1. i + 1 \in 1 .. kept /\ l - kept + (i + 1) \in 1 .. l
        BY <1>1, <2>1, <3>3
      <4>2. a[i + 1] = s[l - kept + (i + 1)] /\ l + 1 - kept + i = l - kept + (i + 1)
        BY <1>1, <1>2, <1>5, <2>1, <4>1
      <4> QED
        BY <1>3, <3>1, <4>1, <4>2
    <3> QED
      BY <3>2, <3>3
  <2>3. Len(Tail(a)) = Len(u)
    BY <1>4, <1>5, <2>1
  <2> QED
    BY <1>4, <1>5, <2>2, <2>3, SameSequence
<1>8. Len(r) = kept /\ kept \in Nat /\ C \in Nat
  BY <1>1, <1>2
<1>9. /\ Len(r) < C => a = u
      /\ Len(r) >= C => Tail(a) = u
  BY <1>6, <1>7, <1>8
<1> QED
  BY <1>9 DEF l, r, t, u, a

\* One more in the sequence counts once, for its own key.
LEMMA CountAppended ==
    ASSUME NEW s \in Seq(Keys), NEW k \in Keys, NEW j \in Keys
    PROVE  /\ Occurrences(j, s) \in Nat
           /\ Occurrences(j, Append(s, k)) = Occurrences(j, s) + (IF j = k THEN 1 ELSE 0)
<1> DEFINE places == {i \in DOMAIN s : s[i] = j}
           more == {i \in DOMAIN Append(s, k) : Append(s, k)[i] = j}
<1>1. /\ Len(s) \in Nat /\ DOMAIN s = 1 .. Len(s)
      /\ DOMAIN Append(s, k) = 1 .. Len(s) + 1
      /\ \A i \in 1 .. Len(s) : Append(s, k)[i] = s[i]
      /\ Append(s, k)[Len(s) + 1] = k
  OBVIOUS
<1>2. IsFiniteSet(places) /\ Len(s) + 1 \notin places
  <2>1. IsFiniteSet(1 .. Len(s))
    BY <1>1, FS_Interval
  <2>2. places \subseteq 1 .. Len(s)
    BY <1>1
  <2> QED
    BY <1>1, <2>1, <2>2, FS_Subset
<1>3. more = IF j = k THEN places \cup {Len(s) + 1} ELSE places
  BY <1>1
<1>4. Occurrences(j, s) = Cardinality(places) /\ Occurrences(j, Append(s, k)) = Cardinality(more)
  BY DEF Occurrences
<1> HIDE DEF places, more
<1>5. Cardinality(places) \in Nat
  BY <1>2, FS_CardinalityType
<1>6. Cardinality(places \cup {Len(s) + 1}) = Cardinality(places) + 1
  BY <1>2, FS_AddElement
<1> QED
  BY <1>3, <1>4, <1>5, <1>6

\* What AlertLog keeps of the alerts raised.
Kept(s) == IF Len(s) > RecentCapacity THEN RecentCapacity ELSE Len(s)
LastOf(s) == SubSeq(s, Len(s) - Kept(s) + 1, Len(s))

LEMMA LastOfAppended ==
    ASSUME NEW s \in Seq(Keys), NEW k \in Keys
    PROVE  /\ LastOf(s) \in Seq(Keys) /\ Len(LastOf(s)) <= RecentCapacity
           /\ LastOf(Append(s, k)) = IF Len(LastOf(s)) < RecentCapacity
                                     THEN Append(LastOf(s), k) ELSE Tail(Append(LastOf(s), k))
<1> DEFINE t == Append(s, k)
<1>1. t \in Seq(Keys) /\ Len(t) = Len(s) + 1 /\ Len(s) \in Nat /\ RecentCapacity \in Nat \ {0}
  BY AppendFacts, BoundsAssumption
<1> HIDE DEF t
<1>2. Kept(s) \in 0 .. Len(s) /\ Kept(s) <= RecentCapacity
      /\ (Kept(s) < RecentCapacity => Kept(s) = Len(s))
  BY <1>1, KeptFacts DEF Kept
<1>3. Kept(t) \in 0 .. Len(s) + 1 /\ Kept(t) <= RecentCapacity
      /\ (Kept(t) < RecentCapacity => Kept(t) = Len(s) + 1)
  BY <1>1, KeptFacts DEF Kept
<1>4. LastOf(s) \in Seq(Keys) /\ Len(LastOf(s)) = Kept(s)
  BY <1>2, LastFacts DEF LastOf
<1>5. /\ Len(LastOf(s)) < RecentCapacity => Append(LastOf(s), k) = LastOf(t)
      /\ Len(LastOf(s)) >= RecentCapacity => Tail(Append(LastOf(s), k)) = LastOf(t)
  BY <1>1, <1>2, <1>3, LastAppended DEF LastOf, t
<1>6. Kept(s) \in Nat
  BY <1>1, <1>2
<1>7. CASE Kept(s) < RecentCapacity
  BY <1>2, <1>4, <1>5, <1>7 DEF t
<1>8. CASE ~ (Kept(s) < RecentCapacity)
  <2>1. Len(LastOf(s)) >= RecentCapacity
    BY <1>1, <1>4, <1>6, <1>8
  <2> QED
    BY <1>2, <1>4, <1>5, <1>8, <2>1 DEF t
<1> QED
  BY <1>7, <1>8

LEMMA FrontAppended ==
    ASSUME NEW s \in Seq(Keys), s # <<>>
    PROVE  /\ SubSeq(s, 1, Len(s) - 1) \in Seq(Keys)
           /\ Append(SubSeq(s, 1, Len(s) - 1), s[Len(s)]) = s
           /\ s[Len(s)] \in Keys
OBVIOUS
-----------------------------------------------------------------------------
(* What a step leaves alone stays as it was.                                   *)

LEMMA Untouched ==
    ASSUME IInv
    PROVE  /\ UNCHANGED consumer => AtOwnCheck'
           /\ UNCHANGED <<active, logged, recent, episodes, consumer>> => LogInv'
           /\ UNCHANGED <<sent, episodes, consumer>> => CountInv'
           /\ UNCHANGED <<muted, mutedSince, consumer>> => MuteInv'
           /\ UNCHANGED <<pending, newest, lastSeen, now, arrived>> => Waits'
           /\ UNCHANGED <<consumer, lastSeen, newest, active>> => Applies' /\ Applied'
<1>1. UNCHANGED consumer => AtOwnCheck'
  BY DEF IInv, AtOwnCheck
<1>2. UNCHANGED <<active, logged, recent, episodes, consumer>> => LogInv'
  <2>1. UNCHANGED <<active, logged, consumer>> => LogMatchesActive'
    BY Zenon DEF IInv, LogInv, LogMatchesActive, CurrentKey
  <2>2. UNCHANGED <<recent, episodes, consumer>> => RecentIsLastEpisodes'
    BY Zenon DEF IInv, LogInv, RecentIsLastEpisodes
  <2> QED
    BY <2>1, <2>2, Zenon DEF IInv, LogInv, CurrentKey
<1>3. UNCHANGED <<sent, episodes, consumer>> => CountInv'
  BY Zenon DEF IInv, CountInv, Pending, CurrentKey, Occurrences
<1>4. UNCHANGED <<muted, mutedSince, consumer>> => MuteInv'
  BY Zenon DEF IInv, MuteInv
<1>5. UNCHANGED <<pending, newest, lastSeen, now, arrived>> => Waits'
  BY Zenon DEF IInv, Waits
<1>6. UNCHANGED <<consumer, lastSeen, newest, active>> => Applies'
  BY Zenon DEF IInv, Applies, CurrentKey
<1>7. UNCHANGED <<consumer, lastSeen, newest, active>> => Applied'
  BY Zenon DEF IInv, Applied, ActiveMetrics
<1> QED
  BY <1>1, <1>2, <1>3, <1>4, <1>5, <1>6, <1>7

\* A step of the consumer for metric m, after which the alert is active when the
\* reading breaches: what was applied and is being applied is as it should be.
LEMMA CheckKept ==
    ASSUME IInv, consumer \in Checking \cup Working, NEW m \in consumer.todo,
           UNCHANGED <<lastSeen, newest>>,
           \A k \in Keys : k # Key(consumer.reading.device, m) => (k \in active' <=> k \in active),
           Key(consumer.reading.device, m) \in active' <=> m \in consumer.reading.breaches,
           \/ consumer' = NextCheck(consumer, m)
           \/ /\ consumer' \in Working /\ consumer'.metric = m
              /\ consumer'.reading = consumer.reading /\ consumer'.todo = consumer.todo
              /\ consumer'.at \in Raises <=> m \in consumer.reading.breaches
    PROVE  Applies' /\ Applied' /\ AtOwnCheck' /\ ConsumerType'
<1>0. PICK r \in Reading : r = consumer.reading
  BY BusyFacts
<1>1. /\ r.device \in Devices /\ r.breaches \in SUBSET Metrics
      /\ consumer.todo \in (SUBSET Metrics) \ {{}} /\ m \in Metrics /\ consumer # Idle
  BY <1>0, BusyFacts, ReadingFacts
<1>2. /\ lastSeen'[r.device] = r.at
      /\ r.at = newest'[r.device].at => r.breaches \in newest'[r.device].breaches
  BY <1>0, <1>1 DEF IInv, Applies
<1>3. \A e \in Metrics \ (consumer.todo \ {m}) : Key(r.device, e) \in active' <=> e \in r.breaches
  <2>1. ASSUME NEW e \in Metrics \ consumer.todo
        PROVE  Key(r.device, e) \in active' <=> e \in r.breaches
    <3>1. Key(r.device, e) \in Keys /\ Key(r.device, e) # Key(r.device, m)
      BY <1>1, KeyFacts
    <3>2. Key(r.device, e) \in active <=> e \in r.breaches
      BY <1>0, <1>1 DEF IInv, Applies
    <3> QED
      BY <1>0, <3>1, <3>2
  <2> QED
    BY <1>0, <1>1, <2>1
<1>4. ASSUME NEW d \in Devices, d # r.device, lastSeen'[d] = newest'[d].at
      PROVE  ActiveMetrics(d)' \in newest'[d].breaches
  <2>1. ActiveMetrics(d)' = ActiveMetrics(d)
    <3>1. \A e \in Metrics : Key(d, e) \in Keys /\ Key(d, e) # Key(r.device, m)
      BY <1>1, <1>4, KeyFacts
    <3>2. ActiveMetrics(d)' = {e \in Metrics : Key(d, e) \in active'}
      BY Zenon DEF ActiveMetrics, Key
    <3>3. \A e \in Metrics : Key(d, e) \in active' <=> Key(d, e) \in active
      BY <1>0, <3>1
    <3>4. {e \in Metrics : Key(d, e) \in active'} = {e \in Metrics : Key(d, e) \in active}
      BY <3>3
    <3> QED
      BY <3>2, <3>4 DEF ActiveMetrics
  <2>2. ActiveMetrics(d) \in newest[d].breaches
    BY <1>0, <1>4 DEF IInv, Applied
  <2> QED
    BY <2>1, <2>2
<1>5. CASE consumer' = Idle /\ consumer.todo = {m}
  <2>1. ActiveMetrics(r.device)' = r.breaches
    <3>1. ActiveMetrics(r.device)' = {e \in Metrics : Key(r.device, e) \in active'}
      BY Zenon DEF ActiveMetrics, Key
    <3> QED
      BY <1>1, <1>3, <1>5, <3>1
  <2>2. Applied'
    BY <1>1, <1>2, <1>4, <2>1 DEF Applied
  <2>3. Applies' /\ AtOwnCheck' /\ ConsumerType'
    BY <1>5, ConsumerFacts DEF Applies, AtOwnCheck, ConsumerType, Idle, Raises, Clears
  <2> QED
    BY <2>2, <2>3
<1>6. CASE /\ consumer' \in Checking /\ consumer'.at = "check"
           /\ consumer'.reading = r /\ consumer'.todo = consumer.todo \ {m}
  <2>1. consumer' # Idle /\ consumer'.at \notin Raises \cup Clears
    BY <1>6 DEF Idle, Raises, Clears, Checking
  <2>2. Applied'
    BY <1>4, <1>6, <2>1 DEF Applied
  <2>3. Applies'
    BY <1>2, <1>3, <1>6, <2>1 DEF Applies
  <2>4. AtOwnCheck' /\ ConsumerType'
    BY <1>6, <2>1 DEF AtOwnCheck, ConsumerType, Checking
  <2> QED
    BY <2>2, <2>3, <2>4
<1>7. CASE /\ consumer' \in Working /\ consumer'.metric = m
           /\ consumer'.reading = r /\ consumer'.todo = consumer.todo
           /\ consumer'.at \in Raises <=> m \in r.breaches
  <2>1. consumer' # Idle /\ consumer'.at \in Raises \cup Clears
        /\ (consumer'.at \in Clears => consumer'.at \notin Raises)
    BY <1>7 DEF Idle, Raises, Clears, Working
  <2>2. Applied'
    BY <1>4, <1>7, <2>1 DEF Applied
  <2>3. CurrentKey' = Key(r.device, m)
    BY <1>7, Zenon DEF CurrentKey, Key
  <2>4. Applies'
    BY <1>1, <1>2, <1>3, <1>7, <2>1, <2>3 DEF Applies
  <2>5. AtOwnCheck' /\ ConsumerType'
    BY <1>7, <2>1 DEF AtOwnCheck, ConsumerType, Working, Raises, Clears
  <2> QED
    BY <2>2, <2>4, <2>5
<1> QED
  BY <1>5, <1>6, <1>7, <1>0, NextCheckFacts

\* What the invariant says of the log, and how it is established.
Front(s) == SubSeq(s, 1, Len(s) - 1)

LEMMA LogFacts ==
    ASSUME LogInv
    PROVE  /\ consumer.at = "log" =>
                  /\ active = logged \cup {CurrentKey} /\ recent = LastOf(Front(episodes))
                  /\ episodes # <<>> /\ episodes[Len(episodes)] = CurrentKey
           /\ consumer.at \in Clears => CurrentKey \notin active /\ logged = active \cup {CurrentKey}
           /\ consumer.at \notin {"log"} \cup Clears => logged = active
           /\ consumer.at # "log" => recent = LastOf(episodes)
<1>1. consumer.at # "log" => recent = LastOf(episodes)
  BY Zenon DEF LogInv, RecentIsLastEpisodes, LastOf, Kept
<1>2. consumer.at = "log" => recent = LastOf(Front(episodes))
  BY Zenon DEF LogInv, RecentIsLastEpisodes, LastOf, Kept, Front
<1>3. /\ consumer.at = "log" => active = logged \cup {CurrentKey}
      /\ consumer.at \in Clears => CurrentKey \notin active /\ logged = active \cup {CurrentKey}
      /\ consumer.at \notin {"log"} \cup Clears => logged = active
  BY DEF LogInv, LogMatchesActive, Clears
<1> QED
  BY <1>1, <1>2, <1>3 DEF LogInv

LEMMA LogNext ==
    ASSUME \/ /\ consumer'.at \notin {"log"} \cup Clears
              /\ logged' = active' /\ recent' = LastOf(episodes')
           \/ /\ consumer'.at \in Clears /\ CurrentKey' \notin active'
              /\ logged' = active' \cup {CurrentKey'} /\ recent' = LastOf(episodes')
           \/ /\ consumer'.at = "log" /\ CurrentKey' \notin logged'
              /\ active' = logged' \cup {CurrentKey'} /\ recent' = LastOf(Front(episodes'))
              /\ episodes' # <<>> /\ episodes'[Len(episodes')] = CurrentKey'
    PROVE  LogInv'
<1>1. consumer'.at # "log" /\ recent' = LastOf(episodes') => RecentIsLastEpisodes'
  BY Zenon DEF RecentIsLastEpisodes, LastOf, Kept
<1>2. consumer'.at = "log" /\ recent' = LastOf(Front(episodes')) => RecentIsLastEpisodes'
  BY Zenon DEF RecentIsLastEpisodes, LastOf, Kept, Front
<1>3. "log" \notin Clears
  BY DEF Clears
<1>4. RecentIsLastEpisodes'
  BY <1>1, <1>2, <1>3
<1>5. LogMatchesActive'
  BY <1>3 DEF LogMatchesActive, Clears
<1> QED
  BY <1>3, <1>4, <1>5 DEF LogInv

\* Nothing is pending of a consumer that raises nothing.
LEMMA CountNext ==
    ASSUME IInv, UNCHANGED <<sent, episodes>>,
           \/ consumer'.at \notin Raises
           \/ consumer.at \in Raises /\ CurrentKey' = CurrentKey
    PROVE  CountInv'
<1> SUFFICES ASSUME NEW k \in Keys
             PROVE  Occurrences(k, sent) + Pending(k)' <= Occurrences(k, episodes)
  BY Zenon DEF CountInv, Occurrences
<1>1. Occurrences(k, sent) \in Nat /\ Occurrences(k, episodes) \in Nat
  BY CountAppended DEF IInv, TypeOK
<1>2. Occurrences(k, sent) + Pending(k) <= Occurrences(k, episodes)
  BY DEF IInv, CountInv
<1>3. Pending(k) \in {0, 1} /\ Pending(k)' \in {0, 1}
  BY DEF Pending
<1>4. Pending(k)' = 0 \/ Pending(k)' = Pending(k)
  BY DEF Pending
<1> QED
  BY <1>1, <1>2, <1>3, <1>4

\* A consumer that is at no raise has no mute to follow.
LEMMA MuteNext ==
    ASSUME consumer'.at \notin Raises
    PROVE  MuteInv'
BY DEF MuteInv, Raises

LEMMA Inert ==
    ASSUME consumer' = Idle \/ consumer'.at = "check"
    PROVE  consumer'.at \notin Raises \cup Clears \cup {"log"}
BY DEF Idle, Raises, Clears
-----------------------------------------------------------------------------
(* The steps.                                                                  *)

LEMMA Initially == Init => IInv
<1> SUFFICES ASSUME Init PROVE IInv
  OBVIOUS
<1>1. consumer.at \notin Raises \cup Clears \cup {"log"} /\ consumer = Idle
  BY DEF Init, Idle, Raises, Clears
<1>2. \A k \in Keys : Occurrences(k, <<>>) = 0
  <2>1. \A k : {i \in DOMAIN <<>> : <<>>[i] = k} = {}
    OBVIOUS
  <2> QED
    BY <2>1, FS_EmptySet DEF Occurrences
<1>3. TypeOK
  <2>1. /\ 0 \in 0 .. MaxReadings /\ 0 \in 0 .. MaxCommands
        /\ <<>> \in Seq(Keys) /\ Len(<<>>) <= RecentCapacity
    BY BoundsAssumption
  <2>2. newest \in [Devices -> [at : 0 .. MaxReadings, breaches : SUBSET SUBSET Metrics]]
    BY <2>1 DEF Init
  <2> QED
    BY <2>1, <2>2 DEF Init, TypeOK, ConsumerType, CommandType
<1>4. AtOwnCheck
  BY <1>1 DEF AtOwnCheck
<1>5. LogInv
  <2>1. recent = LastOf(episodes)
    BY BoundsAssumption DEF Init, LastOf, Kept
  <2> QED
    BY <1>1, <2>1 DEF Init, LogInv, LogMatchesActive, RecentIsLastEpisodes, LastOf, Kept, Clears
<1>6. CountInv
  BY <1>1, <1>2 DEF Init, CountInv, Pending
<1>7. MuteInv
  BY <1>1 DEF MuteInv, Raises
<1>8. Waits
  <2>1. now <= arrived
    BY DEF Init
  <2> QED
    BY <2>1 DEF Init, Waits
<1>9. Applies
  BY <1>1 DEF Applies
<1>10. Applied
  BY DEF Init, Applied, ActiveMetrics
<1> QED
  BY <1>3, <1>4, <1>5, <1>6, <1>7, <1>8, <1>9, <1>10 DEF IInv

LEMMA IngestStep ==
    ASSUME IInv, NEW d \in Devices, NEW b \in SUBSET Metrics, NEW sev \in 0 .. MaxSeverity,
           Ingest(d, b, sev)
    PROVE  IInv'
<1>1. PICK t \in {now, now + 1} \ {0} :
         /\ now' = t
         /\ pending' = pending \cup {[seq |-> arrived + 1, sev |-> sev, device |-> d,
                                      at |-> t, breaches |-> b]}
         /\ newest' = [newest EXCEPT ![d] =
                          [at |-> t, breaches |-> IF @.at = t THEN @.breaches \cup {b} ELSE {b}]]
  BY Zenon DEF Ingest
<1>2. /\ arrived < MaxReadings /\ arrived' = arrived + 1
      /\ UNCHANGED <<lastSeen, alertVars, consumer, command, issued, historyVars>>
  BY DEF Ingest
<1> DEFINE reading == [seq |-> arrived + 1, sev |-> sev, device |-> d, at |-> t, breaches |-> b]
           old == newest[d]
<1>3. t \in 1 .. MaxReadings /\ now \in Nat /\ arrived \in Nat /\ now <= t /\ t <= arrived + 1
  <2>1. now \in Nat /\ arrived \in Nat /\ MaxReadings \in Nat /\ now <= arrived
    BY BoundsAssumption DEF IInv, TypeOK, Waits
  <2> QED
    BY <1>1, <1>2, <2>1
<1>4. reading \in Reading /\ reading.at = t /\ reading.device = d /\ reading.breaches = b
  <2>1. arrived + 1 \in 1 .. MaxReadings
    BY <1>2, <1>3, BoundsAssumption
  <2> QED
    BY <1>3, <2>1 DEF Reading
<1>5. /\ \A e \in Devices : newest[e].at \in 0 .. MaxReadings
                            /\ newest[e].breaches \in SUBSET SUBSET Metrics
      /\ \A e \in Devices : lastSeen[e] \in Nat
      /\ \A e \in Devices : newest[e].at <= now /\ lastSeen[e] <= newest[e].at
  BY BoundsAssumption DEF IInv, TypeOK, Waits
<1>6. /\ newest' \in [Devices -> [at : 0 .. MaxReadings, breaches : SUBSET SUBSET Metrics]]
      /\ newest'[d].at = t /\ b \in newest'[d].breaches
      /\ t = newest[d].at => newest[d].breaches \subseteq newest'[d].breaches
      /\ \A e \in Devices \ {d} : newest'[e] = newest[e]
  <2>1. PICK x : x = (IF newest[d].at = t THEN newest[d].breaches \cup {b} ELSE {b})
    OBVIOUS
  <2>2. /\ x \in SUBSET SUBSET Metrics /\ b \in x
        /\ t = newest[d].at => newest[d].breaches \subseteq x
    BY <1>5, <2>1
  <2>3. newest' = [newest EXCEPT ![d] = [at |-> t, breaches |-> x]]
    BY <1>1, <2>1, Zenon
  <2>4. newest \in [Devices -> [at : 0 .. MaxReadings, breaches : SUBSET SUBSET Metrics]]
    BY DEF IInv, TypeOK
  <2>5. [at |-> t, breaches |-> x] \in [at : 0 .. MaxReadings, breaches : SUBSET SUBSET Metrics]
    BY <1>3, <2>2
  <2>6. newest'[d] = [at |-> t, breaches |-> x]
    BY <2>3, <2>4
  <2> QED
    BY <2>2, <2>3, <2>4, <2>5, <2>6
<1>7. pending' = pending \cup {reading}
  BY <1>1
<1> HIDE DEF reading
<1>8. TypeOK'
  <2>1. now' \in 0 .. MaxReadings /\ arrived' \in 0 .. MaxReadings /\ pending' \subseteq Reading
    BY <1>1, <1>2, <1>3, <1>4, <1>7, BoundsAssumption DEF IInv, TypeOK
  <2> QED
    BY <1>2, <1>6, <2>1, Zenon
       DEF IInv, TypeOK, ConsumerType, CommandType, alertVars, historyVars
\* A reading that was the newest of its device, or is, is among what is known of it.
<1>9. ASSUME NEW e \in Devices, NEW x \in 1 .. MaxReadings, NEW y \in SUBSET Metrics,
             x <= newest[e].at, x = newest[e].at => y \in newest[e].breaches
      PROVE  x <= newest'[e].at /\ (x = newest'[e].at => y \in newest'[e].breaches)
  <2>1. CASE e = d
    BY <1>3, <1>5, <1>6, <1>9, <2>1
  <2>2. CASE e # d
    BY <1>6, <1>9, <2>2
  <2> QED
    BY <2>1, <2>2
<1>10. Waits'
  <2>1. ASSUME NEW r \in pending'
        PROVE  /\ r.at > 0 /\ r.at <= newest'[r.device].at
               /\ r.at = newest'[r.device].at => r.breaches \in newest'[r.device].breaches
    <3>1. CASE r = reading
      BY <1>3, <1>4, <1>6, <3>1
    <3>2. CASE r # reading
      <4>1. r \in pending /\ r \in Reading
        BY <1>7, <3>2 DEF IInv, TypeOK
      <4> QED
        BY <1>9, <4>1, ReadingFacts DEF IInv, Waits
    <3> QED
      BY <3>1, <3>2
  <2>2. ASSUME NEW e \in Devices
        PROVE  /\ newest'[e].at <= now' /\ lastSeen'[e] <= newest'[e].at
               /\ lastSeen'[e] < newest'[e].at
                      => \E r \in pending' : r.device = e /\ r.at = newest'[e].at
    <3>1. CASE e = d
      BY <1>1, <1>2, <1>3, <1>4, <1>5, <1>6, <1>7, <3>1
    <3>2. CASE e # d
      BY <1>1, <1>2, <1>3, <1>5, <1>6, <1>7, <3>2 DEF IInv, Waits
    <3> QED
      BY <3>1, <3>2
  <2>3. now' <= arrived'
    BY <1>1, <1>2, <1>3
  <2> QED
    BY <2>1, <2>2, <2>3 DEF Waits
<1>11. Applies'
  <2>1. CASE consumer = Idle
    BY <1>2, <2>1 DEF Applies
  <2>2. CASE consumer # Idle
    <3>1. PICK r \in Reading : r = consumer.reading
      BY <2>2, ConsumerFacts, BusyFacts DEF IInv, TypeOK
    <3>2. /\ lastSeen[r.device] = r.at
          /\ r.at = newest[r.device].at => r.breaches \in newest[r.device].breaches
          /\ \A m \in Metrics \ consumer.todo : Key(r.device, m) \in active <=> m \in r.breaches
          /\ consumer.at \in Raises => CurrentKey \in active /\ consumer.metric \in r.breaches
          /\ consumer.at \in Clears => CurrentKey \notin active /\ consumer.metric \notin r.breaches
      BY <2>2, <3>1, Zenon DEF IInv, Applies
    <3>3. r.at = newest'[r.device].at => r.breaches \in newest'[r.device].breaches
      BY <1>5, <1>9, <3>2, ReadingFacts
    <3>4. consumer' = consumer /\ lastSeen' = lastSeen /\ active' = active /\ CurrentKey' = CurrentKey
      BY <1>2, Zenon DEF alertVars, CurrentKey
    <3> QED
      BY <3>1, <3>2, <3>3, <3>4, Zenon DEF Applies
  <2> QED
    BY <2>1, <2>2
<1>12. Applied'
  <2> SUFFICES ASSUME NEW e \in Devices, lastSeen'[e] = newest'[e].at
               PROVE  \/ consumer' # Idle /\ consumer'.reading.device = e
                      \/ ActiveMetrics(e)' \in newest'[e].breaches
    BY Zenon DEF Applied, ActiveMetrics
  <2>1. lastSeen[e] = newest[e].at /\ newest[e].breaches \subseteq newest'[e].breaches
    <3>1. CASE e = d
      BY <1>2, <1>3, <1>5, <1>6, <3>1
    <3>2. CASE e # d
      BY <1>2, <1>6, <3>2
    <3> QED
      BY <3>1, <3>2
  <2>2. consumer' = consumer /\ ActiveMetrics(e)' = ActiveMetrics(e)
    BY <1>2, Zenon DEF alertVars, ActiveMetrics
  <2> QED
    BY <2>1, <2>2 DEF IInv, Applied
<1> QED
  BY <1>2, <1>8, <1>10, <1>11, <1>12, Untouched, Zenon DEF IInv, alertVars, historyVars

LEMMA TakeStep ==
    ASSUME IInv, Take
    PROVE  IInv'
<1>1. PICK r \in pending :
         /\ pending' = pending \ {r}
         /\ IF r.at > lastSeen[r.device]
            THEN /\ lastSeen' = [lastSeen EXCEPT ![r.device] = r.at]
                 /\ consumer' = [at |-> "check", reading |-> r, todo |-> Metrics]
            ELSE UNCHANGED <<lastSeen, consumer>>
  BY Zenon DEF Take
<1>2. /\ consumer = Idle
      /\ UNCHANGED <<now, arrived, alertVars, command, issued, historyVars, newest>>
  BY DEF Take
<1>3. r \in Reading /\ r.device \in Devices /\ r.at \in 1 .. MaxReadings /\ r.breaches \in SUBSET Metrics
  BY <1>1, ReadingFacts DEF IInv, TypeOK
<1>4. /\ r.at <= newest[r.device].at
      /\ r.at = newest[r.device].at => r.breaches \in newest[r.device].breaches
  BY <1>1 DEF IInv, Waits
<1>5. CASE ~ (r.at > lastSeen[r.device])
  <2>1. UNCHANGED <<lastSeen, consumer>>
    BY <1>1, <1>5, Zenon
  <2>2. lastSeen[r.device] \in Nat /\ r.at \in Nat /\ newest[r.device].at \in Nat
    BY <1>3, BoundsAssumption DEF IInv, TypeOK
  <2>3. Waits'
    <3> SUFFICES ASSUME NEW d \in Devices, lastSeen[d] < newest[d].at
                 PROVE  \E q \in pending' : q.device = d /\ q.at = newest[d].at
      BY <1>1, <1>2, <2>1 DEF IInv, Waits
    <3>1. PICK q \in pending : q.device = d /\ q.at = newest[d].at
      BY DEF IInv, Waits
    <3>2. q # r
      BY <1>5, <2>2, <3>1
    <3> QED
      BY <1>1, <3>1, <3>2
  <2>4. TypeOK'
    BY <1>1, <1>2, <2>1, Zenon
       DEF IInv, TypeOK, ConsumerType, CommandType, alertVars, historyVars
  <2> QED
    BY <1>2, <2>1, <2>3, <2>4, Untouched, Zenon DEF IInv, alertVars, historyVars
<1>6. CASE r.at > lastSeen[r.device]
  <2>1. /\ lastSeen' = [lastSeen EXCEPT ![r.device] = r.at]
        /\ consumer' = [at |-> "check", reading |-> r, todo |-> Metrics]
    BY <1>1, <1>6, Zenon
  <2>2. /\ consumer' \in Checking /\ consumer'.at = "check" /\ consumer' # Idle
        /\ consumer'.reading = r /\ consumer'.todo = Metrics
    <3>1. consumer' \in Checking /\ consumer'.reading = r /\ consumer'.todo = Metrics
      BY <1>3, <2>1, FirstCheckFacts
    <3> QED
      BY <3>1, BusyFacts
  <2>3. /\ lastSeen'[r.device] = r.at /\ lastSeen' \in [Devices -> 0 .. MaxReadings]
        /\ \A d \in Devices \ {r.device} : lastSeen'[d] = lastSeen[d]
        /\ \A d \in Devices : lastSeen[d] \in Nat /\ newest[d].at \in Nat
        /\ r.at \in Nat
    BY <1>3, <2>1, BoundsAssumption DEF IInv, TypeOK
  <2>4. consumer'.at \notin Raises \cup Clears \cup {"log"}
    BY <2>2, Inert
  <2>5. TypeOK'
    <3>1. ConsumerType'
      BY <2>2 DEF Checking, ConsumerType
    <3> QED
      BY <1>1, <1>2, <2>3, <3>1, Zenon DEF IInv, TypeOK, CommandType, alertVars, historyVars
  <2>6. Waits'
    <3>1. ASSUME NEW d \in Devices
          PROVE  /\ newest[d].at <= now /\ lastSeen'[d] <= newest[d].at
                 /\ lastSeen'[d] < newest[d].at
                        => \E q \in pending' : q.device = d /\ q.at = newest[d].at
      <4>1. newest[d].at <= now /\ lastSeen'[d] <= newest[d].at
        BY <1>4, <2>3 DEF IInv, Waits
      <4>2. ASSUME lastSeen'[d] < newest[d].at
            PROVE  \E q \in pending' : q.device = d /\ q.at = newest[d].at
        <5>1. lastSeen[d] < newest[d].at
          <6>1. CASE d = r.device
            BY <1>6, <2>3, <4>2, <6>1
          <6>2. CASE d # r.device
            BY <2>3, <4>2, <6>2
          <6> QED
            BY <6>1, <6>2
        <5>2. PICK q \in pending : q.device = d /\ q.at = newest[d].at
          BY <5>1 DEF IInv, Waits
        <5>3. q # r
          BY <2>3, <4>2, <5>2
        <5> QED
          BY <1>1, <5>2, <5>3
      <4> QED
        BY <4>1, <4>2
    <3> QED
      BY <1>1, <1>2, <3>1 DEF IInv, Waits
  <2>7. Applies'
    BY <1>2, <1>4, <2>2, <2>3, <2>4 DEF Applies
  <2>8. Applied'
    <3> SUFFICES ASSUME NEW d \in Devices \ {r.device}, lastSeen'[d] = newest'[d].at
                 PROVE  ActiveMetrics(d)' \in newest'[d].breaches
      BY <2>2, Zenon DEF Applied, ActiveMetrics
    <3>1. ActiveMetrics(d)' = ActiveMetrics(d)
      BY <1>2, Zenon DEF alertVars, ActiveMetrics
    <3> QED
      BY <1>2, <2>3, <3>1 DEF IInv, Applied
  <2>9. AtOwnCheck' /\ MuteInv' /\ CountInv'
    <3>1. UNCHANGED <<sent, episodes>>
      BY <1>2, Zenon DEF historyVars
    <3> QED
      BY <2>4, <3>1, CountNext, MuteNext DEF AtOwnCheck
  <2>10. LogInv'
    <3>1. logged' = logged /\ active' = active /\ recent' = recent /\ episodes' = episodes
      BY <1>2, Zenon DEF alertVars, historyVars
    <3>2. consumer.at \notin Raises \cup Clears \cup {"log"}
      BY <1>2 DEF Idle, Raises, Clears
    <3>3. logged = active /\ recent = LastOf(episodes)
      BY <3>2, LogFacts DEF IInv
    <3>4. recent' = LastOf(episodes')
      BY <3>1, <3>3, Zenon
    <3> QED
      BY <2>4, <3>1, <3>3, <3>4, LogNext
  <2> QED
    BY <2>5, <2>6, <2>7, <2>8, <2>9, <2>10 DEF IInv
<1> QED
  BY <1>5, <1>6

\* What every step of the consumer after Take starts from, and leaves alone.
LEMMA Processing ==
    ASSUME IInv, consumer.at \in Raises \cup Clears \cup {"check"}
    PROVE  /\ consumer \in Checking \cup Working
           /\ consumer.at = "check" => \A m \in consumer.todo :
                  /\ m \in Metrics /\ Key(consumer.reading.device, m) \in Keys
           /\ consumer.at \in Raises \cup Clears =>
                  /\ consumer \in Working /\ consumer.metric \in consumer.todo
                  /\ CurrentKey \in Keys
                  /\ CurrentKey = Key(consumer.reading.device, consumer.metric)
                  /\ consumer.at \in Raises => CurrentKey \in active
                                               /\ consumer.metric \in consumer.reading.breaches
                  /\ consumer.at \in Clears => CurrentKey \notin active
                                               /\ consumer.metric \notin consumer.reading.breaches
           /\ "log" \in Raises /\ Raises \cap Clears = {}
<1>1. ConsumerType /\ AtOwnCheck /\ Applies
  BY DEF IInv, TypeOK
<1>2. consumer \in Checking \cup Working
  BY <1>1, ConsumerFacts
<1>3. consumer # Idle
  BY <1>2, BusyFacts
<1>4. \A m \in consumer.todo : m \in Metrics /\ Key(consumer.reading.device, m) \in Keys
  BY <1>2, BusyFacts, ReadingFacts, KeyFacts
<1>5. /\ consumer.at \in Raises => CurrentKey \in active
                                   /\ consumer.metric \in consumer.reading.breaches
      /\ consumer.at \in Clears => CurrentKey \notin active
                                   /\ consumer.metric \notin consumer.reading.breaches
  BY <1>1, <1>3, Zenon DEF Applies
<1>6. CurrentKey = Key(consumer.reading.device, consumer.metric)
  BY Zenon DEF CurrentKey
<1>7. "log" \in Raises /\ Raises \cap Clears = {}
  BY DEF Raises, Clears
<1> QED
  BY <1>1, <1>2, <1>4, <1>5, <1>6, <1>7, ConsumerFacts DEF AtOwnCheck

LEMMA LogRaisedStep ==
    ASSUME IInv, LogRaised
    PROVE  IInv'
<1>1. /\ consumer.at = "log"
      /\ logged' = logged \cup {CurrentKey}
      /\ recent' = IF Len(recent) < RecentCapacity
                   THEN Append(recent, CurrentKey) ELSE Tail(Append(recent, CurrentKey))
      /\ consumer' = [consumer EXCEPT !.at = "mutetest"]
      /\ UNCHANGED <<now, arrived, pending, lastSeen, active, acknowledged, muted,
                     command, issued, historyVars, newest>>
  BY Zenon DEF LogRaised
<1>2. UNCHANGED <<sent, episodes, mutedSince>>
  BY <1>1, Zenon DEF historyVars
<1>3. /\ consumer \in Working /\ consumer.metric \in consumer.todo /\ CurrentKey \in Keys
      /\ CurrentKey \in active /\ consumer.metric \in consumer.reading.breaches
      /\ CurrentKey = Key(consumer.reading.device, consumer.metric)
  BY <1>1, Processing DEF Raises
<1>4. /\ consumer' \in Working /\ consumer'.at = "mutetest" /\ consumer'.metric = consumer.metric
      /\ consumer'.reading = consumer.reading /\ consumer'.todo = consumer.todo
  BY <1>1, <1>3, AtSet, SMTT(30) DEF Raises
<1>5. CurrentKey' = CurrentKey
  BY <1>4, Zenon DEF CurrentKey, Key
<1>6. recent' = LastOf(episodes) /\ recent' \in Seq(Keys) /\ Len(recent') <= RecentCapacity
  <2>1. /\ recent = LastOf(Front(episodes)) /\ episodes # <<>>
        /\ episodes[Len(episodes)] = CurrentKey /\ episodes \in Seq(Keys)
    BY <1>1, LogFacts DEF IInv, TypeOK
  <2>2. Front(episodes) \in Seq(Keys) /\ Append(Front(episodes), CurrentKey) = episodes
    BY <2>1, FrontAppended DEF Front
  <2> QED
    BY <1>1, <1>3, <2>1, <2>2, LastOfAppended
<1>7. Applies' /\ Applied' /\ AtOwnCheck' /\ ConsumerType'
  <2>1. consumer'.at \in Raises
    BY <1>4 DEF Raises
  <2> QED
    BY <1>1, <1>3, <1>4, <2>1, CheckKept
<1>8. TypeOK'
  <2>1. logged' \subseteq Keys
    BY <1>1, <1>3 DEF IInv, TypeOK
  <2> QED
    BY <1>1, <1>2, <1>6, <1>7, <2>1, Zenon DEF IInv, TypeOK, CommandType
<1>9. LogInv'
  <2>1. active = logged \cup {CurrentKey}
    BY <1>1, LogFacts DEF IInv
  <2>2. consumer'.at \notin {"log"} \cup Clears
    BY <1>4 DEF Clears
  <2>3. recent' = LastOf(episodes')
    BY <1>2, <1>6, Zenon
  <2> QED
    BY <1>1, <2>1, <2>2, <2>3, LogNext
<1>10. CountInv'
  BY <1>1, <1>2, <1>5, CountNext DEF Raises
<1>11. MuteInv'
  BY <1>1, <1>2, <1>4 DEF IInv, MuteInv
<1>12. Waits'
  BY <1>1, Untouched
<1> QED
  BY <1>7, <1>8, <1>9, <1>10, <1>11, <1>12 DEF IInv

LEMMA TestMutedStep ==
    ASSUME IInv, TestMuted
    PROVE  IInv' /\ (consumer'.at # "announce" => mutedSince # "unmuted")
<1>1. /\ consumer.at = "mutetest"
      /\ consumer' = IF consumer.reading.device \in muted
                     THEN NextCheck(consumer, consumer.metric)
                     ELSE [consumer EXCEPT !.at = "announce"]
      /\ UNCHANGED <<now, arrived, pending, lastSeen, alertVars, command, issued,
                     historyVars, newest>>
  BY Zenon DEF TestMuted
<1>2. UNCHANGED <<active, logged, recent, acknowledged, muted, sent, episodes, mutedSince>>
  BY <1>1, Zenon DEF historyVars, alertVars
<1>3. /\ consumer \in Working /\ consumer.metric \in consumer.todo /\ CurrentKey \in Keys
      /\ CurrentKey \in active /\ consumer.metric \in consumer.reading.breaches
      /\ CurrentKey = Key(consumer.reading.device, consumer.metric)
  BY <1>1, Processing DEF Raises
<1>4. logged = active /\ recent = LastOf(episodes)
  BY <1>1, LogFacts DEF IInv, Clears
<1>5. /\ mutedSince = "muted" => consumer.reading.device \in muted
      /\ mutedSince = "unmuted" => consumer.reading.device \notin muted
  BY <1>1 DEF IInv, MuteInv
<1>6. recent' = LastOf(episodes')
  BY <1>2, <1>4, Zenon
<1>7. ASSUME Applies', Applied', AtOwnCheck', ConsumerType', CountInv', MuteInv',
             consumer'.at \notin {"log"} \cup Clears
      PROVE  IInv'
  <2>1. TypeOK'
    BY <1>1, <1>2, <1>7, Zenon DEF IInv, TypeOK, CommandType
  <2>2. LogInv'
    BY <1>2, <1>4, <1>6, <1>7, LogNext
  <2>3. Waits'
    BY <1>1, Untouched
  <2> QED
    BY <1>7, <2>1, <2>2, <2>3 DEF IInv
<1>8. CASE consumer.reading.device \in muted
  <2>1. consumer' = NextCheck(consumer, consumer.metric)
    BY <1>1, <1>8, Zenon
  <2>2. consumer'.at \notin Raises \cup Clears \cup {"log"}
    BY <1>3, <2>1, NextCheckFacts, Inert
  <2>3. Applies' /\ Applied' /\ AtOwnCheck' /\ ConsumerType'
    BY <1>1, <1>2, <1>3, <2>1, CheckKept
  <2>4. CountInv' /\ MuteInv'
    BY <1>2, <2>2, CountNext, MuteNext
  <2> QED
    BY <1>5, <1>7, <1>8, <2>2, <2>3, <2>4
<1>9. CASE consumer.reading.device \notin muted
  <2>1. consumer' = [consumer EXCEPT !.at = "announce"]
    BY <1>1, <1>9, Zenon
  <2>2. /\ consumer' \in Working /\ consumer'.at = "announce" /\ consumer'.metric = consumer.metric
        /\ consumer'.reading = consumer.reading /\ consumer'.todo = consumer.todo
    BY <1>3, <2>1, AtSet DEF Raises
  <2>3. Applies' /\ Applied' /\ AtOwnCheck' /\ ConsumerType'
    <3>1. consumer'.at \in Raises
      BY <2>2 DEF Raises
    <3> QED
      BY <1>1, <1>2, <1>3, <2>2, <3>1, CheckKept
  <2>4. CountInv'
    <3>1. CurrentKey' = CurrentKey
      BY <2>2, Zenon DEF CurrentKey, Key
    <3> QED
      BY <1>1, <1>2, <3>1, CountNext DEF Raises
  <2>5. MuteInv'
    BY <1>2, <1>5, <1>9, <2>2 DEF MuteInv
  <2>6. consumer'.at \notin {"log"} \cup Clears
    BY <2>2 DEF Clears
  <2> QED
    BY <1>7, <2>2, <2>3, <2>4, <2>5, <2>6
<1> QED
  BY <1>8, <1>9

LEMMA AnnounceStep ==
    ASSUME IInv, Announce
    PROVE  IInv' /\ mutedSince # "muted"
<1>1. /\ consumer.at = "announce"
      /\ sent' = Append(sent, CurrentKey)
      /\ consumer' = NextCheck(consumer, consumer.metric)
      /\ UNCHANGED <<now, arrived, pending, lastSeen, alertVars, command, issued,
                     episodes, mutedSince, newest>>
  BY Zenon DEF Announce
<1>2. UNCHANGED <<active, logged, recent, acknowledged, muted, episodes, mutedSince>>
  BY <1>1, Zenon DEF alertVars
<1>3. /\ consumer \in Working /\ consumer.metric \in consumer.todo /\ CurrentKey \in Keys
      /\ CurrentKey \in active /\ consumer.metric \in consumer.reading.breaches
      /\ CurrentKey = Key(consumer.reading.device, consumer.metric)
  BY <1>1, Processing DEF Raises
<1>4. logged = active /\ recent' = LastOf(episodes')
  <2>1. logged = active /\ recent = LastOf(episodes)
    BY <1>1, LogFacts DEF IInv, Clears
  <2> QED
    BY <1>2, <2>1, Zenon
<1>5. consumer'.at \notin Raises \cup Clears \cup {"log"}
  BY <1>1, <1>3, NextCheckFacts, Inert
<1>6. Applies' /\ Applied' /\ AtOwnCheck' /\ ConsumerType'
  BY <1>1, <1>2, <1>3, CheckKept
<1>7. TypeOK'
  <2>1. sent' \in Seq(Keys)
    BY <1>1, <1>3, AppendFacts DEF IInv, TypeOK
  <2> QED
    BY <1>1, <1>2, <1>6, <2>1, Zenon DEF IInv, TypeOK, CommandType
<1>8. LogInv'
  BY <1>2, <1>4, <1>5, LogNext
<1>9. CountInv'
  <2> SUFFICES ASSUME NEW k \in Keys
               PROVE  Occurrences(k, Append(sent, CurrentKey)) + Pending(k)' <= Occurrences(k, episodes)
    BY <1>1, <1>2, Zenon DEF CountInv, Occurrences
  <2>1. /\ Occurrences(k, sent) \in Nat /\ Occurrences(k, episodes) \in Nat
        /\ Occurrences(k, Append(sent, CurrentKey))
               = Occurrences(k, sent) + (IF k = CurrentKey THEN 1 ELSE 0)
    BY <1>3, CountAppended DEF IInv, TypeOK
  <2>2. Pending(k) = (IF k = CurrentKey THEN 1 ELSE 0) /\ Pending(k)' = 0
    BY <1>1, <1>5 DEF Pending, Raises
  <2>3. Occurrences(k, sent) + Pending(k) <= Occurrences(k, episodes)
    BY DEF IInv, CountInv
  <2> QED
    BY <2>1, <2>2, <2>3
<1>10. MuteInv' /\ Waits'
  BY <1>1, <1>5, MuteNext, Untouched
<1>11. mutedSince # "muted"
  BY <1>1 DEF IInv, MuteInv
<1> QED
  BY <1>6, <1>7, <1>8, <1>9, <1>10, <1>11 DEF IInv

\* A check of a reading that breaches: the consumer goes on when the alert is
\* active already, and adds it to the log when it is new.
LEMMA TryRaiseStep ==
    ASSUME IInv, TryRaise
    PROVE  IInv'
<1>1. PICK m \in consumer.todo \cap consumer.reading.breaches :
         LET k == Key(consumer.reading.device, m)
         IN  /\ active' = active \cup {k}
             /\ consumer' = IF k \in active THEN NextCheck(consumer, m)
                                            ELSE GoTo(consumer, m, "log")
             /\ episodes' = IF k \in active THEN episodes ELSE Append(episodes, k)
             /\ mutedSince' = MuteState(consumer.reading.device)
  BY Zenon DEF TryRaise
<1>2. /\ consumer.at = "check"
      /\ UNCHANGED <<now, arrived, pending, lastSeen, logged, recent, acknowledged, muted,
                     command, issued, sent, newest>>
  BY Zenon DEF TryRaise
<1>3. PICK k \in Keys : k = Key(consumer.reading.device, m)
  BY <1>2, Processing
<1>4. /\ active' = active \cup {k}
      /\ consumer' = IF k \in active THEN NextCheck(consumer, m) ELSE GoTo(consumer, m, "log")
      /\ episodes' = IF k \in active THEN episodes ELSE Append(episodes, k)
      /\ mutedSince' = MuteState(consumer.reading.device)
  BY <1>1, <1>3, Zenon
<1>5. consumer \in Checking \cup Working /\ m \in consumer.todo /\ m \in consumer.reading.breaches
  BY <1>1, <1>2, Processing
<1>6. consumer.at \notin Raises \cup Clears \cup {"log"}
  BY <1>2, Processing DEF Raises, Clears
<1>7. logged = active /\ recent = LastOf(episodes)
  BY <1>6, LogFacts DEF IInv
<1>8. active' \subseteq Keys /\ mutedSince' \in {"muted", "unmuted"} /\ episodes \in Seq(Keys)
  BY <1>3, <1>4 DEF IInv, TypeOK, MuteState
<1>9. ASSUME Applies', Applied', AtOwnCheck', ConsumerType', CountInv', MuteInv', LogInv',
             episodes' \in Seq(Keys)
      PROVE  IInv'
  <2>1. TypeOK'
    <3>1. mutedSince' \in {"muted", "unmuted", "changed"}
      BY <1>8
    <3> QED
      BY <1>2, <1>8, <1>9, <3>1, Zenon DEF IInv, TypeOK, CommandType
  <2>2. Waits'
    BY <1>2, Untouched
  <2> QED
    BY <1>9, <2>1, <2>2 DEF IInv
<1>10. CASE k \in active
  <2>1. consumer' = NextCheck(consumer, m) /\ episodes' = episodes /\ active' = active
    BY <1>4, <1>10
  <2>2. consumer'.at \notin Raises \cup Clears \cup {"log"}
    BY <1>5, <2>1, NextCheckFacts, Inert
  <2>3. Applies' /\ Applied' /\ AtOwnCheck' /\ ConsumerType'
    BY <1>2, <1>3, <1>5, <1>10, <2>1, CheckKept
  <2>4. recent' = LastOf(episodes')
    BY <1>2, <1>7, <2>1, Zenon
  <2>5. LogInv'
    BY <1>2, <1>7, <2>1, <2>2, <2>4, LogNext
  <2>6. CountInv' /\ MuteInv'
    BY <1>2, <2>1, <2>2, CountNext, MuteNext
  <2> QED
    BY <1>8, <1>9, <2>1, <2>3, <2>5, <2>6
<1>11. CASE k \notin active
  <2>1. consumer' = GoTo(consumer, m, "log") /\ episodes' = Append(episodes, k)
    BY <1>4, <1>11
  <2>2. /\ consumer' \in Working /\ consumer'.at = "log" /\ consumer'.metric = m
        /\ consumer'.reading = consumer.reading /\ consumer'.todo = consumer.todo
    BY <1>5, <2>1, GoToFacts DEF Raises
  <2>3. CurrentKey' = k
    BY <1>3, <2>2, Zenon DEF CurrentKey, Key
  <2>4. Applies' /\ Applied' /\ AtOwnCheck' /\ ConsumerType'
    <3>1. consumer'.at \in Raises
      BY <2>2 DEF Raises
    <3>2. /\ \A j \in Keys : j # k => (j \in active' <=> j \in active)
          /\ k \in active'
      BY <1>4
    <3> QED
      BY <1>2, <1>3, <1>5, <2>2, <3>1, <3>2, CheckKept
  <2>5. /\ episodes' \in Seq(Keys) /\ episodes' # <<>> /\ episodes'[Len(episodes')] = k
        /\ Front(episodes') = episodes
    <3>1. /\ episodes' \in Seq(Keys) /\ Len(episodes') = Len(episodes) + 1
          /\ episodes'[Len(episodes) + 1] = k /\ SubSeq(episodes', 1, Len(episodes') - 1) = episodes
      BY <1>8, <2>1, AppendFacts
    <3>2. Len(episodes) \in Nat
      BY <1>8
    <3>3. Len(episodes') # 0
      BY <3>1, <3>2
    <3> QED
      BY <3>1, <3>3 DEF Front
  <2>6. LogInv'
    <3>1. recent' = LastOf(Front(episodes'))
      BY <1>2, <1>7, <2>5, Zenon
    <3> QED
      BY <1>2, <1>4, <1>7, <1>11, <2>2, <2>3, <2>5, <3>1, LogNext
  <2>7. CountInv'
    <3> SUFFICES ASSUME NEW j \in Keys
                 PROVE  Occurrences(j, sent) + Pending(j)' <= Occurrences(j, Append(episodes, k))
      BY <1>2, <2>1, Zenon DEF CountInv, Occurrences
    <3>1. /\ Occurrences(j, sent) \in Nat /\ Occurrences(j, episodes) \in Nat
          /\ Occurrences(j, Append(episodes, k)) = Occurrences(j, episodes) + (IF j = k THEN 1 ELSE 0)
      BY <1>8, CountAppended DEF IInv, TypeOK
    <3>2. Pending(j) = 0 /\ Pending(j)' = (IF j = k THEN 1 ELSE 0)
      BY <1>6, <2>2, <2>3 DEF Pending, Raises
    <3>3. Occurrences(j, sent) + Pending(j) <= Occurrences(j, episodes)
      BY DEF IInv, CountInv
    <3> QED
      BY <3>1, <3>2, <3>3
  <2>8. MuteInv'
    BY <1>2, <1>4, <2>2 DEF MuteInv, MuteState
  <2> QED
    BY <1>9, <2>4, <2>5, <2>6, <2>7, <2>8
<1> QED
  BY <1>10, <1>11

\* A check of a reading that does not breach.
LEMMA TryClearStep ==
    ASSUME IInv, TryClear
    PROVE  IInv'
<1>1. PICK m \in consumer.todo \ consumer.reading.breaches :
         LET k == Key(consumer.reading.device, m)
         IN  /\ active' = active \ {k}
             /\ consumer' = IF k \in active THEN GoTo(consumer, m, "unacknowledge")
                                            ELSE NextCheck(consumer, m)
  BY Zenon DEF TryClear
<1>2. /\ consumer.at = "check"
      /\ UNCHANGED <<now, arrived, pending, lastSeen, logged, recent, acknowledged, muted,
                     command, issued, historyVars, newest>>
  BY Zenon DEF TryClear
<1>3. PICK k \in Keys : k = Key(consumer.reading.device, m)
  BY <1>1, <1>2, Processing
<1>4. /\ active' = active \ {k}
      /\ consumer' = IF k \in active THEN GoTo(consumer, m, "unacknowledge")
                                     ELSE NextCheck(consumer, m)
  BY <1>1, <1>3, Zenon
<1>5. consumer \in Checking \cup Working /\ m \in consumer.todo /\ m \notin consumer.reading.breaches
  BY <1>1, <1>2, Processing
<1>6. UNCHANGED <<sent, episodes, mutedSince>>
  BY <1>2, Zenon DEF historyVars
<1>7. logged = active /\ recent' = LastOf(episodes')
  <2>1. consumer.at \notin Raises \cup Clears \cup {"log"}
    BY <1>2 DEF Raises, Clears
  <2>2. logged = active /\ recent = LastOf(episodes)
    BY <2>1, LogFacts DEF IInv
  <2> QED
    BY <1>2, <1>6, <2>2, Zenon
<1>8. ASSUME Applies', Applied', AtOwnCheck', ConsumerType', LogInv', consumer'.at \notin Raises
      PROVE  IInv'
  <2>1. TypeOK'
    <3>1. active' \subseteq Keys
      BY <1>4 DEF IInv, TypeOK
    <3> QED
      BY <1>2, <1>6, <1>8, <3>1, Zenon DEF IInv, TypeOK, CommandType
  <2>2. Waits' /\ CountInv' /\ MuteInv'
    BY <1>2, <1>6, <1>8, Untouched, CountNext, MuteNext
  <2> QED
    BY <1>8, <2>1, <2>2 DEF IInv
<1>9. /\ \A j \in Keys : j # k => (j \in active' <=> j \in active)
      /\ k \notin active'
  BY <1>4
<1>10. CASE k \notin active
  <2>1. consumer' = NextCheck(consumer, m) /\ active' = active
    BY <1>4, <1>10
  <2>2. consumer'.at \notin Raises \cup Clears \cup {"log"}
    BY <1>5, <2>1, NextCheckFacts, Inert
  <2>3. Applies' /\ Applied' /\ AtOwnCheck' /\ ConsumerType'
    BY <1>2, <1>3, <1>5, <1>9, <2>1, CheckKept
  <2>4. LogInv'
    BY <1>2, <1>7, <2>1, <2>2, LogNext
  <2> QED
    BY <1>8, <2>2, <2>3, <2>4
<1>11. CASE k \in active
  <2>1. consumer' = GoTo(consumer, m, "unacknowledge")
    BY <1>4, <1>11
  <2>2. /\ consumer' \in Working /\ consumer'.at = "unacknowledge" /\ consumer'.metric = m
        /\ consumer'.reading = consumer.reading /\ consumer'.todo = consumer.todo
    BY <1>5, <2>1, GoToFacts DEF Clears
  <2>3. CurrentKey' = k
    BY <1>3, <2>2, Zenon DEF CurrentKey, Key
  <2>4. consumer'.at \in Clears /\ consumer'.at \notin Raises
    BY <2>2 DEF Clears, Raises
  <2>5. Applies' /\ Applied' /\ AtOwnCheck' /\ ConsumerType'
    BY <1>2, <1>3, <1>5, <1>9, <2>2, <2>4, CheckKept
  <2>6. LogInv'
    BY <1>2, <1>4, <1>7, <1>11, <2>3, <2>4, LogNext
  <2> QED
    BY <1>8, <2>4, <2>5, <2>6
<1> QED
  BY <1>10, <1>11

LEMMA UnacknowledgeStep ==
    ASSUME IInv, Unacknowledge
    PROVE  IInv'
<1>1. /\ consumer.at = "unacknowledge"
      /\ acknowledged' = acknowledged \ {CurrentKey}
      /\ consumer' = [consumer EXCEPT !.at = "unlog"]
      /\ UNCHANGED <<now, arrived, pending, lastSeen, active, logged, recent, muted,
                     command, issued, historyVars, newest>>
  BY Zenon DEF Unacknowledge
<1>2. UNCHANGED <<sent, episodes, mutedSince>>
  BY <1>1, Zenon DEF historyVars
<1>3. /\ consumer \in Working /\ consumer.metric \in consumer.todo /\ CurrentKey \in Keys
      /\ CurrentKey \notin active /\ consumer.metric \notin consumer.reading.breaches
      /\ CurrentKey = Key(consumer.reading.device, consumer.metric)
  BY <1>1, Processing DEF Clears
<1>4. /\ consumer' \in Working /\ consumer'.at = "unlog" /\ consumer'.metric = consumer.metric
      /\ consumer'.reading = consumer.reading /\ consumer'.todo = consumer.todo
  BY <1>1, <1>3, AtSet DEF Clears
<1>5. CurrentKey' = CurrentKey
  BY <1>4, Zenon DEF CurrentKey, Key
<1>6. consumer'.at \in Clears /\ consumer'.at \notin Raises
  BY <1>4 DEF Raises, Clears
<1>7. Applies' /\ Applied' /\ AtOwnCheck' /\ ConsumerType'
  BY <1>1, <1>3, <1>4, <1>6, CheckKept
<1>8. TypeOK'
  <2>1. acknowledged' \subseteq Keys
    BY <1>1 DEF IInv, TypeOK
  <2> QED
    BY <1>1, <1>2, <1>7, <2>1, Zenon DEF IInv, TypeOK, CommandType
<1>9. LogInv'
  <2>1. logged = active \cup {CurrentKey} /\ recent = LastOf(episodes)
    BY <1>1, LogFacts DEF IInv, Clears
  <2>2. recent' = LastOf(episodes')
    BY <1>1, <1>2, <2>1, Zenon
  <2> QED
    BY <1>1, <1>3, <1>5, <1>6, <2>1, <2>2, LogNext
<1>10. CountInv' /\ MuteInv' /\ Waits'
  BY <1>1, <1>2, <1>6, CountNext, MuteNext, Untouched
<1> QED
  BY <1>7, <1>8, <1>9, <1>10 DEF IInv

LEMMA LogClearedStep ==
    ASSUME IInv, LogCleared
    PROVE  IInv'
<1>1. /\ consumer.at = "unlog"
      /\ logged' = logged \ {CurrentKey}
      /\ consumer' = NextCheck(consumer, consumer.metric)
      /\ UNCHANGED <<now, arrived, pending, lastSeen, active, recent, acknowledged, muted,
                     command, issued, historyVars, newest>>
  BY Zenon DEF LogCleared
<1>2. UNCHANGED <<sent, episodes, mutedSince>>
  BY <1>1, Zenon DEF historyVars
<1>3. /\ consumer \in Working /\ consumer.metric \in consumer.todo /\ CurrentKey \in Keys
      /\ CurrentKey \notin active /\ consumer.metric \notin consumer.reading.breaches
      /\ CurrentKey = Key(consumer.reading.device, consumer.metric)
  BY <1>1, Processing DEF Clears
<1>4. consumer'.at \notin Raises \cup Clears \cup {"log"}
  BY <1>1, <1>3, NextCheckFacts, Inert
<1>5. Applies' /\ Applied' /\ AtOwnCheck' /\ ConsumerType'
  BY <1>1, <1>3, CheckKept
<1>6. TypeOK'
  <2>1. logged' \subseteq Keys
    BY <1>1 DEF IInv, TypeOK
  <2> QED
    BY <1>1, <1>2, <1>5, <2>1, Zenon DEF IInv, TypeOK, CommandType
<1>7. LogInv'
  <2>1. logged = active \cup {CurrentKey} /\ recent = LastOf(episodes)
    BY <1>1, LogFacts DEF IInv, Clears
  <2>2. recent' = LastOf(episodes')
    BY <1>1, <1>2, <2>1, Zenon
  <2>3. logged' = active'
    BY <1>1, <1>3, <2>1
  <2> QED
    BY <1>4, <2>2, <2>3, LogNext
<1>8. CountInv' /\ MuteInv' /\ Waits'
  BY <1>1, <1>2, <1>4, CountNext, MuteNext, Untouched
<1> QED
  BY <1>5, <1>6, <1>7, <1>8 DEF IInv

\* A mute or an unmute, while the consumer is anywhere.
LEMMA MuteStep ==
    ASSUME IInv, NEW d \in Devices, Mute(d) \/ Unmute(d)
    PROVE  IInv'
<1>1. /\ UNCHANGED <<now, arrived, pending, lastSeen, active, logged, recent, acknowledged,
                     consumer, command, sent, episodes, newest>>
      /\ issued < MaxCommands /\ issued' = issued + 1
  BY Zenon DEF Mute, Unmute, CanIssue
<1>2. \/ d \notin muted /\ muted' = muted \cup {d} /\ MuteChanged(d, "muted")
      \/ d \in muted /\ muted' = muted \ {d} /\ MuteChanged(d, "unmuted")
  BY Zenon DEF Mute, Unmute
<1>3. TypeOK'
  <2>1. issued' \in 0 .. MaxCommands
    BY <1>1, BoundsAssumption DEF IInv, TypeOK
  <2>2. muted' \subseteq Devices /\ mutedSince' \in {"muted", "unmuted", "changed"}
    BY <1>2 DEF IInv, TypeOK, MuteChanged
  <2> QED
    BY <1>1, <2>1, <2>2, Zenon DEF IInv, TypeOK, ConsumerType, CommandType
<1>4. MuteInv'
  <2>1. CASE consumer = Idle
    BY <1>1, <2>1, MuteNext DEF Idle, Raises
  <2>2. CASE consumer # Idle
    BY <1>1, <1>2, <2>2 DEF IInv, MuteInv, MuteChanged
  <2> QED
    BY <2>1, <2>2
<1> QED
  BY <1>1, <1>3, <1>4, Untouched, Zenon DEF IInv

\* The acknowledge command changes the acknowledgements only.
LEMMA AcknowledgeSteps ==
    ASSUME IInv, AcknowledgeStep \/ \E d \in Devices : Acknowledge(d)
    PROVE  IInv'
<1>1. UNCHANGED <<now, arrived, pending, lastSeen, active, logged, recent, muted, consumer,
                  sent, episodes, mutedSince, newest>>
  BY Zenon DEF AcknowledgeStep, TestActive, AddAcknowledged, Acknowledge, alertVars, historyVars
<1>2. acknowledged' \subseteq Keys /\ CommandType' /\ issued' \in 0 .. MaxCommands
  <2>1. CASE \E d \in Devices : Acknowledge(d)
    <3>1. PICK d \in Devices : Acknowledge(d)
      BY <2>1
    <3>2. /\ issued < MaxCommands /\ issued' = issued + 1 /\ acknowledged' = acknowledged
          /\ command' = [at |-> "test", device |-> d, todo |-> Metrics]
      BY <3>1, Zenon DEF Acknowledge, CanIssue, alertVars
    <3>3. issued' \in 0 .. MaxCommands
      BY <3>2, BoundsAssumption DEF IInv, TypeOK
    <3>4. Metrics # {}
      BY BoundsAssumption
    <3>5. Metrics \in (SUBSET Metrics) \ {{}}
      BY <3>4, Zenon
    <3>6. \A t \in (SUBSET Metrics) \ {{}} : [at |-> "test", device |-> d, todo |-> t]
              \in [at : {"test"}, device : Devices, todo : (SUBSET Metrics) \ {{}}]
      OBVIOUS
    <3>7. command'.at = "test"
      BY <3>2
    <3>8. CommandType'
      BY <3>2, <3>5, <3>6, <3>7 DEF CommandType
    <3> QED
      BY <3>2, <3>3, <3>8 DEF IInv, TypeOK
  <2> DEFINE Testing == [at : {"test"}, device : Devices, todo : (SUBSET Metrics) \ {{}}]
             Adding == [at : {"add"}, device : Devices, todo : (SUBSET Metrics) \ {{}},
                        metric : Metrics]
  <2>2. CommandType
    BY DEF IInv, TypeOK
  <2>3. ASSUME NEW c \in Testing \cup Adding, NEW m, NEW n, n = NextMetric(c, m)
        PROVE  n = Idle \/ (n \in Testing /\ n.at = "test")
    <3>1. c.device \in Devices /\ c.todo \in (SUBSET Metrics) \ {{}}
      OBVIOUS
    <3>2. CASE c.todo = {m}
      BY <2>3, <3>2, Zenon DEF NextMetric
    <3>3. CASE c.todo # {m}
      <4>1. n = [at |-> "test", device |-> c.device, todo |-> c.todo \ {m}]
        BY <2>3, <3>3, Zenon DEF NextMetric
      <4>2. c.todo \ {m} \in (SUBSET Metrics) \ {{}}
        BY <2>3, <3>1, <3>3
      <4> QED
        BY <3>1, <4>1, <4>2
    <3> QED
      BY <3>2, <3>3
  <2>4. CASE TestActive
    <3>1. PICK m \in command.todo :
            command' = IF Key(command.device, m) \in active
                       THEN [at |-> "add", device |-> command.device,
                             todo |-> command.todo, metric |-> m]
                       ELSE NextMetric(command, m)
      BY <2>4, Zenon DEF TestActive
    <3>2. command.at = "test" /\ issued' = issued /\ acknowledged' = acknowledged
      BY <2>4, Zenon DEF TestActive, alertVars
    <3>3. PICK c \in Testing : c = command
      BY <2>2, <3>2 DEF CommandType, Idle
    <3>4. CASE Key(command.device, m) \in active
      <4>1. command' = [at |-> "add", device |-> c.device, todo |-> c.todo, metric |-> m]
        BY <3>1, <3>3, <3>4, Zenon
      <4>2. c.device \in Devices /\ c.todo \in (SUBSET Metrics) \ {{}} /\ m \in c.todo
        BY <3>1, <3>3
      <4>3. command' \in Adding /\ command'.at = "add"
        BY <4>1, <4>2
      <4> QED
        BY <3>2, <4>3 DEF CommandType, IInv, TypeOK
    <3>5. CASE Key(command.device, m) \notin active
      <4>1. command' = NextMetric(c, m)
        BY <3>1, <3>3, <3>5, Zenon
      <4>2. command' = Idle \/ (command' \in Testing /\ command'.at = "test")
        BY <2>3, <3>1, <3>3, <4>1
      <4> QED
        BY <3>2, <4>2 DEF CommandType, IInv, TypeOK
    <3> QED
      BY <3>4, <3>5
  <2>5. CASE AddAcknowledged
    <3>1. /\ command.at = "add" /\ issued' = issued
          /\ acknowledged' = acknowledged \cup {Key(command.device, command.metric)}
          /\ command' = NextMetric(command, command.metric)
      BY <2>5, Zenon DEF AddAcknowledged
    <3>2. PICK c \in Adding : c = command
      BY <2>2, <3>1 DEF CommandType, Idle
    <3>3. c.device \in Devices /\ c.metric \in Metrics /\ c.todo \in SUBSET Metrics
      BY <3>2
    <3>4. Key(c.device, c.metric) \in Keys
      BY <3>3, KeyFacts
    <3>5. command' = Idle \/ (command' \in Testing /\ command'.at = "test")
      BY <2>3, <3>1, <3>2
    <3> QED
      BY <3>1, <3>2, <3>4, <3>5 DEF CommandType, IInv, TypeOK
  <2> QED
    BY <2>1, <2>4, <2>5 DEF AcknowledgeStep
<1>3. TypeOK'
  BY <1>1, <1>2, Zenon DEF IInv, TypeOK, ConsumerType
<1> QED
  BY <1>1, <1>3, Untouched, Zenon DEF IInv

LEMMA Step ==
    ASSUME IInv, [Next]_vars
    PROVE  IInv'
<1>1. ASSUME NEW d \in Devices, NEW b \in SUBSET Metrics, NEW s \in 0 .. MaxSeverity, Ingest(d, b, s)
      PROVE  IInv'
  BY <1>1, IngestStep
<1>2. CASE ConsumerStep
  BY <1>2, TakeStep, TryRaiseStep, LogRaisedStep, TestMutedStep, AnnounceStep,
     TryClearStep, UnacknowledgeStep, LogClearedStep DEF ConsumerStep
<1>3. CASE \E d \in Devices : Mute(d) \/ Unmute(d)
  BY <1>3, MuteStep
<1>4. CASE AcknowledgeStep \/ \E d \in Devices : Acknowledge(d)
  BY <1>4, AcknowledgeSteps
<1>5. CASE UNCHANGED vars
  <2>1. UNCHANGED <<now, arrived, pending, lastSeen, active, logged, recent, acknowledged, muted,
                    consumer, command, issued, sent, episodes, mutedSince, newest>>
    BY <1>5, Zenon DEF vars, alertVars, historyVars
  <2>2. TypeOK'
    BY <2>1, Zenon DEF IInv, TypeOK, ConsumerType, CommandType
  <2> QED
    BY <2>1, <2>2, Untouched, Zenon DEF IInv
<1> QED
  BY <1>1, <1>2, <1>3, <1>4, <1>5 DEF Next

\* The invariant is inductive, whatever the devices, metrics and bounds.
LEMMA Invariant == Spec => []IInv
<1>1. Init => IInv
  BY Initially
<1>2. IInv /\ [Next]_vars => IInv'
  BY Step
<1> QED
  BY <1>1, <1>2, PTL DEF Spec
-----------------------------------------------------------------------------
(* The theorems.                                                               *)

\* The variables keep their types.
THEOREM TypeCorrect == Spec => []TypeOK
<1>1. IInv => TypeOK
  BY DEF IInv
<1> QED
  BY <1>1, Invariant, PTL

\* ActiveAlerts and AlertLog, which nothing locks together, differ by at most the
\* one alert the consumer is between the two with, and the recent alerts are the
\* last ones raised, each once, in their order.
THEOREM LogIsExact == Spec => []LogExact
<1>1. IInv => LogExact
  BY DEF IInv, LogInv, LogExact
<1> QED
  BY <1>1, Invariant, PTL

\* No alert is announced more often than it was raised, through repeated,
\* overtaken and simultaneous readings.
THEOREM AnnouncedOnce == Spec => []AnnouncedOncePerEpisode
<1>1. ASSUME IInv PROVE AnnouncedOncePerEpisode
  <2> SUFFICES ASSUME NEW k \in Keys PROVE Occurrences(k, sent) <= Occurrences(k, episodes)
    BY DEF AnnouncedOncePerEpisode
  <2>1. Occurrences(k, sent) \in Nat /\ Occurrences(k, episodes) \in Nat
    BY <1>1, CountAppended DEF IInv, TypeOK
  <2>2. Occurrences(k, sent) + Pending(k) <= Occurrences(k, episodes) /\ Pending(k) \in {0, 1}
    BY <1>1 DEF IInv, CountInv, Pending
  <2> QED
    BY <2>1, <2>2
<1> QED
  BY <1>1, Invariant, PTL

\* Once a device's readings are all processed, whatever overtook what, its active
\* alerts are the breaches of its newest reading.
THEOREM NewestIsActive == Spec => []AlertsMatchNewest
<1>1. ASSUME IInv PROVE AlertsMatchNewest
  <2> SUFFICES ASSUME NEW d \in Devices, consumer = Idle, \A r \in pending : r.device # d
               PROVE  ActiveMetrics(d) \in newest[d].breaches
    BY DEF AlertsMatchNewest
  <2>1. /\ lastSeen[d] \in Nat /\ newest[d].at \in Nat /\ lastSeen[d] <= newest[d].at
        /\ ~ (lastSeen[d] < newest[d].at)
    BY <1>1, BoundsAssumption DEF IInv, TypeOK, Waits
  <2>2. lastSeen[d] = newest[d].at
    BY <2>1
  <2> QED
    BY <1>1, <2>2 DEF IInv, Applied
<1> QED
  BY <1>1, Invariant, PTL

\* Only Announce tells the clients, and only TestMuted leaves "mutetest".
LEMMA OnlyThese ==
    ASSUME IInv, [Next]_vars, sent' # sent \/ (consumer.at = "mutetest" /\ consumer' # consumer)
    PROVE  Announce \/ TestMuted
<1>1. ASSUME NEW d \in Devices, NEW b \in SUBSET Metrics, NEW s \in 0 .. MaxSeverity, Ingest(d, b, s)
      PROVE  sent' = sent /\ consumer' = consumer
  BY <1>1, Zenon DEF Ingest, historyVars
<1>2. ASSUME NEW d \in Devices, Mute(d) \/ Unmute(d) \/ Acknowledge(d)
      PROVE  sent' = sent /\ consumer' = consumer
  BY <1>2, Zenon DEF Mute, Unmute, Acknowledge, historyVars
<1>3. ASSUME AcknowledgeStep PROVE sent' = sent /\ consumer' = consumer
  BY <1>3, Zenon DEF AcknowledgeStep, TestActive, AddAcknowledged, historyVars
<1>4. ASSUME Take \/ TryRaise \/ LogRaised \/ TryClear \/ Unacknowledge \/ LogCleared
      PROVE  sent' = sent /\ consumer.at # "mutetest"
  <2>1. sent' = sent
    BY <1>4, Zenon DEF Take, TryRaise, LogRaised, TryClear, Unacknowledge, LogCleared, historyVars
  <2>2. consumer.at # "mutetest"
    BY <1>4 DEF Take, TryRaise, LogRaised, TryClear, Unacknowledge, LogCleared, Idle
  <2> QED
    BY <2>1, <2>2
<1>5. ASSUME UNCHANGED vars PROVE sent' = sent /\ consumer' = consumer
  BY <1>5, Zenon DEF vars, historyVars
<1> QED
  BY <1>1, <1>2, <1>3, <1>4, <1>5 DEF Next, ConsumerStep

\* Clients are not told of an alert raised while its device was, and stayed,
\* muted, and are told of one raised while it was, and stayed, unmuted, however
\* the commands fall between the consumer's calls.
THEOREM MuteIsFollowed == Spec => AnnouncementFollowsMute
<1>1. ASSUME IInv, [Next]_vars
      PROVE  /\ sent' # sent => mutedSince # "muted"
             /\ consumer.at = "mutetest" /\ consumer' # consumer /\ consumer'.at # "announce"
                    => mutedSince # "unmuted"
  <2>1. CASE Announce
    BY <1>1, <2>1, AnnounceStep DEF Announce
  <2>2. CASE TestMuted
    <3>1. sent' = sent
      BY <2>2, Zenon DEF TestMuted, historyVars
    <3> QED
      BY <1>1, <2>2, <3>1, TestMutedStep
  <2> QED
    BY <1>1, <2>1, <2>2, OnlyThese
<1> QED
  BY <1>1, Invariant, PTL DEF Spec, AnnouncementFollowsMute
=============================================================================
