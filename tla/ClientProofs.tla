---------------------------- MODULE ClientProofs ----------------------------
(* Theorems about the parts of the client.  LiveViews and PageViews, for any   *)
(* number of days, commands, pushes under way and lost connections: what is    *)
(* shown once all is quiet is current, and no page guesses.  The pages that    *)
(* keep their state in the address, and a device's page, for any texts, zones, *)
(* devices, numbers of files and of registrations, and any length of the       *)
(* browser's history.  The notification bell, for any number of alerts and any *)
(* limit of its list.  What is marked as past a threshold, for any devices and *)
(* values, and any number of readings.                                         *)
EXTENDS PageViews, DeviceSearch, CommandStreamPage, DevicePage, AlertFeed, ThresholdViews,
        SequenceTheorems, FiniteSetTheorems, TLAPS

LiveSpec == LiveInit /\ [][LiveNext]_liveVars
SearchSpec == SearchInit /\ [][SearchNext]_searchVars
StreamSpec == StreamInit /\ [][StreamNext]_streamVars
DeviceSpec == DeviceInit /\ [][DeviceNext]_deviceVars
ThresholdSpec == ThresholdInit /\ [][ThresholdNext]_thresholdVars

LiveValues == [days : 0 .. MaxDays, changes : 0 .. MaxChanges]
PushType == [type : {"batch"}, value : LiveValues] \cup [type : {"command"}]

\* Everything will be refreshed: the connection is lost, or was and is back.
RefreshComing ==
    \/ link = "broken"
    \/ link = "none" /\ hasConnected
    \/ phase = "opened" /\ hasConnected
    \/ phase = "reopened"

\* How socket, phase and pushes go together.
Linked ==
    /\ phase \in {"starting", "retrying"} <=> link = "none"
    /\ phase \in {"live", "retrying", "reopened"} => hasConnected
    /\ link # "up" => wire = <<>>

\* A push that refreshes the entry.
Relevant(push) == IF push.type = "batch" THEN key # "devices" ELSE key \in RefreshedByCommand

\* The last summary under way is the newest there is.
WireNewest ==
    \A i \in DOMAIN wire :
        wire[i].type = "batch" =>
            \/ wire[i].value.days = server.days
            \/ \E j \in DOMAIN wire : j > i /\ wire[j].type = "batch"

\* A mounted page that neither waits nor failed has what it shows.
Mounted == Observed /\ ~query.error /\ query.fetch = "idle" => query.data # {} /\ ~query.invalid

\* An answer under way has a value.
Answered == query.fetch = "answered" => query.answer # {}

\* What the entry holds, or is about to, is current.
Fresh ==
    /\ query.fetch = "idle" /\ ~query.invalid => Current
    /\ query.fetch = "answered" => ~OlderAnswerUnderWay

\* It is, unless a refresh is on its way or the client could not hear of a change.
Told == RefreshComing \/ (\E i \in DOMAIN wire : Relevant(wire[i])) \/ excused \/ Fresh

\* The inductive invariant.
IInv == LiveTypeOK /\ Linked /\ WireNewest /\ Answered /\ Mounted /\ Told
-----------------------------------------------------------------------------
(* The entry.                                                                  *)

\* What an entry holds.
LEMMA EntryFacts ==
    ASSUME NEW V, NEW q \in Entries(V)
    PROVE  /\ q.error \in BOOLEAN /\ q.invalid \in BOOLEAN
           /\ q.fetch \in {"idle", "asked", "answered", "paused"}
           /\ q.data = {} \/ \E v \in V : q.data = {v}
           /\ q.answer = {} \/ \E v \in V : q.answer = {v}
BY DEF Entries

\* A request starts.
LEMMA AskFacts ==
    ASSUME NEW V, NEW q \in Entries(V), NEW there \in BOOLEAN, NEW r, r = Ask(q, there)
    PROVE  /\ r \in Entries(V)
           /\ r.fetch \in {"asked", "paused"}
           /\ r.data = q.data /\ r.answer = {}
<1>1. PICK e \in BOOLEAN : e = (q.error /\ q.data # {})
  OBVIOUS
<1>2. PICK f \in {"asked", "paused"} : f = IF there THEN "asked" ELSE "paused"
  OBVIOUS
<1>3. r = [q EXCEPT !.fetch = f, !.answer = {}, !.error = e]
  BY <1>1, <1>2, Zenon DEF Ask
<1>4. f \in {"idle", "asked", "answered", "paused"}
  OBVIOUS
<1>5. /\ r \in Entries(V)
      /\ r.fetch = f
      /\ r.data = q.data /\ r.answer = {}
  BY <1>3, <1>4 DEF Entries
<1> QED
  BY <1>5

\* An entry is flagged.
LEMMA FlagFacts ==
    ASSUME NEW V, NEW q \in Entries(V), NEW r, r = [q EXCEPT !.invalid = TRUE]
    PROVE  /\ r \in Entries(V)
           /\ r.invalid = TRUE
           /\ r.data = q.data /\ r.answer = q.answer /\ r.fetch = q.fetch /\ r.error = q.error
BY DEF Entries

\* An invalidation either asks anew or flags an entry that keeps its request.
LEMMA InvalidateFacts ==
    ASSUME NEW V, NEW q \in Entries(V), NEW observed \in BOOLEAN, NEW there \in BOOLEAN,
           NEW r, r = Invalidate(q, observed, there)
    PROVE  /\ r \in Entries(V)
           /\ r.data = q.data
           /\ \/ r.fetch \in {"asked", "paused"} /\ r.answer = {}
              \/ /\ ~observed \/ (q.fetch # "idle" /\ q.data = {})
                 /\ r.invalid /\ r.fetch = q.fetch /\ r.answer = q.answer
                 /\ r.error = q.error
<1>1. PICK g : g = [q EXCEPT !.invalid = TRUE]
  OBVIOUS
<1>2. /\ g \in Entries(V)
      /\ g.invalid = TRUE
      /\ g.data = q.data /\ g.answer = q.answer /\ g.fetch = q.fetch /\ g.error = q.error
  BY <1>1, FlagFacts, ZenonT(30)
<1>3. r = IF observed /\ (q.fetch = "idle" \/ q.data # {}) THEN Ask(g, there) ELSE g
  BY <1>1, Zenon DEF Invalidate
<1>4. CASE observed /\ (q.fetch = "idle" \/ q.data # {})
  <2>1. r = Ask(g, there)
    BY <1>3, <1>4, Zenon
  <2>2. r \in Entries(V) /\ r.fetch \in {"asked", "paused"} /\ r.data = g.data /\ r.answer = {}
    BY <1>2, <2>1, AskFacts
  <2> QED
    BY <1>2, <2>2
<1>5. CASE ~(observed /\ (q.fetch = "idle" \/ q.data # {}))
  <2>1. r = g
    BY <1>3, <1>5, Zenon
  <2> QED
    BY <1>2, <1>5, <2>1
<1> QED
  BY <1>4, <1>5

\* A component mounts, the window is focused, or the browser comes online.
LEMMA AskIfDueFacts ==
    ASSUME NEW V, NEW q \in Entries(V), NEW stale \in BOOLEAN, NEW there \in BOOLEAN,
           NEW r, r = AskIfDue(q, stale, there)
    PROVE  /\ r \in Entries(V)
           /\ \/ r.fetch \in {"asked", "paused"} /\ r.answer = {}
              \/ r = q /\ (q.fetch # "idle" \/ (q.data # {} /\ ~q.invalid))
<1>1. CASE q.fetch = "idle" /\ (q.data = {} \/ q.invalid \/ stale)
  <2>1. r = Ask(q, there)
    BY <1>1, Zenon DEF AskIfDue, Due
  <2>2. r \in Entries(V) /\ r.fetch \in {"asked", "paused"} /\ r.answer = {}
    BY <2>1, AskFacts
  <2> QED
    BY <2>2
<1>2. CASE ~(q.fetch = "idle" /\ (q.data = {} \/ q.invalid \/ stale))
  <2>1. r = q
    BY <1>2, Zenon DEF AskIfDue, Due
  <2>2. q.fetch # "idle" \/ (q.data # {} /\ ~q.invalid)
    BY <1>2, Zenon
  <2>3. r \in Entries(V)
    BY <2>1, Zenon
  <2> QED
    BY <2>1, <2>2, <2>3, Zenon
<1> QED
  BY <1>1, <1>2

\* The server computes the answer, it arrives, the request fails, or a value is set.
LEMMA ComputeFacts ==
    ASSUME NEW V, NEW q \in Entries(V), NEW v \in V, NEW r, r = Compute(q, v)
    PROVE  r \in Entries(V) /\ r.fetch = "answered" /\ r.answer = {v}
BY DEF Compute, Entries

LEMMA SettleFacts ==
    ASSUME NEW V, NEW q \in Entries(V), NEW r, r = Settle(q)
    PROVE  /\ r \in Entries(V)
           /\ r.fetch = "idle" /\ r.data = q.answer /\ r.answer = {} /\ ~r.invalid
BY DEF Settle, Entries

LEMMA FailFacts ==
    ASSUME NEW V, NEW q \in Entries(V), NEW r, r = Fail(q)
    PROVE  /\ r \in Entries(V)
           /\ r.fetch = "idle" /\ r.error /\ r.answer = {} /\ r.invalid
BY DEF Fail, Entries

LEMMA SetDataFacts ==
    ASSUME NEW V, NEW q \in Entries(V), NEW v \in V, NEW r, r = SetData(q, v)
    PROVE  /\ r \in Entries(V)
           /\ r.fetch = q.fetch /\ r.data = {v} /\ r.answer = q.answer /\ ~r.invalid
BY DEF SetData, Entries

\* Nothing was asked for yet.
LEMMA NoEntryFacts ==
    ASSUME NEW V
    PROVE  /\ NoEntry \in Entries(V)
           /\ NoEntry.fetch = "idle" /\ NoEntry.data = {} /\ NoEntry.answer = {}
           /\ NoEntry.error = FALSE /\ NoEntry.invalid = FALSE
BY DEF NoEntry, Entries
-----------------------------------------------------------------------------
(* What an action does to the entry.                                           *)

\* The types of the variables that the entry's steps read.
LEMMA TypeFacts ==
    ASSUME LiveTypeOK
    PROVE  /\ key \in Keys /\ server \in LiveValues /\ wire \in Seq(PushType)
           /\ query \in Entries(LiveValues)
           /\ online \in BOOLEAN /\ excused \in BOOLEAN /\ page \in Pages
           /\ Observed \in BOOLEAN /\ StaleAtOnce \in BOOLEAN /\ OlderAnswerUnderWay \in BOOLEAN
BY DEF LiveTypeOK, LiveValues, PushType, Observed, StaleAtOnce, OlderAnswerUnderWay

\* A refresh leaves nothing older than the server's state to be taken for fresh,
\* unless it says so.
LEMMA RefreshKeeps ==
    ASSUME LiveTypeOK, Answered, UNCHANGED <<key, server, page>>,
           NEW keys, key \in keys, Refresh(keys)
    PROVE  /\ query' \in Entries(LiveValues) /\ excused' \in BOOLEAN
           /\ Answered' /\ Mounted' /\ (excused' \/ Fresh')
<1>0. /\ query \in Entries(LiveValues) /\ Observed \in BOOLEAN /\ online \in BOOLEAN
      /\ OlderAnswerUnderWay \in BOOLEAN
  BY TypeFacts
<1>1. /\ query' = Invalidate(query, Observed, online)
      /\ excused' = (OlderAnswerUnderWay /\ (query.data = {} \/ ~Observed))
  BY Zenon DEF Refresh
<1>2. excused' \in BOOLEAN
  BY <1>1, Zenon
<1>3. /\ query' \in Entries(LiveValues) /\ query'.data = query.data
      /\ \/ query'.fetch \in {"asked", "paused"} /\ query'.answer = {}
         \/ /\ ~Observed \/ (query.fetch # "idle" /\ query.data = {})
            /\ query'.invalid /\ query'.fetch = query.fetch /\ query'.answer = query.answer
  <2>1. PICK o \in BOOLEAN : o = Observed
    BY <1>0
  <2>2. PICK q \in Entries(LiveValues) : q = query
    BY <1>0
  <2>3. PICK there \in BOOLEAN : there = online
    BY <1>0
  <2>4. PICK r : r = query'
    OBVIOUS
  <2>5. r = Invalidate(q, o, there)
    BY <1>1, <2>1, <2>2, <2>3, <2>4, Zenon
  <2>6. /\ r \in Entries(LiveValues) /\ r.data = q.data
        /\ \/ r.fetch \in {"asked", "paused"} /\ r.answer = {}
           \/ /\ ~o \/ (q.fetch # "idle" /\ q.data = {})
              /\ r.invalid /\ r.fetch = q.fetch /\ r.answer = q.answer
    BY <2>5, InvalidateFacts
  <2> QED
    BY <2>1, <2>2, <2>3, <2>4, <2>6
<1>4. CASE query'.fetch \in {"asked", "paused"}
  <2>1. Answered' /\ Mounted'
    BY <1>4 DEF Answered, Mounted
  <2>2. Fresh'
    BY <1>4 DEF Fresh
  <2> QED
    BY <1>2, <1>3, <2>1, <2>2, Zenon
<1>5. CASE /\ ~Observed \/ (query.fetch # "idle" /\ query.data = {})
           /\ query'.invalid /\ query'.fetch = query.fetch /\ query'.answer = query.answer
  <2>1. Answered'
    BY <1>5 DEF Answered
  <2>2. Observed' = Observed
    BY DEF Observed
  <2>3. Mounted'
    BY <1>5, <2>2 DEF Mounted
  <2>4. excused' = OlderAnswerUnderWay
    <3>1. query.data = {} \/ ~Observed
      BY <1>5
    <3> QED
      BY <1>0, <1>1, <3>1, Zenon
  <2>5. OlderAnswerUnderWay' = OlderAnswerUnderWay
    BY <1>5 DEF OlderAnswerUnderWay, Pushed
  <2>6. excused' \/ Fresh'
    BY <1>5, <2>4, <2>5 DEF Fresh
  <2> QED
    BY <1>2, <1>3, <2>1, <2>3, <2>6
<1> QED
  BY <1>3, <1>4, <1>5

\* A request that starts, or is under way and kept, keeps what is known.
LEMMA PutKeeps ==
    ASSUME LiveTypeOK, Answered, UNCHANGED <<key, server>>, NEW q, Put(q), q \in Entries(LiveValues),
           \/ q.fetch \in {"asked", "paused"} /\ q.answer = {}
           \/ q = query /\ (q.fetch # "idle" \/ (q.data # {} /\ ~q.invalid))
    PROVE  /\ query' \in Entries(LiveValues) /\ excused' \in BOOLEAN
           /\ Answered' /\ Mounted' /\ (excused \/ Fresh => excused' \/ Fresh')
<1>1. query' = q /\ excused' = (excused /\ q.fetch \notin {"asked", "paused"})
  BY DEF Put
<1>2. excused' \in BOOLEAN
  BY <1>1, Zenon
<1>3. query' \in Entries(LiveValues)
  BY <1>1
<1>4. CASE q.fetch \in {"asked", "paused"}
  <2>1. Answered' /\ Mounted'
    BY <1>1, <1>4 DEF Answered, Mounted
  <2>2. Fresh'
    BY <1>1, <1>4 DEF Fresh
  <2> QED
    BY <1>2, <1>3, <2>1, <2>2, Zenon
<1>5. CASE /\ q = query /\ q.fetch \notin {"asked", "paused"}
           /\ q.fetch # "idle" \/ (q.data # {} /\ ~q.invalid)
  <2>1. query' = query
    BY <1>1, <1>5
  <2>2. excused => excused'
    BY <1>1, <1>5, Zenon
  <2>3. Fresh' = Fresh
    BY <2>1 DEF Fresh, Current, OlderAnswerUnderWay, Pushed
  <2>4. Answered' /\ Mounted'
    BY <1>5, <2>1 DEF Answered, Mounted
  <2> QED
    BY <1>2, <1>3, <2>2, <2>3, <2>4, Zenon
<1> QED
  BY <1>4, <1>5

\* What is mounted and due is asked for.
LEMMA DueKeeps ==
    ASSUME LiveTypeOK, Answered, UNCHANGED <<key, server>>, NEW there \in BOOLEAN,
           Put(AskIfDue(query, StaleAtOnce, there))
    PROVE  /\ query' \in Entries(LiveValues) /\ excused' \in BOOLEAN
           /\ Answered' /\ Mounted' /\ (excused \/ Fresh => excused' \/ Fresh')
<1>1. query \in Entries(LiveValues) /\ StaleAtOnce \in BOOLEAN
  BY TypeFacts
<1>2. PICK q : q = AskIfDue(query, StaleAtOnce, there)
  OBVIOUS
<1>3. Put(q)
  BY <1>2, Zenon
<1>4. /\ q \in Entries(LiveValues)
      /\ \/ q.fetch \in {"asked", "paused"} /\ q.answer = {}
         \/ q = query /\ (query.fetch # "idle" \/ (query.data # {} /\ ~query.invalid))
  BY <1>1, <1>2, AskIfDueFacts
<1> QED
  BY <1>3, <1>4, PutKeeps

\* A request starts.
LEMMA AskKeeps ==
    ASSUME LiveTypeOK, Answered, UNCHANGED <<key, server>>, NEW there \in BOOLEAN,
           Put(Ask(query, there))
    PROVE  /\ query' \in Entries(LiveValues) /\ excused' \in BOOLEAN
           /\ Answered' /\ Mounted' /\ (excused \/ Fresh => excused' \/ Fresh')
<1>1. query \in Entries(LiveValues)
  BY TypeFacts
<1>2. PICK q : q = Ask(query, there)
  OBVIOUS
<1>3. Put(q)
  BY <1>2, Zenon
<1>4. q \in Entries(LiveValues) /\ q.fetch \in {"asked", "paused"} /\ q.answer = {}
  BY <1>1, <1>2, AskFacts
<1> QED
  BY <1>3, <1>4, PutKeeps
-----------------------------------------------------------------------------
(* Steps.                                                                      *)

\* A step that leaves the hub and the server alone.
LEMMA HubFrame ==
    ASSUME IInv, UNCHANGED <<key, server, hubVars>>, excused \/ Fresh => excused' \/ Fresh'
    PROVE  Linked' /\ WireNewest' /\ Told'
<1>1. /\ wire' = wire /\ link' = link /\ phase' = phase /\ hasConnected' = hasConnected
      /\ key' = key /\ server' = server
  BY DEF hubVars
<1>2. Linked' /\ WireNewest'
  BY <1>1 DEF IInv, Linked, WireNewest
<1>3. (RefreshComing' <=> RefreshComing)
      /\ ((\E i \in DOMAIN wire : Relevant(wire[i]))' <=> (\E i \in DOMAIN wire : Relevant(wire[i])))
  BY <1>1 DEF RefreshComing, Relevant
<1> QED
  BY <1>2, <1>3, Zenon DEF IInv, Told

\* A step that leaves the entry and its server alone.
LEMMA EntryFrame ==
    ASSUME IInv, UNCHANGED <<key, server, page, cacheVars>>
    PROVE  Answered' /\ Mounted' /\ (Fresh' <=> Fresh) /\ excused' = excused
<1>1. key' = key /\ server' = server /\ page' = page /\ query' = query /\ excused' = excused
  BY DEF cacheVars
<1> QED
  BY <1>1 DEF IInv, Answered, Mounted, Observed, Fresh, Current, OlderAnswerUnderWay, Pushed

\* The steps of the connection.
LEMMA ConnectionStep ==
    ASSUME IInv, Open \/ StartResolves \/ Reconnected \/ Break \/ Notice \/ GiveUp
    PROVE  IInv'
<1> USE DEF IInv
<1>0. LiveTypeOK /\ Answered /\ key \in Keys
  BY TypeFacts
<1>1. CASE Open
  <2>1. Answered' /\ Mounted' /\ (Fresh' <=> Fresh) /\ excused' = excused
    BY <1>1, EntryFrame DEF Open
  <2>2. LiveTypeOK'
    BY <1>0, <1>1 DEF LiveTypeOK, Open, cacheVars
  <2>3. Linked' /\ WireNewest'
    BY <1>1 DEF Open, Linked, WireNewest, cacheVars
  <2>4. (\E i \in DOMAIN wire : Relevant(wire[i]))' <=> \E i \in DOMAIN wire : Relevant(wire[i])
    BY <1>1 DEF Open, Relevant
  <2>5. RefreshComing => RefreshComing'
    BY <1>1 DEF Open, RefreshComing, Linked
  <2>6. Told'
    BY <2>1, <2>4, <2>5, Zenon DEF Told
  <2> QED
    BY <2>1, <2>2, <2>3, <2>6
<1>2. CASE StartResolves
  <2>1. CASE hasConnected
    <3>1. Refresh(Keys) /\ UNCHANGED <<key, server, page>>
      BY <1>2, <2>1 DEF StartResolves
    <3>2. /\ query' \in Entries(LiveValues) /\ excused' \in BOOLEAN
          /\ Answered' /\ Mounted' /\ (excused' \/ Fresh')
      BY <1>0, <3>1, RefreshKeeps
    <3>3. LiveTypeOK'
      BY <1>0, <1>2, <3>2 DEF LiveTypeOK, StartResolves, LiveValues
    <3>4. Linked' /\ WireNewest'
      BY <1>2 DEF StartResolves, Linked, WireNewest
    <3> QED
      BY <3>2, <3>3, <3>4 DEF Told
  <2>2. CASE ~hasConnected
    <3>1. UNCHANGED <<key, server, page, cacheVars, wire, link>>
      BY <1>2, <2>2 DEF StartResolves
    <3>2. Answered' /\ Mounted' /\ (Fresh' <=> Fresh) /\ excused' = excused
      BY <3>1, EntryFrame
    <3>3. LiveTypeOK'
      BY <1>0, <1>2, <3>1 DEF LiveTypeOK, StartResolves, cacheVars
    <3>4. Linked' /\ WireNewest'
      BY <1>2 DEF StartResolves, Linked, WireNewest
    <3>5. (\E i \in DOMAIN wire : Relevant(wire[i]))' <=> \E i \in DOMAIN wire : Relevant(wire[i])
      BY <3>1 DEF Relevant
    <3>6. RefreshComing => RefreshComing'
      BY <1>2, <2>2, <3>1 DEF StartResolves, RefreshComing, Linked
    <3>7. Told'
      BY <3>2, <3>5, <3>6, Zenon DEF Told
    <3> QED
      BY <3>2, <3>3, <3>4, <3>7
  <2> QED
    BY <2>1, <2>2
<1>3. CASE Reconnected
  <2>1. Refresh(Keys) /\ UNCHANGED <<key, server, page>>
    BY <1>3 DEF Reconnected
  <2>2. /\ query' \in Entries(LiveValues) /\ excused' \in BOOLEAN
        /\ Answered' /\ Mounted' /\ (excused' \/ Fresh')
    BY <1>0, <2>1, RefreshKeeps
  <2>3. LiveTypeOK'
    BY <1>0, <1>3, <2>2 DEF LiveTypeOK, Reconnected, LiveValues
  <2>4. Linked' /\ WireNewest'
    BY <1>3 DEF Reconnected, Linked, WireNewest
  <2> QED
    BY <2>2, <2>3, <2>4 DEF Told
<1>4. CASE Break
  <2>1. Answered' /\ Mounted'
    BY <1>4, EntryFrame DEF Break
  <2>2. LiveTypeOK'
    BY <1>0, <1>4, ViewsAssumption DEF LiveTypeOK, Break, cacheVars
  <2>3. Linked' /\ WireNewest' /\ Told'
    BY <1>4 DEF Break, Linked, WireNewest, Told, RefreshComing
  <2> QED
    BY <2>1, <2>2, <2>3
<1>5. CASE Notice \/ GiveUp
  <2>1. Answered' /\ Mounted'
    BY <1>5, EntryFrame DEF Notice, GiveUp
  <2>2. LiveTypeOK'
    BY <1>0, <1>5 DEF LiveTypeOK, Notice, GiveUp, cacheVars
  <2>3. Linked' /\ WireNewest'
    BY <1>5 DEF Notice, GiveUp, Linked, WireNewest
  <2>4. RefreshComing'
    BY <1>5 DEF Notice, GiveUp, Linked, RefreshComing
  <2> QED
    BY <2>1, <2>2, <2>3, <2>4 DEF Told
<1> QED
  BY <1>1, <1>2, <1>3, <1>4, <1>5

\* A push's handler leaves the others as they were.
LEMMA TailFacts ==
    ASSUME NEW S, NEW s \in Seq(S), s # <<>>
    PROVE  /\ Head(s) = s[1] /\ 1 \in DOMAIN s /\ Tail(s) \in Seq(S)
           /\ \A i \in DOMAIN Tail(s) : i + 1 \in DOMAIN s /\ Tail(s)[i] = s[i + 1]
           /\ \A i \in DOMAIN s : i # 1 => i - 1 \in DOMAIN Tail(s) /\ Tail(s)[i - 1] = s[i]
OBVIOUS

\* A push of the wire is what its type says.
LEMMA PushFacts ==
    ASSUME NEW p \in PushType
    PROVE  /\ p.type \in {"batch", "command"}
           /\ p.type = "batch" => p.value \in LiveValues
BY DEF PushType

\* What the handlers of pushes share.
LEMMA HandlerFrame ==
    ASSUME IInv, wire # <<>>, wire' = Tail(wire),
           UNCHANGED <<key, server, link, phase, hasConnected>>
    PROVE  /\ Linked' /\ WireNewest' /\ wire' \in Seq(PushType) /\ Head(wire) \in PushType
           /\ RefreshComing' <=> RefreshComing
           /\ (\E i \in DOMAIN wire : Relevant(wire[i])) =>
                 Relevant(Head(wire)) \/ (\E i \in DOMAIN wire : Relevant(wire[i]))'
<1>1. wire \in Seq(PushType)
  BY TypeFacts DEF IInv
<1>2. /\ Head(wire) = wire[1] /\ 1 \in DOMAIN wire /\ Tail(wire) \in Seq(PushType)
      /\ \A i \in DOMAIN Tail(wire) : i + 1 \in DOMAIN wire /\ Tail(wire)[i] = wire[i + 1]
      /\ \A i \in DOMAIN wire : i # 1 => i - 1 \in DOMAIN Tail(wire) /\ Tail(wire)[i - 1] = wire[i]
  BY <1>1, TailFacts
<1>3. Head(wire) \in PushType
  BY <1>1, <1>2
<1>4. Linked' /\ (RefreshComing' <=> RefreshComing)
  BY DEF IInv, Linked, RefreshComing
<1>5. WireNewest'
  <2> SUFFICES ASSUME NEW i \in DOMAIN wire', wire'[i].type = "batch",
                      wire'[i].value.days # server'.days
               PROVE  \E j \in DOMAIN wire' : j > i /\ wire'[j].type = "batch"
    BY DEF WireNewest
  <2>1. i \in Nat /\ i + 1 \in DOMAIN wire /\ wire[i + 1] = wire'[i]
    BY <1>1, <1>2
  <2>2. PICK j \in DOMAIN wire : j > i + 1 /\ wire[j].type = "batch"
    BY <2>1 DEF IInv, WireNewest
  <2>3. j \in Nat /\ j # 1 /\ j - 1 > i
    BY <1>1, <2>1, <2>2
  <2>4. j - 1 \in DOMAIN wire' /\ wire'[j - 1] = wire[j]
    BY <1>2, <2>2, <2>3
  <2> QED
    BY <2>2, <2>3, <2>4
<1>6. (\E i \in DOMAIN wire : Relevant(wire[i])) =>
          Relevant(Head(wire)) \/ (\E i \in DOMAIN wire : Relevant(wire[i]))'
  <2>1. ASSUME NEW i \in DOMAIN wire, Relevant(wire[i]), ~Relevant(Head(wire))
        PROVE  (\E j \in DOMAIN wire : Relevant(wire[j]))'
    <3>1. i # 1
      BY <1>2, <2>1
    <3>2. i - 1 \in DOMAIN wire' /\ wire'[i - 1] = wire[i]
      BY <1>2, <3>1
    <3> QED
      BY <2>1, <3>2 DEF Relevant
  <2> QED
    BY <2>1, Zenon
<1> QED
  BY <1>2, <1>3, <1>4, <1>5, <1>6

\* The summary and its server agree where their days do.
LEMMA SameDays ==
    ASSUME key = "summary", NEW v \in LiveValues, NEW w \in LiveValues, v.days = w.days
    PROVE  Pushed(v) = Pushed(w)
BY DEF Pushed, LiveValues

\* A refresh by a handler, or none where the entry is not refreshed.
LEMMA RefreshStep ==
    ASSUME IInv, UNCHANGED <<key, server, page>>, NEW keys, Refresh(keys)
    PROVE  /\ query' \in Entries(LiveValues) /\ excused' \in BOOLEAN
           /\ Answered' /\ Mounted'
           /\ key \in keys => excused' \/ Fresh'
           /\ excused \/ Fresh => excused' \/ Fresh'
<1>1. CASE key \in keys
  BY <1>1, RefreshKeeps DEF IInv
<1>2. CASE key \notin keys
  <2>1. UNCHANGED cacheVars
    BY <1>2 DEF Refresh
  <2>2. query' = query /\ excused' = excused
    BY <2>1 DEF cacheVars
  <2>3. Answered' /\ Mounted' /\ (Fresh' <=> Fresh)
    BY <2>1, EntryFrame
  <2>4. query' \in Entries(LiveValues) /\ excused' \in BOOLEAN
    BY <2>2, TypeFacts DEF IInv
  <2> QED
    BY <1>2, <2>2, <2>3, <2>4
<1> QED
  BY <1>1, <1>2

\* The handler of BatchClosed.
LEMMA HandleBatchStep ==
    ASSUME IInv, HandleBatch
    PROVE  IInv'
<1>0. LiveTypeOK /\ Answered /\ Mounted /\ Told /\ WireNewest
  BY DEF IInv
<1>1. /\ wire # <<>> /\ Head(wire).type = "batch" /\ wire' = Tail(wire)
      /\ UNCHANGED <<key, server, page, link, phase, hasConnected, drops, online, reply>>
  BY DEF HandleBatch
<1>2. /\ Linked' /\ WireNewest' /\ wire' \in Seq(PushType) /\ Head(wire) \in PushType
      /\ RefreshComing' <=> RefreshComing
      /\ (\E i \in DOMAIN wire : Relevant(wire[i])) =>
            Relevant(Head(wire)) \/ (\E i \in DOMAIN wire : Relevant(wire[i]))'
  BY <1>1, HandlerFrame
<1>3. query' \in Entries(LiveValues) /\ excused' \in BOOLEAN => LiveTypeOK'
  BY <1>0, <1>1, <1>2 DEF LiveTypeOK, LiveValues, PushType
<1>4. CASE key = "summary"
  <2>1. query' = SetData(query, Head(wire).value) /\ excused' = OlderAnswerUnderWay
    BY <1>4, Zenon DEF HandleBatch
  <2>2. /\ Head(wire).value \in LiveValues /\ query \in Entries(LiveValues) /\ server \in LiveValues
        /\ OlderAnswerUnderWay \in BOOLEAN
    BY <1>0, <1>1, <1>2, PushFacts, TypeFacts
  <2>3. /\ query' \in Entries(LiveValues) /\ query'.fetch = query.fetch
        /\ query'.data = {Head(wire).value} /\ query'.answer = query.answer
        /\ ~query'.invalid
    <3>1. PICK v \in LiveValues : v = Head(wire).value
      BY <2>2
    <3>2. PICK q \in Entries(LiveValues) : q = query
      BY <2>2
    <3>3. PICK r : r = query'
      OBVIOUS
    <3>4. r = SetData(q, v)
      BY <2>1, <3>1, <3>2, <3>3, Zenon
    <3>5. /\ r \in Entries(LiveValues)
          /\ r.fetch = q.fetch /\ r.data = {v} /\ r.answer = q.answer /\ ~r.invalid
      BY <3>4, SetDataFacts
    <3> QED
      BY <3>1, <3>2, <3>3, <3>5
  <2>4. Answered' /\ Mounted'
    BY <1>0, <2>3 DEF Answered, Mounted
  <2>5. excused' \/ ~OlderAnswerUnderWay'
    BY <1>1, <2>1, <2>3 DEF OlderAnswerUnderWay, Pushed
  <2>6. ASSUME ~(\E i \in DOMAIN wire : Relevant(wire[i]))'
        PROVE  Current'
    <3>1. \A i \in DOMAIN wire : i # 1 => wire[i].type # "batch"
      <4> SUFFICES ASSUME NEW i \in DOMAIN wire, i # 1, wire[i].type = "batch" PROVE FALSE
        OBVIOUS
      <4>1. i - 1 \in DOMAIN wire' /\ wire'[i - 1] = wire[i]
        BY <1>0, <1>1, TypeFacts, TailFacts
      <4>2. wire'[i - 1].type = "batch" /\ key' # "devices"
        BY <1>1, <1>4, <4>1
      <4> QED
        BY <2>6, <4>1, <4>2 DEF Relevant
    <3>2. wire[1] = Head(wire) /\ 1 \in DOMAIN wire
      BY <1>0, <1>1, TypeFacts, TailFacts
    <3>3. Head(wire).value.days = server.days
      BY <1>0, <1>1, <3>1, <3>2 DEF WireNewest
    <3>4. Pushed(Head(wire).value) = Pushed(server)
      BY <1>4, <2>2, <3>3, SameDays
    <3> QED
      BY <1>1, <2>3, <3>4 DEF Current, Pushed
  <2>7. Told'
    BY <2>5, <2>6, Zenon DEF Told, Fresh
  <2>8. excused' \in BOOLEAN
    BY <2>1, <2>2
  <2> QED
    BY <1>2, <1>3, <2>3, <2>4, <2>7, <2>8 DEF IInv
<1>5. CASE key # "summary"
  <2>1. Refresh(RefreshedByBatch)
    BY <1>5, Zenon DEF HandleBatch
  <2>2. /\ query' \in Entries(LiveValues) /\ excused' \in BOOLEAN
        /\ Answered' /\ Mounted'
        /\ key \in RefreshedByBatch => excused' \/ Fresh'
        /\ excused \/ Fresh => excused' \/ Fresh'
    BY <1>1, <2>1, RefreshStep
  <2>3. Relevant(Head(wire)) => key \in RefreshedByBatch
    BY <1>0, <1>1, <1>5, TypeFacts DEF Relevant, Keys, RefreshedByBatch
  <2>4. Told'
    BY <1>0, <1>2, <2>2, <2>3, Zenon DEF Told
  <2> QED
    BY <1>2, <1>3, <2>2, <2>4 DEF IInv
<1> QED
  BY <1>4, <1>5

\* The handler of CommandsChanged.
LEMMA HandleCommandStep ==
    ASSUME IInv, HandleCommand
    PROVE  IInv'
<1>0. LiveTypeOK /\ Told
  BY DEF IInv
<1>1. /\ wire # <<>> /\ Head(wire).type = "command" /\ wire' = Tail(wire)
      /\ UNCHANGED <<key, server, page, link, phase, hasConnected, drops, online, reply>>
      /\ Refresh(RefreshedByCommand)
  BY DEF HandleCommand
<1>2. /\ Linked' /\ WireNewest' /\ wire' \in Seq(PushType)
      /\ RefreshComing' <=> RefreshComing
      /\ (\E i \in DOMAIN wire : Relevant(wire[i])) =>
            Relevant(Head(wire)) \/ (\E i \in DOMAIN wire : Relevant(wire[i]))'
  BY <1>1, HandlerFrame
<1>3. /\ query' \in Entries(LiveValues) /\ excused' \in BOOLEAN
      /\ Answered' /\ Mounted'
      /\ key \in RefreshedByCommand => excused' \/ Fresh'
      /\ excused \/ Fresh => excused' \/ Fresh'
  BY <1>1, RefreshStep
<1>4. LiveTypeOK'
  BY <1>0, <1>1, <1>2, <1>3 DEF LiveTypeOK, LiveValues, PushType
<1>5. Relevant(Head(wire)) => key \in RefreshedByCommand
  BY <1>1 DEF Relevant
<1>6. Told'
  BY <1>0, <1>2, <1>3, <1>5, Zenon DEF Told
<1> QED
  BY <1>2, <1>3, <1>4, <1>6 DEF IInv

\* A step of the pages, the user or the requests: what is left is its effect on
\* the entry and the types of the other variables.
LEMMA PageStep ==
    ASSUME IInv, UNCHANGED <<key, server, hubVars>>,
           online' \in BOOLEAN, page' \in Pages, reply' \in {"none", "asked", "done"},
           query' \in Entries(LiveValues), excused' \in BOOLEAN,
           Answered', Mounted', excused \/ Fresh => excused' \/ Fresh'
    PROVE  IInv'
<1>1. Linked' /\ WireNewest' /\ Told'
  BY HubFrame
<1>2. LiveTypeOK'
  BY DEF IInv, LiveTypeOK, LiveValues, hubVars
<1> QED
  BY <1>1, <1>2 DEF IInv

\* The same where the entry stays as it is.
LEMMA OtherStep ==
    ASSUME IInv, UNCHANGED <<key, server, hubVars, page, cacheVars>>,
           online' \in BOOLEAN, reply' \in {"none", "asked", "done"}
    PROVE  IInv'
<1>1. Answered' /\ Mounted' /\ (Fresh' <=> Fresh) /\ excused' = excused
  BY EntryFrame
<1>2. query' \in Entries(LiveValues) /\ excused' \in BOOLEAN /\ page' \in Pages
  BY TypeFacts DEF IInv, cacheVars
<1> QED
  BY <1>1, <1>2, PageStep

\* A page is mounted.
LEMMA VisitStep ==
    ASSUME IInv, NEW p \in Pages, Visit(p)
    PROVE  IInv'
<1>0. /\ LiveTypeOK /\ Answered /\ Mounted /\ page' = p
      /\ UNCHANGED <<key, server, hubVars, online, reply>>
  BY DEF IInv, Visit
<1>1. online' \in BOOLEAN /\ page' \in Pages /\ reply' \in {"none", "asked", "done"}
  BY <1>0 DEF LiveTypeOK
<1>2. CASE key \in Shows[p] \ (IF {p, page} = {"devices", "results"} THEN Shows[page] ELSE {})
  <2>1. Put(AskIfDue(query, StaleAtOnce, online))
    BY <1>2, Zenon DEF Visit
  <2>2. online \in BOOLEAN
    BY <1>0 DEF LiveTypeOK
  <2>3. /\ query' \in Entries(LiveValues) /\ excused' \in BOOLEAN
        /\ Answered' /\ Mounted' /\ (excused \/ Fresh => excused' \/ Fresh')
    BY <1>0, <2>1, <2>2, DueKeeps
  <2> QED
    BY <1>0, <1>1, <2>3, PageStep
<1>3. CASE key \notin Shows[p] \ (IF {p, page} = {"devices", "results"} THEN Shows[page] ELSE {})
  <2>1. UNCHANGED cacheVars
    BY <1>3, Zenon DEF Visit
  <2>2. query' = query /\ excused' = excused
    BY <2>1 DEF cacheVars
  <2>3. key' \in Shows[page'] => key \in Shows[page]
    BY <1>0, <1>3
  <2>4. Mounted'
    BY <1>0, <2>2, <2>3 DEF Mounted, Observed
  <2>5. Answered'
    BY <1>0, <2>2 DEF Answered
  <2>6. Fresh' <=> Fresh
    BY <1>0, <2>2 DEF Fresh, Current, OlderAnswerUnderWay, Pushed
  <2>7. query' \in Entries(LiveValues) /\ excused' \in BOOLEAN
    BY <1>0, <2>2, TypeFacts
  <2> QED
    BY <1>0, <1>1, <2>2, <2>4, <2>5, <2>6, <2>7, PageStep
<1> QED
  BY <1>2, <1>3

\* The other steps that ask for the entry, or flag it.
LEMMA RequestStep ==
    ASSUME IInv, Focus \/ Retry \/ GoOnline \/ AttemptFails \/ AllAttemptsFail \/ Collect
    PROVE  IInv'
<1>0. /\ LiveTypeOK /\ Answered /\ Mounted
      /\ query \in Entries(LiveValues) /\ online \in BOOLEAN /\ excused \in BOOLEAN
      /\ page \in Pages /\ reply \in {"none", "asked", "done"}
  BY TypeFacts DEF IInv, LiveTypeOK
<1>1. CASE Focus
  <2>1. Put(AskIfDue(query, StaleAtOnce, online)) /\ UNCHANGED <<key, server, hubVars, online, page, reply>>
    BY <1>1 DEF Focus
  <2>2. /\ query' \in Entries(LiveValues) /\ excused' \in BOOLEAN
        /\ Answered' /\ Mounted' /\ (excused \/ Fresh => excused' \/ Fresh')
    BY <1>0, <2>1, DueKeeps
  <2> QED
    BY <1>0, <2>1, <2>2, PageStep
<1>2. CASE Retry
  <2>1. Put(Ask(query, online)) /\ UNCHANGED <<key, server, hubVars, online, page, reply>>
    BY <1>2 DEF Retry
  <2>2. /\ query' \in Entries(LiveValues) /\ excused' \in BOOLEAN
        /\ Answered' /\ Mounted' /\ (excused \/ Fresh => excused' \/ Fresh')
    BY <1>0, <2>1, AskKeeps
  <2> QED
    BY <1>0, <2>1, <2>2, PageStep
<1>3. CASE GoOnline
  <2>1. online' = TRUE /\ UNCHANGED <<key, server, hubVars, page, reply>>
    BY <1>3 DEF GoOnline
  <2>2. CASE Put(Ask(query, TRUE)) \/ Put(AskIfDue(query, StaleAtOnce, TRUE))
    <3>1. /\ query' \in Entries(LiveValues) /\ excused' \in BOOLEAN
          /\ Answered' /\ Mounted' /\ (excused \/ Fresh => excused' \/ Fresh')
      BY <1>0, <2>1, <2>2, AskKeeps, DueKeeps
    <3> QED
      BY <1>0, <2>1, <3>1, PageStep
  <2>3. CASE UNCHANGED cacheVars
    BY <1>0, <2>1, <2>3, OtherStep
  <2> QED
    BY <1>3, <2>2, <2>3, Zenon DEF GoOnline
<1>4. CASE AttemptFails
  <2>1. PICK q : q = [query EXCEPT !.fetch = IF online THEN "asked" ELSE "paused", !.answer = {}]
    OBVIOUS
  <2>2. Put(q) /\ UNCHANGED <<key, server, hubVars, online, page, reply>>
    BY <1>4, <2>1, Zenon DEF AttemptFails
  <2>3. q \in Entries(LiveValues) /\ q.fetch \in {"asked", "paused"} /\ q.answer = {}
    BY <1>0, <2>1 DEF Entries
  <2>4. /\ query' \in Entries(LiveValues) /\ excused' \in BOOLEAN
        /\ Answered' /\ Mounted' /\ (excused \/ Fresh => excused' \/ Fresh')
    BY <1>0, <2>2, <2>3, PutKeeps
  <2> QED
    BY <1>0, <2>2, <2>4, PageStep
<1>5. CASE AllAttemptsFail
  <2>1. PICK q : q = Fail(query)
    OBVIOUS
  <2>2. Put(q) /\ UNCHANGED <<key, server, hubVars, online, page, reply>>
    BY <1>5, <2>1, Zenon DEF AllAttemptsFail
  <2>3. q \in Entries(LiveValues) /\ q.fetch = "idle" /\ q.error /\ q.answer = {} /\ q.invalid
    BY <1>0, <2>1, FailFacts
  <2>4. query' = q /\ excused' = (excused /\ q.fetch \notin {"asked", "paused"})
    BY <2>2 DEF Put
  <2>5. excused' \in BOOLEAN
    BY <2>4, Zenon
  <2>6. query' \in Entries(LiveValues) /\ Answered' /\ Mounted' /\ Fresh'
    BY <2>3, <2>4 DEF Answered, Mounted, Fresh
  <2> QED
    BY <1>0, <2>2, <2>5, <2>6, PageStep
<1>6. CASE Collect
  <2>1. /\ query' = NoEntry /\ ~Observed
        /\ excused' = (excused /\ NoEntry.fetch \notin {"asked", "paused"})
        /\ UNCHANGED <<key, server, hubVars, online, page, reply>>
    BY <1>6 DEF Collect, Put
  <2>2. excused' \in BOOLEAN
    BY <2>1, Zenon
  <2>3. ~Observed'
    BY <2>1 DEF Observed
  <2>4. /\ query' \in Entries(LiveValues)
        /\ query'.fetch = "idle" /\ query'.data = {} /\ query'.answer = {}
    BY <2>1, NoEntryFacts
  <2>5. Answered' /\ Mounted' /\ Fresh'
    BY <2>3, <2>4 DEF Answered, Mounted, Fresh, Current
  <2> QED
    BY <1>0, <2>1, <2>2, <2>4, <2>5, PageStep
<1> QED
  BY <1>1, <1>2, <1>3, <1>4, <1>5, <1>6

\* The server computes the answer, and it arrives.
LEMMA AnswerStep ==
    ASSUME IInv, Answer \/ Arrive
    PROVE  IInv'
<1>0. /\ LiveTypeOK /\ Answered /\ Mounted
      /\ query \in Entries(LiveValues) /\ online \in BOOLEAN /\ excused \in BOOLEAN
      /\ page \in Pages /\ reply \in {"none", "asked", "done"} /\ server \in LiveValues
  BY TypeFacts DEF IInv, LiveTypeOK
<1>1. UNCHANGED <<key, server, hubVars, online, page, excused, reply>>
  BY DEF Answer, Arrive
<1>2. CASE Answer
  <2>1. query' = Compute(query, server)
    BY <1>2 DEF Answer
  <2>2. query' \in Entries(LiveValues) /\ query'.fetch = "answered" /\ query'.answer = {server}
    BY <1>0, <2>1, ComputeFacts
  <2>3. Answered' /\ Mounted'
    BY <2>2 DEF Answered, Mounted
  <2>4. Fresh'
    BY <1>1, <2>2 DEF Fresh, OlderAnswerUnderWay, Pushed
  <2> QED
    BY <1>0, <1>1, <2>2, <2>3, <2>4, PageStep
<1>3. CASE Arrive
  <2>1. query' = Settle(query) /\ query.fetch = "answered"
    BY <1>3 DEF Arrive
  <2>2. /\ query' \in Entries(LiveValues)
        /\ query'.fetch = "idle" /\ query'.data = query.answer /\ query'.answer = {} /\ ~query'.invalid
    BY <1>0, <2>1, SettleFacts
  <2>3. Answered' /\ Mounted'
    BY <1>0, <2>1, <2>2 DEF Answered, Mounted
  <2>4. Fresh => Fresh'
    BY <1>1, <2>1, <2>2 DEF Fresh, OlderAnswerUnderWay, Current, Pushed
  <2> QED
    BY <1>0, <1>1, <2>2, <2>3, <2>4, PageStep
<1> QED
  BY <1>2, <1>3

\* The commands of this client.
LEMMA CommandStep ==
    ASSUME IInv, SendCommand \/ CommandSucceeds \/ CommandFails \/ GoOffline
    PROVE  IInv'
<1>0. /\ LiveTypeOK /\ online \in BOOLEAN /\ page \in Pages /\ reply \in {"none", "asked", "done"}
  BY DEF IInv, LiveTypeOK
<1>1. CASE SendCommand \/ CommandFails \/ GoOffline
  <2>1. UNCHANGED <<key, server, hubVars, page, cacheVars>>
    BY <1>1 DEF SendCommand, CommandFails, GoOffline
  <2>2. online' \in BOOLEAN /\ reply' \in {"none", "asked", "done"}
    BY <1>0, <1>1 DEF SendCommand, CommandFails, GoOffline
  <2> QED
    BY <2>1, <2>2, OtherStep
<1>2. CASE CommandSucceeds
  <2>1. /\ Refresh({"commands", "device", "insights"}) /\ reply' = "none"
        /\ UNCHANGED <<key, server, hubVars, online, page>>
    BY <1>2 DEF CommandSucceeds
  <2>2. /\ query' \in Entries(LiveValues) /\ excused' \in BOOLEAN
        /\ Answered' /\ Mounted'
        /\ excused \/ Fresh => excused' \/ Fresh'
    BY <2>1, RefreshStep
  <2> QED
    BY <1>0, <2>1, <2>2, PageStep
<1> QED
  BY <1>1, <1>2

\* A change of the server's state, with the push that tells of it.
LEMMA AnnounceKeeps ==
    ASSUME IInv, UNCHANGED <<key, link, phase, hasConnected, page, query>>,
           NEW push \in PushType, NEW keys, Announce(push, keys), server' \in LiveValues,
           push.type = "batch" => push.value = server',
           push.type = "command" => server'.days = server.days,
           Relevant(push) <=> key \in keys,
           key \notin keys => Pushed(server)' = Pushed(server)
    PROVE  /\ wire' \in Seq(PushType) /\ excused' \in BOOLEAN
           /\ Linked' /\ WireNewest' /\ Answered' /\ Mounted' /\ Told'
<1>0. /\ wire \in Seq(PushType) /\ excused \in BOOLEAN
      /\ Linked /\ WireNewest /\ Answered /\ Mounted /\ Told
  BY TypeFacts DEF IInv
<1>1. Answered' /\ Mounted'
  BY <1>0 DEF Answered, Mounted, Observed
<1>2. RefreshComing' <=> RefreshComing
  BY DEF RefreshComing
<1>3. ASSUME key \notin keys PROVE Fresh' <=> Fresh
  BY <1>3 DEF Fresh, Current, OlderAnswerUnderWay, Pushed
<1>4. CASE link = "up"
  <2>1. wire' = Append(wire, push) /\ excused' = excused
    BY <1>4, Zenon DEF Announce
  <2>2. /\ wire' \in Seq(PushType) /\ Len(wire') = Len(wire) + 1 /\ Len(wire) \in Nat
        /\ wire'[Len(wire) + 1] = push
        /\ \A i \in DOMAIN wire : i \in DOMAIN wire' /\ wire'[i] = wire[i]
        /\ Len(wire) + 1 \in DOMAIN wire'
        /\ \A i \in DOMAIN wire' : i \in DOMAIN wire \/ i = Len(wire) + 1
        /\ \A i \in DOMAIN wire : i \in Nat /\ Len(wire) + 1 > i
    BY <1>0, <2>1
  <2>3. Linked'
    BY <1>0, <1>4, <2>2 DEF Linked
  <2>4. push.type \in {"batch", "command"}
    BY PushFacts
  <2>5. WireNewest'
    <3> SUFFICES ASSUME NEW i \in DOMAIN wire', wire'[i].type = "batch",
                        wire'[i].value.days # server'.days
                 PROVE  \E j \in DOMAIN wire' : j > i /\ wire'[j].type = "batch"
      BY DEF WireNewest
    <3>1. i \in DOMAIN wire /\ wire[i] = wire'[i]
      BY <2>2
    <3>2. CASE push.type = "batch"
      BY <2>2, <3>1, <3>2
    <3>3. CASE push.type = "command"
      <4>1. PICK j \in DOMAIN wire : j > i /\ wire[j].type = "batch"
        BY <1>0, <3>1, <3>3 DEF WireNewest
      <4> QED
        BY <2>2, <4>1
    <3> QED
      BY <2>4, <3>2, <3>3
  <2>6. (\E i \in DOMAIN wire : Relevant(wire[i])) => (\E i \in DOMAIN wire : Relevant(wire[i]))'
    BY <2>2 DEF Relevant
  <2>7. key \in keys => (\E i \in DOMAIN wire : Relevant(wire[i]))'
    BY <2>2 DEF Relevant
  <2>8. Told'
    BY <1>0, <1>2, <1>3, <2>1, <2>6, <2>7, Zenon DEF Told
  <2> QED
    BY <1>0, <1>1, <2>1, <2>2, <2>3, <2>5, <2>8
<1>5. CASE link # "up"
  <2>1. wire' = wire /\ wire = <<>>
    BY <1>0, <1>5 DEF Announce, Linked
  <2>2. excused' = \/ excused
                   \/ /\ ~hasConnected /\ link = "none" /\ key \in keys
                      /\ \/ query.fetch = "answered"
                         \/ query.fetch = "idle" /\ query.data # {}
    BY <1>5, Zenon DEF Announce
  <2>3. excused' \in BOOLEAN
    BY <1>0, <2>2, Zenon
  <2>4. wire' \in Seq(PushType) /\ Linked' /\ WireNewest'
    BY <1>0, <2>1 DEF Linked, WireNewest
  <2>5. Told'
    <3>1. CASE RefreshComing
      BY <1>2, <3>1, Zenon DEF Told
    <3>2. CASE ~RefreshComing
      <4>1. ~hasConnected /\ link = "none"
        BY <1>0, <1>5, <3>2, TypeFacts DEF RefreshComing, IInv, LiveTypeOK
      <4>2. excused \/ Fresh
        BY <1>0, <2>1, <3>2 DEF Told
      <4>3. CASE key \in keys
        <5>1. CASE query.fetch = "answered" \/ (query.fetch = "idle" /\ query.data # {})
          <6>1. excused'
            BY <2>2, <4>1, <4>3, <5>1, Zenon
          <6> QED
            BY <6>1, Zenon DEF Told
        <5>2. CASE ~(query.fetch = "answered" \/ (query.fetch = "idle" /\ query.data # {}))
          <6>1. Fresh'
            BY <5>2 DEF Fresh, Current
          <6> QED
            BY <6>1, Zenon DEF Told
        <5> QED
          BY <5>1, <5>2
      <4>4. CASE key \notin keys
        <5>1. excused => excused'
          BY <2>2, Zenon
        <5> QED
          BY <1>3, <4>2, <4>4, <5>1, Zenon DEF Told
      <4> QED
        BY <4>3, <4>4
    <3> QED
      BY <3>1, <3>2
  <2> QED
    BY <1>1, <2>3, <2>4, <2>5
<1> QED
  BY <1>4, <1>5

\* The steps of the server.
LEMMA ServerChanges ==
    ASSUME IInv, CloseDay \/ OtherCommand \/ OwnCommand
    PROVE  IInv'
<1>0. LiveTypeOK /\ server \in LiveValues /\ key \in Keys
  BY TypeFacts DEF IInv
<1>1. /\ UNCHANGED <<key, link, phase, hasConnected, drops, online, page, query>>
      /\ reply' \in {"none", "asked", "done"}
  BY <1>0 DEF CloseDay, OtherCommand, OwnCommand, LiveTypeOK
<1>2. CASE CloseDay
  <2> DEFINE push == [type |-> "batch", value |-> server']
             keys == RefreshedByBatch \cup {"summary"}
  <2>1. Announce(push, keys) /\ server.days < MaxDays /\ server' = [server EXCEPT !.days = @ + 1]
    BY <1>2, Zenon DEF CloseDay
  <2>2. server' \in LiveValues
    BY <1>0, <2>1, ViewsAssumption DEF LiveValues
  <2>3. push \in PushType /\ push.type = "batch" /\ push.value = server'
    BY <2>2 DEF PushType
  <2>4. Relevant(push) <=> key \in keys
    BY <1>0, <2>3 DEF Relevant, Keys, RefreshedByBatch
  <2>5. key \notin keys => Pushed(server)' = Pushed(server)
    BY <1>0, <1>1 DEF Pushed, Keys, RefreshedByBatch
  <2> HIDE DEF push, keys
  <2>6. /\ wire' \in Seq(PushType) /\ excused' \in BOOLEAN
        /\ Linked' /\ WireNewest' /\ Answered' /\ Mounted' /\ Told'
    BY <1>1, <2>1, <2>2, <2>3, <2>4, <2>5, AnnounceKeeps
  <2>7. LiveTypeOK'
    BY <1>0, <1>1, <2>2, <2>6 DEF LiveTypeOK, LiveValues, PushType
  <2> QED
    BY <2>6, <2>7 DEF IInv
<1>3. CASE OtherCommand \/ OwnCommand
  <2> DEFINE push == [type |-> "command"]
             keys == RefreshedByCommand
  <2>1. /\ Announce(push, keys) /\ server.changes < MaxChanges
        /\ server' = [server EXCEPT !.changes = @ + 1]
    BY <1>3, Zenon DEF OtherCommand, OwnCommand, ChangeCommands
  <2>2. server' \in LiveValues /\ server'.days = server.days
    BY <1>0, <2>1, ViewsAssumption DEF LiveValues
  <2>3. push \in PushType /\ push.type = "command"
    BY DEF PushType
  <2>4. Relevant(push) <=> key \in keys
    BY <2>3 DEF Relevant
  <2>5. key \notin keys => Pushed(server)' = Pushed(server)
    BY <1>0, <1>1, <2>1 DEF Pushed, Keys, RefreshedByCommand, LiveValues
  <2> HIDE DEF push, keys
  <2>6. /\ wire' \in Seq(PushType) /\ excused' \in BOOLEAN
        /\ Linked' /\ WireNewest' /\ Answered' /\ Mounted' /\ Told'
    BY <1>1, <2>1, <2>2, <2>3, <2>4, <2>5, AnnounceKeeps
  <2>7. LiveTypeOK'
    BY <1>0, <1>1, <2>2, <2>6 DEF LiveTypeOK, LiveValues, PushType
  <2> QED
    BY <2>6, <2>7 DEF IInv
<1> QED
  BY <1>2, <1>3
-----------------------------------------------------------------------------
(* Theorems.                                                                   *)

LEMMA Start ==
    ASSUME LiveInit
    PROVE  IInv
<1>1. /\ NoEntry \in Entries(LiveValues) /\ NoEntry.fetch = "idle" /\ NoEntry.data = {}
  BY NoEntryFacts
<1>2. LiveTypeOK
  <2>1. server \in LiveValues
    BY ViewsAssumption DEF LiveInit, LiveValues
  <2>2. wire \in Seq(PushType)
    BY DEF LiveInit
  <2>3. page \in Pages
    BY DEF LiveInit, Pages, Shows
  <2>4. drops \in 0 .. MaxDrops
    BY ViewsAssumption DEF LiveInit
  <2> QED
    BY <1>1, <2>1, <2>2, <2>3, <2>4 DEF LiveInit, LiveTypeOK, LiveValues, PushType
<1>3. Linked /\ WireNewest
  BY DEF LiveInit, Linked, WireNewest
<1>4. ~Observed
  BY DEF LiveInit, Observed, Shows
<1>5. Answered /\ Mounted /\ Fresh
  BY <1>1, <1>4 DEF LiveInit, Answered, Mounted, Fresh, Current
<1> QED
  BY <1>2, <1>3, <1>5 DEF IInv, Told

LEMMA Step == IInv /\ [LiveNext]_liveVars => IInv'
<1> SUFFICES ASSUME IInv, [LiveNext]_liveVars PROVE IInv'
  OBVIOUS
<1>1. CASE CloseDay \/ OtherCommand \/ OwnCommand
  BY <1>1, ServerChanges
<1>2. CASE Open \/ StartResolves \/ Reconnected \/ Break \/ Notice \/ GiveUp
  BY <1>2, ConnectionStep
<1>3. CASE HandleBatch \/ HandleCommand
  BY <1>3, HandleBatchStep, HandleCommandStep
<1>4. CASE \E p \in Pages : Visit(p)
  BY <1>4, VisitStep
<1>5. CASE Focus \/ Retry \/ GoOnline \/ AttemptFails \/ AllAttemptsFail \/ Collect
  BY <1>5, RequestStep
<1>6. CASE Answer \/ Arrive
  BY <1>6, AnswerStep
<1>7. CASE SendCommand \/ CommandSucceeds \/ CommandFails \/ GoOffline
  BY <1>7, CommandStep
<1>8. CASE UNCHANGED liveVars
  <2>1. UNCHANGED <<key, server, hubVars, page, cacheVars>> /\ online' = online /\ reply' = reply
    BY <1>8 DEF liveVars
  <2>2. online \in BOOLEAN /\ reply \in {"none", "asked", "done"}
    BY DEF IInv, LiveTypeOK
  <2> QED
    BY <2>1, <2>2, OtherStep
<1> QED
  BY <1>1, <1>2, <1>3, <1>4, <1>5, <1>6, <1>7, <1>8 DEF LiveNext

LEMMA Invariant == LiveSpec => []IInv
BY Start, Step, PTL DEF LiveSpec

\* Every variable of the live views has its type.
THEOREM LiveTypeCorrect == LiveSpec => []LiveTypeOK
BY Invariant, PTL DEF IInv

\* Whatever days close, commands are sent, connections break and answers come
\* late: once all is quiet, what the cache takes for fresh is what the server
\* would answer, and a mounted page has it.
THEOREM ShownIsCurrent == LiveSpec => []QuietViewsAreCurrent
<1>1. IInv => QuietViewsAreCurrent
  <2> SUFFICES ASSUME IInv, phase = "live", link = "up", wire = <<>>, query.fetch = "idle"
               PROVE  /\ ~query.invalid /\ ~excused => Current
                      /\ Observed /\ ~query.error => query.data # {} /\ ~query.invalid
    BY DEF QuietViewsAreCurrent
  <2>1. ~RefreshComing /\ ~\E i \in DOMAIN wire : Relevant(wire[i])
    BY DEF RefreshComing
  <2>2. ~query.invalid /\ ~excused => Current
    BY <2>1 DEF IInv, Told, Fresh
  <2>3. Observed /\ ~query.error => query.data # {} /\ ~query.invalid
    BY DEF IInv, Mounted
  <2> QED
    BY <2>2, <2>3
<1> QED
  BY <1>1, Invariant, PTL

\* An entry without data that a mounted page shows, and that does not wait for
\* the network, loads or has failed.
LEMMA NoDataFacts ==
    ASSUME IInv, Observed, query.data = {}, query.fetch # "paused"
    PROVE  /\ IsLoading(query) \/ (~IsLoading(query) /\ query.error)
           /\ NoDays(query) /\ NoCommands(query)
<1>1. query.fetch \in {"idle", "asked", "answered"}
  BY TypeFacts, EntryFacts DEF IInv
<1>2. query.fetch = "idle" => query.error
  BY DEF IInv, Mounted
<1> QED
  BY <1>1, <1>2 DEF IsLoading, NoDays, NoCommands

\* What the components show of it.
LEMMA NothingIsGuessed ==
    ASSUME IInv, Observed, query.data = {}, query.fetch # "paused"
    PROVE  /\ \A view \in Shown : \/ view[2] \in {"loading", "error"}
                                  \/ view[1] \in Unguarded /\ view[2] = "nothing"
           /\ Shown # {} => \E view \in Shown : view[2] \in {"loading", "error"}
<1>0. /\ IsLoading(query) \/ (~IsLoading(query) /\ query.error)
      /\ NoDays(query) /\ NoCommands(query)
  BY NoDataFacts
<1>1. NetworkSummary(query) \in {"loading", "error"} /\ SearchResults(query) \in {"loading", "error"}
  BY <1>0 DEF NetworkSummary, SearchResults, IsLoading
<1>2. ScopeCard(query) \in {"loading", "error"}
  BY <1>0 DEF ScopeCard
<1>3. Reads(query) \in {"loading", "error"}
  BY <1>0 DEF Reads
<1>4. DeviceRecentCommands(query) \in {"loading", "error"}
  BY <1>3 DEF DeviceRecentCommands
<1>5. DeviceTimeline(query) \in {"loading", "error"} /\ CommandHistory(query) \in {"loading", "error"}
      /\ DeviceDetails(query) \in {"loading", "error"}
  BY <1>0 DEF DeviceTimeline, CommandHistory, DeviceDetails, Guarded
<1>6. /\ ScopeSummaryTable(query) \in {"loading", "error"}
      /\ MetricByZoneChart(query) \in {"loading", "error"}
      /\ SubzoneMetricGrid(query) \in {"loading", "error"}
      /\ DeviceLivePanel(query) \in {"loading", "error"}
      /\ InsightsPage(query) \in {"loading", "error"}
      /\ DeviceList(query) \in {"loading", "error"}
  BY <1>2, <1>3 DEF ScopeSummaryTable, MetricByZoneChart, SubzoneMetricGrid, DeviceLivePanel,
                    InsightsPage, DeviceList
<1>7. RecentReadingsTable(query) = "nothing" /\ DeviceCommands(query) = "nothing"
  BY DEF RecentReadingsTable, DeviceCommands, Defaulted
<1>8. CASE page = "device" /\ key = "device"
  <2>1. Shown = {<<"DeviceLivePanel", DeviceLivePanel(query)>>,
                 <<"DeviceTimeline", DeviceTimeline(query)>>,
                 <<"RecentReadingsTable", RecentReadingsTable(query)>>,
                 <<"DeviceCommands", DeviceCommands(query)>>}
    BY <1>8 DEF Shown
  <2> QED
    BY <1>5, <1>6, <1>7, <2>1 DEF Unguarded
<1>9. CASE ~(page = "device" /\ key = "device")
  <2>1. \A view \in Shown : view[2] \in {"loading", "error"}
    BY <1>1, <1>2, <1>4, <1>5, <1>6, <1>9 DEF Shown
  <2> QED
    BY <2>1
<1> QED
  BY <1>8, <1>9

\* While the browser is online, no component crashes on an answer it has not,
\* stays blank or says that there is nothing before the server has said so, but
\* for the two that do not ask whether the query loads or failed, beside which
\* another always says it.
THEOREM NoGuesses == LiveSpec => []NoViewGuesses
<1>1. IInv => NoViewGuesses
  <2> SUFFICES ASSUME IInv, query.data = {}, query.fetch # "paused"
               PROVE  /\ \A view \in Shown :
                            \/ view[2] \notin {"crash", "blank", "nothing"}
                            \/ view[1] \in Unguarded /\ view[2] = "nothing"
                      /\ (\E view \in Shown : view[2] = "nothing") =>
                            \E view \in Shown : view[2] \in {"loading", "error"}
    BY DEF NoViewGuesses
  <2>1. CASE Observed
    BY <2>1, NothingIsGuessed
  <2>2. CASE ~Observed
    <3>1. Shown = {}
      BY <2>2 DEF Observed, Shows, Shown
    <3> QED
      BY <3>1
  <2> QED
    BY <2>1, <2>2
<1> QED
  BY <1>1, Invariant, PTL
-----------------------------------------------------------------------------
\* The browser's history keeps its length.
LEMMA Bounded ==
    ASSUME NEW S, NEW s \in Seq(S), NEW x \in S, NEW max \in Nat, Len(s) <= max,
           NEW longer, longer = Append(s, x),
           NEW kept, kept = IF Len(longer) > max THEN Tail(longer) ELSE longer
    PROVE  kept \in Seq(S) /\ Len(kept) <= max
<1>1. longer \in Seq(S) /\ Len(longer) = Len(s) + 1 /\ Len(s) \in Nat /\ longer # <<>>
  OBVIOUS
<1>2. Tail(longer) \in Seq(S) /\ Len(Tail(longer)) = Len(s)
  BY <1>1
<1> QED
  BY <1>1, <1>2

\* So it does when the browser goes back.
LEMMA Shortened ==
    ASSUME NEW S, NEW s \in Seq(S), s # <<>>, NEW max \in Nat, Len(s) <= max
    PROVE  /\ SubSeq(s, 1, Len(s) - 1) \in Seq(S) /\ Len(SubSeq(s, 1, Len(s) - 1)) <= max
           /\ s[Len(s)] \in S
<1>1. Len(s) \in Nat \ {0} /\ Len(s) - 1 \in Nat /\ Len(s) - 1 <= Len(s)
  OBVIOUS
<1>2. \A i \in 1 .. Len(s) - 1 : s[i] \in S
  BY <1>1
<1> QED
  BY <1>1, <1>2
-----------------------------------------------------------------------------
(* The command stream's address.                                               *)

\* Two addresses that show the same.
ShowAlike(v, w) == v.zone = w.zone /\ v.show = w.show /\ Shown7or30(v) = Shown7or30(w)

\* Addresses of the browser's history.
StreamAddress == {OtherPage} \cup {Stream(v) : v \in Views}

\* The inductive invariant: what is stored shows what the user asked for too.
StreamIInv == StreamTypeOK /\ ViewAsAsked /\ ShowAlike(stored, asked)

\* What an address holds.
LEMMA AddressFacts ==
    /\ Bare \in Views
    /\ OtherPage \in StreamAddress /\ OtherPage.stream = FALSE
    /\ \A v \in Views : Stream(v) \in StreamAddress /\ Stream(v).stream = TRUE /\ Stream(v).view = v
    /\ \A a \in StreamAddress : a.view \in Views
    /\ \A a \in StreamAddress : a = OtherPage \/ a = Stream(a.view)
<1>1. Bare \in Views
  BY DEF Bare, Views
<1>2. OtherPage \in StreamAddress /\ OtherPage.stream = FALSE /\ OtherPage.view = Bare
  BY DEF OtherPage, StreamAddress
<1>3. ASSUME NEW v \in Views
      PROVE  Stream(v) \in StreamAddress /\ Stream(v).stream = TRUE /\ Stream(v).view = v
  <2>1. Stream(v) \in StreamAddress
    BY Zenon DEF StreamAddress
  <2>2. Stream(v) = [stream |-> TRUE, view |-> v]
    BY Zenon DEF Stream
  <2> QED
    BY <2>1, <2>2
<1>4. ASSUME NEW a \in StreamAddress
      PROVE  a.view \in Views /\ (a = OtherPage \/ a = Stream(a.view))
  <2>1. a = OtherPage \/ \E v \in Views : a = Stream(v)
    BY Zenon DEF StreamAddress
  <2> QED
    BY <1>1, <1>2, <1>3, <2>1
<1> QED
  BY <1>1, <1>2, <1>3, <1>4, Zenon

\* Parameters of a view are set, of any sets of values.
LEMMA ViewFields ==
    ASSUME NEW v \in Views
    PROVE  /\ v.zone \in Zones \cup {""} /\ v.show \in Zones \cup {""}
           /\ v.range \in {"", "7", "30"}
           /\ Shown7or30(v) \in {"7", "30"} /\ Bare.zone = "" /\ Bare.range = ""
BY DEF Views, Shown7or30, Bare

LEMMA RangeSet ==
    ASSUME NEW v \in Views, NEW t \in {"", "7", "30"}, NEW w, w = [v EXCEPT !.range = t]
    PROVE  w \in Views /\ w.zone = v.zone /\ w.show = v.show /\ w.range = t
BY DEF Views

LEMMA ShowSet ==
    ASSUME NEW v \in Views, NEW t \in Zones \cup {""}, NEW w, w = [v EXCEPT !.show = t]
    PROVE  w \in Views /\ w.zone = v.zone /\ w.show = t /\ w.range = v.range
BY DEF Views

LEMMA ZoneSet ==
    ASSUME NEW v \in Views, NEW t \in Zones \cup {""}, NEW w, w = [v EXCEPT !.zone = t]
    PROVE  w \in Views /\ w.zone = t /\ w.show = v.show /\ w.range = v.range
BY DEF Views

LEMMA OverviewSet ==
    ASSUME NEW v \in Views, NEW w, w = OverviewLink(v)
    PROVE  w \in Views /\ w.zone = "" /\ w.show = v.show /\ w.range = Shown7or30(v)
<1>1. PICK r \in {"7", "30"} : r = Shown7or30(v)
  BY ViewFields
<1>2. w = [v EXCEPT !.zone = "", !.range = r]
  BY <1>1, Zenon DEF OverviewLink
<1>3. w \in Views /\ w.zone = "" /\ w.show = v.show /\ w.range = r
  BY <1>2 DEF Views
<1> QED
  BY <1>1, <1>3

\* The types of what an action reads.
LEMMA StreamFacts ==
    ASSUME StreamIInv
    PROVE  /\ at \in StreamAddress /\ behind \in Seq(StreamAddress) /\ Len(behind) <= MaxHistory
           /\ stored \in Views /\ asked \in Views /\ at.view \in Views
           /\ ShowAlike(stored, asked)
           /\ at.stream => ShowAlike(at.view, asked)
<1>1. /\ at \in StreamAddress /\ behind \in Seq(StreamAddress) /\ Len(behind) <= MaxHistory
      /\ stored \in Views /\ asked \in Views
  BY Zenon DEF StreamIInv, StreamTypeOK, StreamAddress
<1>2. at.stream => ShowAlike(at.view, asked)
  BY DEF StreamIInv, ViewAsAsked, ShowAlike
<1> QED
  BY <1>1, <1>2, AddressFacts DEF StreamIInv

\* A rendered view that shows what is asked for, or restores what was, is right.
LEMMA Renders ==
    ASSUME StreamIInv, NEW view \in Views, Arrives(view), asked' \in Views,
           view = Bare => asked' = asked, view # Bare => ShowAlike(view, asked')
    PROVE  /\ at' \in StreamAddress /\ stored' \in Views
           /\ ViewAsAsked' /\ ShowAlike(stored', asked')
<1>0. stored \in Views /\ ShowAlike(stored, asked)
  BY StreamFacts
<1>1. PICK shown : shown = IF view = Bare THEN stored ELSE view
  OBVIOUS
<1>2. at' = Stream(shown) /\ stored' = shown
  BY <1>1, Zenon DEF Arrives
<1>3. shown \in Views /\ ShowAlike(shown, asked')
  BY <1>0, <1>1
<1>4. at' \in StreamAddress /\ at'.view = shown
  BY <1>2, <1>3, AddressFacts
<1>5. ViewAsAsked'
  BY <1>3, <1>4 DEF ViewAsAsked, ShowAlike
<1> QED
  BY <1>2, <1>3, <1>4, <1>5

\* The browser's history stays one of addresses.
LEMMA HistoryKept ==
    ASSUME StreamIInv, Pushes
    PROVE  behind' \in Seq(StreamAddress) /\ Len(behind') <= MaxHistory
<1>1. /\ at \in StreamAddress /\ behind \in Seq(StreamAddress) /\ Len(behind) <= MaxHistory
      /\ MaxHistory \in Nat
  BY StreamFacts, StreamAssumption
<1>2. PICK longer : longer = Append(behind, at)
  OBVIOUS
<1>3. behind' = IF Len(longer) > MaxHistory THEN Tail(longer) ELSE longer
  BY <1>2, Zenon DEF Pushes
<1> QED
  BY <1>1, <1>2, <1>3, Bounded

LEMMA StreamInitial == StreamInit => StreamIInv
<1> SUFFICES ASSUME StreamInit PROVE StreamIInv
  OBVIOUS
<1>1. at = OtherPage /\ stored = Bare /\ behind = <<>> /\ asked = Bare
  BY DEF StreamInit
<1>2. StreamTypeOK
  <2>1. at \in StreamAddress /\ stored \in Views /\ asked \in Views
    BY <1>1, AddressFacts
  <2>2. behind \in Seq(StreamAddress) /\ Len(behind) <= MaxHistory
    <3>1. <<>> \in Seq(StreamAddress) /\ Len(<<>>) = 0
      OBVIOUS
    <3>2. behind \in Seq(StreamAddress) /\ Len(behind) = 0
      BY <1>1, <3>1, Zenon
    <3>3. MaxHistory \in Nat
      BY StreamAssumption
    <3> QED
      BY <3>2, <3>3
  <2> QED
    BY <2>1, <2>2, Zenon DEF StreamTypeOK, StreamAddress
<1>3. ViewAsAsked
  BY <1>1, AddressFacts DEF ViewAsAsked
<1>4. ShowAlike(stored, asked)
  BY <1>1 DEF ShowAlike
<1> QED
  BY <1>2, <1>3, <1>4 DEF StreamIInv

\* Every action of the command stream's address keeps the invariant.
LEMMA StreamStep == StreamIInv /\ [StreamNext]_streamVars => StreamIInv'
<1> SUFFICES ASSUME StreamIInv, [StreamNext]_streamVars
             PROVE  /\ at' \in StreamAddress
                    /\ behind' \in Seq(StreamAddress) /\ Len(behind') <= MaxHistory
                    /\ stored' \in Views /\ asked' \in Views
                    /\ ViewAsAsked' /\ ShowAlike(stored, asked)'
  BY Zenon DEF StreamIInv, StreamTypeOK, StreamAddress
<1>0. /\ at \in StreamAddress /\ behind \in Seq(StreamAddress) /\ Len(behind) <= MaxHistory
      /\ stored \in Views /\ asked \in Views /\ at.view \in Views
      /\ ShowAlike(stored, asked)
      /\ at.stream => ShowAlike(at.view, asked)
  BY StreamFacts
<1>1. CASE EnterStream
  <2>1. Arrives(Bare) /\ Pushes /\ asked' = asked
    BY <1>1 DEF EnterStream
  <2>2. Bare \in Views /\ asked' \in Views
    BY <1>0, <2>1, AddressFacts
  <2>3. /\ at' \in StreamAddress /\ stored' \in Views
        /\ ViewAsAsked' /\ ShowAlike(stored', asked')
    BY <2>1, <2>2, Renders
  <2> QED
    BY <1>0, <2>1, <2>2, <2>3, HistoryKept
<1>2. CASE LeaveStream
  <2>1. at' = OtherPage /\ Pushes /\ stored' = stored /\ asked' = asked
    BY <1>2 DEF LeaveStream
  <2>2. ViewAsAsked' /\ at' \in StreamAddress
    BY <2>1, AddressFacts DEF ViewAsAsked
  <2> QED
    BY <1>0, <2>1, <2>2, HistoryKept
<1>3. CASE Overview
  <2>a. PICK view : view = OverviewLink(at.view)
    OBVIOUS
  <2>b. PICK ask : ask = [asked EXCEPT !.zone = ""]
    OBVIOUS
  <2>c. "" \in Zones \cup {""}
    OBVIOUS
  <2>2. at.stream /\ Arrives(view) /\ Pushes /\ asked' = ask
    BY <1>3, <2>a, <2>b, Zenon DEF Overview
  <2>3. /\ view \in Views /\ view.zone = "" /\ view.show = at.view.show
        /\ view.range = Shown7or30(at.view) /\ view.range \in {"7", "30"}
    BY <1>0, <2>a, OverviewSet, ViewFields
  <2>4. ask \in Views /\ ask.zone = "" /\ ask.show = asked.show /\ ask.range = asked.range
    BY <1>0, <2>b, <2>c, ZoneSet, Zenon
  <2>5. view # Bare /\ ShowAlike(view, ask)
    BY <1>0, <2>2, <2>3, <2>4, ViewFields DEF ShowAlike, Shown7or30
  <2>6. /\ at' \in StreamAddress /\ stored' \in Views
        /\ ViewAsAsked' /\ ShowAlike(stored', asked')
    BY <2>2, <2>3, <2>4, <2>5, Renders
  <2> QED
    BY <2>2, <2>4, <2>6, HistoryKept
<1>4. CASE GoBack
  <2>1. PICK a : a = behind[Len(behind)]
    OBVIOUS
  <2>2. /\ behind # <<>> /\ behind' = SubSeq(behind, 1, Len(behind) - 1)
        /\ IF a.stream
           THEN Arrives(a.view) /\ asked' = (IF a.view = Bare THEN asked ELSE a.view)
           ELSE at' = a /\ UNCHANGED <<stored, asked>>
    BY <1>4, <2>1, Zenon DEF GoBack
  <2>3. /\ behind' \in Seq(StreamAddress) /\ Len(behind') <= MaxHistory
        /\ a \in StreamAddress
    BY <1>0, <2>1, <2>2, Shortened, StreamAssumption
  <2>4. a.view \in Views
    BY <2>3, AddressFacts
  <2>5. CASE a.stream
    <3>1. Arrives(a.view) /\ asked' = IF a.view = Bare THEN asked ELSE a.view
      BY <2>2, <2>5
    <3>2. asked' \in Views /\ (a.view = Bare => asked' = asked)
          /\ (a.view # Bare => ShowAlike(a.view, asked'))
      BY <1>0, <2>4, <3>1 DEF ShowAlike
    <3>3. /\ at' \in StreamAddress /\ stored' \in Views
          /\ ViewAsAsked' /\ ShowAlike(stored', asked')
      BY <2>4, <3>1, <3>2, Renders
    <3> QED
      BY <2>3, <3>2, <3>3
  <2>6. CASE ~a.stream
    <3>1. at' = a /\ stored' = stored /\ asked' = asked
      BY <2>2, <2>6
    <3> QED
      BY <1>0, <2>3, <2>6, <3>1 DEF ViewAsAsked
  <2> QED
    BY <2>5, <2>6
<1>5. CASE \E r \in {"7", "30"} : SetRange(r)
  <2>1. PICK r \in {"7", "30"} : SetRange(r)
    BY <1>5
  <2>a. PICK view : view = [at.view EXCEPT !.range = r]
    OBVIOUS
  <2>b. PICK ask : ask = [asked EXCEPT !.range = r]
    OBVIOUS
  <2>c. r \in {"", "7", "30"}
    OBVIOUS
  <2>3. at.stream /\ Arrives(view) /\ asked' = ask /\ behind' = behind
    BY <2>1, <2>a, <2>b, Zenon DEF SetRange
  <2>4. view \in Views /\ view.zone = at.view.zone /\ view.show = at.view.show /\ view.range = r
    <3>1. PICK old \in Views : old = at.view
      BY <1>0
    <3>2. view = [old EXCEPT !.range = r]
      BY <2>a, <3>1, Zenon
    <3> QED
      BY <2>c, <3>1, <3>2, RangeSet, Zenon
  <2>5. ask \in Views /\ ask.zone = asked.zone /\ ask.show = asked.show /\ ask.range = r
    BY <1>0, <2>a, <2>b, <2>c, RangeSet, Zenon
  <2>6. view # Bare /\ ShowAlike(view, ask)
    BY <1>0, <2>3, <2>4, <2>5, ViewFields DEF ShowAlike, Shown7or30
  <2>7. /\ at' \in StreamAddress /\ stored' \in Views
        /\ ViewAsAsked' /\ ShowAlike(stored', asked')
    BY <2>3, <2>4, <2>5, <2>6, Renders
  <2> QED
    BY <1>0, <2>3, <2>5, <2>7
<1>6. CASE \E z \in Zones \cup {""} : SetShow(z)
  <2>1. PICK z \in Zones \cup {""} : SetShow(z)
    BY <1>6
  <2>a. PICK view : view = [at.view EXCEPT !.show = z]
    OBVIOUS
  <2>b. PICK ask : ask = [asked EXCEPT !.show = z]
    OBVIOUS
  <2>c. z \in Zones \cup {""}
    OBVIOUS
  <2>3. /\ at.stream /\ Arrives(view) /\ behind' = behind
        /\ asked' = IF view = Bare THEN asked ELSE ask
    BY <2>1, <2>a, <2>b, Zenon DEF SetShow
  <2>4. view \in Views /\ view.zone = at.view.zone /\ view.show = z /\ view.range = at.view.range
    <3>1. PICK old \in Views : old = at.view
      BY <1>0
    <3>2. view = [old EXCEPT !.show = z]
      BY <2>a, <3>1, Zenon
    <3>3. /\ view \in Views /\ view.zone = old.zone /\ view.show = z
          /\ view.range = old.range
      BY <2>c, <3>2, ShowSet, ZenonT(30)
    <3> QED
      BY <3>1, <3>3, Zenon
  <2>5. ask \in Views /\ ask.zone = asked.zone /\ ask.show = z /\ ask.range = asked.range
    BY <1>0, <2>a, <2>b, <2>c, ShowSet, ZenonT(30)
  <2>6. ShowAlike(view, ask)
    BY <1>0, <2>3, <2>4, <2>5 DEF ShowAlike, Shown7or30
  <2>7. /\ asked' \in Views /\ (view = Bare => asked' = asked)
        /\ (view # Bare => ShowAlike(view, asked'))
    BY <1>0, <2>3, <2>5, <2>6
  <2>8. /\ at' \in StreamAddress /\ stored' \in Views
        /\ ViewAsAsked' /\ ShowAlike(stored', asked')
    BY <2>3, <2>4, <2>7, Renders
  <2> QED
    BY <1>0, <2>3, <2>7, <2>8
<1>7. CASE \E z \in Zones : SelectZone(z)
  <2>1. PICK z \in Zones : SelectZone(z)
    BY <1>7
  <2>a. PICK view : view = [at.view EXCEPT !.zone = z]
    OBVIOUS
  <2>b. PICK ask : ask = [asked EXCEPT !.zone = z]
    OBVIOUS
  <2>c. z \in Zones \cup {""}
    OBVIOUS
  <2>3. at.stream /\ Arrives(view) /\ Pushes /\ asked' = ask
    BY <2>1, <2>a, <2>b, Zenon DEF SelectZone
  <2>4. view \in Views /\ view.zone = z /\ view.show = at.view.show /\ view.range = at.view.range
    BY <1>0, <2>a, <2>b, <2>c, ZoneSet, ZenonT(30)
  <2>5. ask \in Views /\ ask.zone = z /\ ask.show = asked.show /\ ask.range = asked.range
    BY <1>0, <2>a, <2>b, <2>c, ZoneSet, Zenon
  <2>6. view # Bare /\ ShowAlike(view, ask)
    BY <1>0, <2>3, <2>4, <2>5, ViewFields, StreamAssumption DEF ShowAlike, Shown7or30
  <2>7. /\ at' \in StreamAddress /\ stored' \in Views
        /\ ViewAsAsked' /\ ShowAlike(stored', asked')
    BY <2>3, <2>4, <2>5, <2>6, Renders
  <2> QED
    BY <2>3, <2>5, <2>7, HistoryKept
<1>8. CASE UNCHANGED streamVars
  <2>1. at' = at /\ stored' = stored /\ behind' = behind /\ asked' = asked
    BY <1>8, Zenon DEF streamVars
  <2> QED
    BY <1>0, <2>1 DEF StreamIInv, ViewAsAsked
<1> QED
  BY <1>1, <1>2, <1>3, <1>4, <1>5, <1>6, <1>7, <1>8, Zenon DEF StreamNext

\* The command stream shows the view the user asked for last, through links,
\* Back, other pages and addresses without parameters, for any zones and any
\* length of the browser's history: ViewAsAsked of CommandStreamPage.
THEOREM ViewIsKept == StreamSpec => []ViewAsAsked
<1>1. StreamIInv => ViewAsAsked
  BY DEF StreamIInv
<1> QED
  BY <1>1, StreamInitial, StreamStep, PTL DEF StreamSpec

\* Every variable of the command stream's address keeps its type: StreamTypeOK of
\* CommandStreamPage.
THEOREM StreamTypeCorrect == StreamSpec => []StreamTypeOK
<1>1. StreamIInv => StreamTypeOK
  BY DEF StreamIInv
<1> QED
  BY <1>1, StreamInitial, StreamStep, PTL DEF StreamSpec
-----------------------------------------------------------------------------
(* Files attached to devices.                                                  *)

\* What an upload's steps at the server mean for its row and its file.
Stored(n) ==
    /\ uploads[n].client \in {"unused", "paused"} => uploads[n].server = "idle"
    /\ uploads[n].server \in {"idle", "sent", "copied"} => n \notin rows
    /\ uploads[n].server = "copied" => n \in disk

\* The inductive invariant: RowsHaveFiles needs what a handler is about to do.
FilesIInv ==
    /\ uploads \in [Uploads -> Upload]
    /\ \A n \in Uploads : Stored(n)
    /\ RowsHaveFiles

LEMMA UploadFields ==
    ASSUME NEW u \in Upload
    PROVE  /\ u.client \in Clients /\ u.server \in Servers /\ u.options \in Devices \cup {"other"}
           /\ u.url \in Devices \cup {"other"} /\ u.mounted \in BOOLEAN
BY DEF Upload

\* The fields of an upload are set.
LEMMA ServerSet ==
    ASSUME NEW u \in Upload, NEW s \in Servers, NEW r, r = [u EXCEPT !.server = s]
    PROVE  r \in Upload /\ r.server = s /\ r.client = u.client /\ r.url = u.url
BY DEF Upload

LEMMA ClientSet ==
    ASSUME NEW u \in Upload, NEW c \in Clients, NEW r, r = [u EXCEPT !.client = c]
    PROVE  r \in Upload /\ r.client = c /\ r.server = u.server /\ r.url = u.url
BY DEF Upload

LEMMA OptionsSet ==
    ASSUME NEW u \in Upload, NEW d \in Devices, NEW r, r = [u EXCEPT !.options = d]
    PROVE  r \in Upload /\ r.client = u.client /\ r.server = u.server /\ r.url = u.url
BY DEF Upload

LEMMA MountedReset ==
    ASSUME NEW u \in Upload, NEW r, r = [u EXCEPT !.mounted = FALSE]
    PROVE  r \in Upload /\ r.client = u.client /\ r.server = u.server /\ r.url = u.url
BY DEF Upload

LEMMA SentSet ==
    ASSUME NEW u \in Upload, NEW d \in Devices \cup {"other"},
           NEW r, r = [u EXCEPT !.client = "pending", !.server = "sent", !.url = d]
    PROVE  r \in Upload /\ r.client = "pending" /\ r.server = "sent"
BY DEF Upload, Clients, Servers

\* An upload's steps at the server and at the client, and a page's mount, which
\* no step of either sees.
LEMMA ServerStepFacts ==
    ASSUME FilesIInv, NEW n \in Uploads, NEW from, NEW to \in Servers, ServerStep(n, from, to)
    PROVE  /\ uploads[n].server = from
           /\ uploads' \in [Uploads -> Upload]
           /\ uploads'[n].server = to /\ uploads'[n].client = uploads[n].client
           /\ uploads'[n].url = uploads[n].url
           /\ \A m \in Uploads \ {n} : uploads'[m] = uploads[m]
<1>1. PICK u \in Upload : u = uploads[n]
  BY DEF FilesIInv
<1>2. PICK r : r = [u EXCEPT !.server = to]
  BY Zenon
<1>3. r \in Upload /\ r.server = to /\ r.client = u.client /\ r.url = u.url
  BY <1>2, ServerSet, Z3
<1>4. uploads' = [uploads EXCEPT ![n] = r] /\ uploads[n].server = from
  BY <1>1, <1>2, Zenon DEF ServerStep
<1> QED
  BY <1>1, <1>3, <1>4 DEF FilesIInv

LEMMA ClientStepFacts ==
    ASSUME FilesIInv, NEW n \in Uploads, NEW to \in Clients,
           uploads' = [uploads EXCEPT ![n].client = to]
    PROVE  /\ uploads' \in [Uploads -> Upload]
           /\ uploads'[n].server = uploads[n].server /\ uploads'[n].client = to
           /\ uploads'[n].url = uploads[n].url
           /\ \A m \in Uploads \ {n} : uploads'[m] = uploads[m]
<1>1. PICK u \in Upload : u = uploads[n]
  BY DEF FilesIInv
<1>2. PICK r : r = [u EXCEPT !.client = to]
  BY Zenon
<1>3. r \in Upload /\ r.client = to /\ r.server = u.server /\ r.url = u.url
  BY <1>2, ClientSet, Z3
<1>4. uploads' = [uploads EXCEPT ![n] = r]
  BY <1>1, <1>2, Zenon
<1> QED
  BY <1>1, <1>3, <1>4 DEF FilesIInv

LEMMA MountKeeps ==
    ASSUME FilesIInv, NEW p, NEW q, Mount(p, q)
    PROVE  /\ uploads' \in [Uploads -> Upload]
           /\ \A n \in Uploads : /\ uploads'[n].client = uploads[n].client
                                 /\ uploads'[n].server = uploads[n].server
                                 /\ uploads'[n].url = uploads[n].url
<1>1. uploads' = [n \in Uploads |->
                     IF ~(uploads[n].mounted /\ UnderWay(uploads[n])) THEN uploads[n]
                     ELSE IF p \in Devices THEN [uploads[n] EXCEPT !.options = p]
                     ELSE [uploads[n] EXCEPT !.mounted = FALSE]]
  BY Zenon DEF Mount
<1>2. ASSUME NEW n \in Uploads
      PROVE  /\ uploads'[n] \in Upload
             /\ uploads'[n].client = uploads[n].client
             /\ uploads'[n].server = uploads[n].server
             /\ uploads'[n].url = uploads[n].url
  <2>1. PICK u \in Upload : u = uploads[n]
    BY DEF FilesIInv
  <2>2. PICK changed : changed = [u EXCEPT !.options = p]
    BY Zenon
  <2>3. PICK left : left = [u EXCEPT !.mounted = FALSE]
    BY Zenon
  <2>4. p \in Devices => /\ changed \in Upload /\ changed.client = u.client
                         /\ changed.server = u.server /\ changed.url = u.url
    BY <2>2, OptionsSet, Zenon
  <2>5. left \in Upload /\ left.client = u.client /\ left.server = u.server /\ left.url = u.url
    BY <2>3, MountedReset, Zenon
  <2>6. \/ uploads'[n] = u
        \/ p \in Devices /\ uploads'[n] = changed
        \/ uploads'[n] = left
    BY <1>1, <2>1, <2>2, <2>3, Zenon
  <2> QED
    BY <2>1, <2>4, <2>5, <2>6, Zenon
<1>3. uploads' \in [Uploads -> Upload]
  <2>1. DOMAIN uploads' = Uploads /\ uploads' = [n \in DOMAIN uploads' |-> uploads'[n]]
    BY <1>1, Zenon
  <2> QED
    BY <1>2, <2>1
<1> QED
  BY <1>2, <1>3

LEMMA FilesInitial == DeviceInit => FilesIInv
<1> SUFFICES ASSUME DeviceInit PROVE FilesIInv
  OBVIOUS
<1>1. uploads = [n \in Uploads |-> NoUpload] /\ rows = {}
  BY DEF DeviceInit
<1>2. NoUpload \in Upload /\ NoUpload.client = "unused" /\ NoUpload.server = "idle"
  BY DEF NoUpload, Upload, Clients, Servers
<1> QED
  BY <1>1, <1>2 DEF FilesIInv, Stored, RowsHaveFiles

\* What is said of an upload holds on when its row and its file stay.
LEMMA Unmoved ==
    ASSUME FilesIInv, rows' = rows, disk' = disk, lost' = lost,
           uploads' \in [Uploads -> Upload],
           \A n \in Uploads : uploads'[n].client = uploads[n].client
                              /\ uploads'[n].server = uploads[n].server
    PROVE  FilesIInv'
BY DEF FilesIInv, Stored, RowsHaveFiles

\* Every action of the device's page and of the endpoints keeps the invariant.
LEMMA FilesStep == FilesIInv /\ [DeviceNext]_deviceVars => FilesIInv'
<1> SUFFICES ASSUME FilesIInv, [DeviceNext]_deviceVars PROVE FilesIInv'
  OBVIOUS
<1>1. ASSUME NEW p \in Places, GoToPage(p) PROVE FilesIInv'
  <2>1. rows' = rows /\ disk' = disk /\ lost' = lost /\ Mount(p, deviceList)
    BY <1>1, Zenon DEF GoToPage, serverVars
  <2> QED
    BY <2>1, MountKeeps, Unmoved
<1>2. CASE \/ WindowFocus \/ NetworkLost
           \/ ListAnswered \/ ListSettles \/ FilesAnswered \/ FilesSettle
  <2>1. rows' = rows /\ disk' = disk /\ lost' = lost /\ uploads' = uploads
    BY <1>2, Zenon DEF WindowFocus, NetworkLost, ListAnswered, ListSettles, FilesAnswered,
                       FilesSettle, serverVars
  <2> QED
    BY <2>1 DEF FilesIInv, Stored, RowsHaveFiles
<1>3. CASE NetworkBack
  <2>1. rows' = rows /\ disk' = disk /\ lost' = lost
    BY <1>3, Zenon DEF NetworkBack, serverVars
  <2>2. uploads' = [n \in Uploads |->
                       IF uploads[n].client = "paused"
                       THEN [uploads[n] EXCEPT !.client = "pending", !.server = "sent",
                                               !.url = uploads[n].options]
                       ELSE uploads[n]]
    BY <1>3, Zenon DEF NetworkBack
  <2>3. ASSUME NEW n \in Uploads
        PROVE  uploads'[n] \in Upload /\ Stored(n)'
    <3>1. PICK u \in Upload : u = uploads[n]
      BY DEF FilesIInv
    <3>2. PICK d \in Devices \cup {"other"} : d = u.options
      BY UploadFields
    <3>3. PICK r : r = [u EXCEPT !.client = "pending", !.server = "sent", !.url = d]
      BY Zenon
    <3>4. r \in Upload /\ r.client = "pending" /\ r.server = "sent"
      BY <3>3, SentSet, ZenonT(30)
    <3>5. uploads'[n] = IF u.client = "paused" THEN r ELSE u
      BY <2>2, <3>1, <3>2, <3>3, Zenon
    <3> QED
      BY <2>1, <3>1, <3>4, <3>5 DEF FilesIInv, Stored
  <2>4. uploads' \in [Uploads -> Upload]
    <3>1. DOMAIN uploads' = Uploads /\ uploads' = [n \in DOMAIN uploads' |-> uploads'[n]]
      BY <2>2, Zenon
    <3> QED
      BY <2>3, <3>1
  <2> QED
    BY <2>1, <2>3, <2>4 DEF FilesIInv, RowsHaveFiles
<1>4. ASSUME NEW n \in Uploads, Attach(n) PROVE FilesIInv'
  <2>1. /\ rows' = rows /\ disk' = disk /\ lost' = lost
        /\ uploads[n].client = "unused" /\ place \in Devices
    BY <1>4, Zenon DEF Attach, serverVars, OnDevicePage
  <2>2. PICK c \in {"pending", "paused"} : c = IF atNetwork THEN "pending" ELSE "paused"
    OBVIOUS
  <2>3. PICK s \in {"sent", "idle"} : s = IF atNetwork THEN "sent" ELSE "idle"
    OBVIOUS
  <2>4. PICK d \in Devices \cup {"other"} : d = IF atNetwork THEN place ELSE "other"
    BY <2>1
  <2>5. PICK r : r = [client |-> c, server |-> s, url |-> d, options |-> place, mounted |-> TRUE]
    BY Zenon
  <2>6. uploads' = [uploads EXCEPT ![n] = r]
    BY <1>4, <2>2, <2>3, <2>4, <2>5, Zenon DEF Attach
  <2>7. r \in Upload /\ r.client = c /\ r.server = s
    BY <2>1, <2>5 DEF Upload, Clients, Servers
  <2>8. c = "paused" => s = "idle"
    BY <2>2, <2>3
  <2> QED
    BY <2>1, <2>6, <2>7, <2>8 DEF FilesIInv, Stored, RowsHaveFiles
<1>5. ASSUME NEW n \in Uploads, UploadSucceeds(n) PROVE FilesIInv'
  <2>1. /\ rows' = rows /\ disk' = disk /\ lost' = lost
        /\ uploads' = [uploads EXCEPT ![n].client = "told"]
    BY <1>5, Zenon DEF UploadSucceeds, serverVars
  <2>2. "told" \in Clients
    BY DEF Clients
  <2> QED
    BY <2>1, <2>2, ClientStepFacts DEF FilesIInv, Stored, RowsHaveFiles
<1>6. ASSUME NEW n \in Uploads, UploadFails(n) PROVE FilesIInv'
  <2>1. /\ rows' = rows /\ disk' = disk /\ lost' = lost
        /\ uploads' = [uploads EXCEPT ![n].client = "failed"]
    BY <1>6, Zenon DEF UploadFails, serverVars
  <2>2. "failed" \in Clients
    BY DEF Clients
  <2> QED
    BY <2>1, <2>2, ClientStepFacts DEF FilesIInv, Stored, RowsHaveFiles
<1>7. ASSUME NEW n \in Uploads, RefuseFile(n) PROVE FilesIInv'
  <2>1. rows' = rows /\ disk' = disk /\ lost' = lost /\ ServerStep(n, "sent", "failed")
    BY <1>7, Zenon DEF RefuseFile
  <2>2. "failed" \in Servers
    BY DEF Servers
  <2> QED
    BY <2>1, <2>2, ServerStepFacts DEF FilesIInv, Stored, RowsHaveFiles
<1>8. ASSUME NEW n \in Uploads, CopyFile(n) PROVE FilesIInv'
  <2>1. PICK to \in {"copied", "failed"} : ServerStep(n, "sent", to)
    BY <1>8, Zenon DEF CopyFile
  <2>2. disk' = disk \cup {n} /\ rows' = rows /\ lost' = lost
    BY <1>8, Zenon DEF CopyFile
  <2>3. to \in Servers
    BY DEF Servers
  <2> QED
    BY <2>1, <2>2, <2>3, ServerStepFacts DEF FilesIInv, Stored, RowsHaveFiles
<1>9. ASSUME NEW n \in Uploads, InsertRow(n) PROVE FilesIInv'
  <2>1. /\ ServerStep(n, "copied", "stored")
        /\ disk' = disk /\ rows' = rows \cup {n} /\ lost' = lost
    BY <1>9, Zenon DEF InsertRow
  <2>2. "stored" \in Servers
    BY DEF Servers
  <2> QED
    BY <2>1, <2>2, ServerStepFacts DEF FilesIInv, Stored, RowsHaveFiles
<1>10. ASSUME NEW n \in Uploads, InsertFails(n) PROVE FilesIInv'
  <2>1. PICK done \in {{}, {n}} : rows' = rows \cup done /\ lost' = lost \cup done
    BY <1>10, Zenon DEF InsertFails
  <2>2. ServerStep(n, "copied", "failed") /\ disk' = disk \ {n}
    BY <1>10, Zenon DEF InsertFails
  <2>3. "failed" \in Servers
    BY DEF Servers
  <2>4. /\ uploads[n].server = "copied" /\ uploads' \in [Uploads -> Upload]
        /\ uploads'[n].server = "failed" /\ uploads'[n].client = uploads[n].client
        /\ \A m \in Uploads \ {n} : uploads'[m] = uploads[m]
    BY <2>2, <2>3, ServerStepFacts
  <2>5. n \notin rows /\ uploads[n].client \notin {"unused", "paused"}
    BY <2>4 DEF FilesIInv, Stored
  <2>6. \A m \in Uploads : Stored(m)'
    BY <2>1, <2>2, <2>4, <2>5 DEF FilesIInv, Stored
  <2>7. RowsHaveFiles'
    BY <2>1, <2>2, <2>5 DEF FilesIInv, RowsHaveFiles
  <2> QED
    BY <2>4, <2>6, <2>7 DEF FilesIInv
<1>11. CASE ServerStops
  <2>1. rows' = rows /\ disk' = disk /\ lost' = lost
    BY <1>11, Zenon DEF ServerStops, serverVars
  <2>2. uploads' = [n \in Uploads |->
                       IF uploads[n].server \in {"sent", "copied"}
                       THEN [uploads[n] EXCEPT !.server = "failed"] ELSE uploads[n]]
    BY <1>11, Zenon DEF ServerStops
  <2>3. ASSUME NEW n \in Uploads
        PROVE  uploads'[n] \in Upload /\ Stored(n)'
    <3>1. PICK u \in Upload : u = uploads[n]
      BY DEF FilesIInv
    <3>2. PICK r : r = [u EXCEPT !.server = "failed"]
      BY Zenon
    <3>3. "failed" \in Servers
      BY DEF Servers
    <3>4. r \in Upload /\ r.server = "failed" /\ r.client = u.client /\ r.url = u.url
      BY <3>2, <3>3, ServerSet, Z3
    <3>5. uploads'[n] = IF u.server \in {"sent", "copied"} THEN r ELSE u
      BY <2>2, <3>1, <3>2, Zenon
    <3> QED
      BY <2>1, <3>1, <3>4, <3>5 DEF FilesIInv, Stored
  <2>4. uploads' \in [Uploads -> Upload]
    <3>1. DOMAIN uploads' = Uploads /\ uploads' = [n \in DOMAIN uploads' |-> uploads'[n]]
      BY <2>2, Zenon
    <3> QED
      BY <2>3, <3>1
  <2> QED
    BY <2>1, <2>3, <2>4 DEF FilesIInv, RowsHaveFiles
<1>12. ASSUME NEW n \in Attempts, RegistrationSucceeds(n) PROVE FilesIInv'
  <2>1. PICK d : d = attempts[n].device
    BY Zenon
  <2>2. /\ rows' = rows /\ disk' = disk /\ lost' = lost
        /\ Mount(d, Invalidate(deviceList, OnDevicePage, atNetwork))
    BY <1>12, <2>1, Zenon DEF RegistrationSucceeds, serverVars
  <2> QED
    BY <2>2, MountKeeps, Unmoved
<1>13. ASSUME NEW n \in Attempts,
              \/ \E d \in Devices : Submit(n, d)
              \/ RegisterDevice(n) \/ RegistrationFails(n)
       PROVE  FilesIInv'
  <2>1. rows' = rows /\ disk' = disk /\ lost' = lost /\ uploads' = uploads
    BY <1>13, Zenon DEF Submit, RegisterDevice, RegistrationFails, serverVars
  <2> QED
    BY <2>1 DEF FilesIInv, Stored, RowsHaveFiles
<1>14. CASE UNCHANGED deviceVars
  <2>1. rows' = rows /\ disk' = disk /\ lost' = lost /\ uploads' = uploads
    BY <1>14, Zenon DEF deviceVars, serverVars
  <2> QED
    BY <2>1 DEF FilesIInv, Stored, RowsHaveFiles
<1> QED
  BY <1>1, <1>2, <1>3, <1>4, <1>5, <1>6, <1>7, <1>8, <1>9, <1>10, <1>11, <1>12, <1>13, <1>14,
     Zenon DEF DeviceNext

\* Every listed file is on the disk but for inserts that only the database knows
\* to have succeeded, for any number of files and devices: RowsHaveFiles of
\* DevicePage.
THEOREM FilesAreThere == DeviceSpec => []RowsHaveFiles
<1>1. FilesIInv => RowsHaveFiles
  BY DEF FilesIInv
<1> QED
  BY <1>1, FilesInitial, FilesStep, PTL DEF DeviceSpec
-----------------------------------------------------------------------------
(* What the user was told is shown.                                            *)

\* The answer that is under way has x in it, and the list that is shown has.
Has(q, x) == q.fetch = "answered" => \E list \in q.answer : x \in list
Lists(q, x) == q.fetch = "idle" /\ ~q.error => \E list \in q.data : x \in list

\* An answer under way is one.
Answers(q) == q.fetch = "answered" => q.answer # {}

\* What an entry that becomes another may rely on.
Carries(q, r, x) ==
    /\ Answers(q) => Answers(r)
    /\ Has(q, x) => Has(r, x)
    /\ Has(q, x) /\ Lists(q, x) => Lists(r, x)

LEMMA SameCarries ==
    ASSUME NEW q, NEW r, r = q, NEW x
    PROVE  Carries(q, r, x)
BY Zenon DEF Carries

LEMMA AskingCarries ==
    ASSUME NEW q, NEW r, r.fetch \in {"asked", "paused"}, NEW x
    PROVE  Carries(q, r, x)
BY DEF Carries, Answers, Has, Lists

\* A mounted component's asking leaves no idle entry.
LEMMA MountCarries ==
    ASSUME NEW V, NEW q \in Entries(V), NEW there \in BOOLEAN,
           NEW r, r = AskIfDue(q, TRUE, there)
    PROVE  r \in Entries(V) /\ r.fetch # "idle" /\ \A x : Carries(q, r, x)
<1>1. CASE q.fetch = "idle"
  <2>1. r = Ask(q, there)
    BY <1>1, Zenon DEF AskIfDue, Due
  <2>2. r \in Entries(V) /\ r.fetch \in {"asked", "paused"}
    BY <2>1, AskFacts
  <2>3. ASSUME NEW x PROVE Carries(q, r, x)
    BY <2>2 DEF Carries, Answers, Has, Lists
  <2>4. r.fetch # "idle"
    BY <2>2
  <2> QED
    BY <2>2, <2>3, <2>4, Zenon
<1>2. CASE q.fetch # "idle"
  <2>1. r = q
    BY <1>2, Zenon DEF AskIfDue
  <2> QED
    BY <1>2, <2>1, SameCarries, Zenon
<1> QED
  BY <1>1, <1>2

LEMMA ResumeCarries ==
    ASSUME NEW V, NEW q \in Entries(V),
           NEW r, r = IF q.fetch = "paused" THEN Ask(q, TRUE) ELSE q
    PROVE  r \in Entries(V) /\ \A x : Carries(q, r, x)
<1>1. CASE q.fetch = "paused"
  <2>0. PICK there \in BOOLEAN : there = TRUE
    OBVIOUS
  <2>1. r = Ask(q, there)
    BY <1>1, <2>0, Zenon
  <2>2. r \in Entries(V) /\ r.fetch \in {"asked", "paused"}
    BY <2>1, AskFacts, ZenonT(30)
  <2>3. ASSUME NEW x PROVE Carries(q, r, x)
    BY <2>2 DEF Carries, Answers, Has, Lists
  <2>4. r.fetch # "idle"
    BY <2>2
  <2> QED
    BY <2>2, <2>3, <2>4, Zenon
<1>2. CASE q.fetch # "paused"
  <2>1. r = q
    BY <1>2, Zenon
  <2> QED
    BY <2>1, SameCarries, Zenon
<1> QED
  BY <1>1, <1>2

\* An invalidation leaves no idle entry that is observed.
LEMMA InvalidateCarries ==
    ASSUME NEW V, NEW q \in Entries(V), NEW observed \in BOOLEAN, NEW there \in BOOLEAN,
           NEW r, r = Invalidate(q, observed, there)
    PROVE  /\ r \in Entries(V)
           /\ observed => r.fetch # "idle"
           /\ \A x : Carries(q, r, x)
<1>1. /\ r \in Entries(V) /\ r.data = q.data
      /\ \/ r.fetch \in {"asked", "paused"}
         \/ /\ ~observed \/ q.fetch # "idle"
            /\ r.fetch = q.fetch /\ r.answer = q.answer /\ r.error = q.error
  BY InvalidateFacts
<1>2. CASE r.fetch \in {"asked", "paused"}
  BY <1>1, <1>2, AskingCarries
<1>3. CASE /\ ~observed \/ q.fetch # "idle"
           /\ r.fetch = q.fetch /\ r.answer = q.answer /\ r.error = q.error
  <2>1. ASSUME NEW x PROVE Carries(q, r, x)
    BY <1>1, <1>3, Zenon DEF Carries, Answers, Has, Lists
  <2> QED
    BY <1>1, <1>3, <2>1
<1> QED
  BY <1>1, <1>2, <1>3

LEMMA SettleCarries ==
    ASSUME NEW V, NEW q \in Entries(V), q.fetch = "answered", NEW r, r = Settle(q)
    PROVE  r \in Entries(V) /\ \A x : Carries(q, r, x)
<1>1. r \in Entries(V) /\ r.fetch = "idle" /\ r.data = q.answer
  BY SettleFacts
<1>2. ASSUME NEW x PROVE Carries(q, r, x)
  BY <1>1 DEF Carries, Answers, Has, Lists
<1> QED
  BY <1>1, <1>2

LEMMA FailCarries ==
    ASSUME NEW V, NEW q \in Entries(V), NEW r, r = Fail(q)
    PROVE  r \in Entries(V) /\ \A x : Carries(q, r, x)
<1>1. r \in Entries(V) /\ r.fetch = "idle" /\ r.error
  BY FailFacts
<1>2. ASSUME NEW x PROVE Carries(q, r, x)
  BY <1>1 DEF Carries, Answers, Has, Lists
<1> QED
  BY <1>1, <1>2

\* The server's answer carries what it has in it.
LEMMA ComputeCarries ==
    ASSUME NEW V, NEW q \in Entries(V), NEW v \in V, NEW r, r = Compute(q, v)
    PROVE  r \in Entries(V) /\ Answers(r) /\ \A x \in v : Carries(q, r, x)
<1>1. r \in Entries(V) /\ r.fetch = "answered" /\ r.answer = {v}
  BY ComputeFacts
<1>2. ASSUME NEW x \in v PROVE Carries(q, r, x)
  BY <1>1 DEF Carries, Answers, Has, Lists
<1>3. Answers(r)
  BY <1>1 DEF Answers
<1> QED
  BY <1>1, <1>2, <1>3

LEMMA CarriesTwice ==
    ASSUME NEW q, NEW r, NEW s, NEW x, Carries(q, r, x), Carries(r, s, x)
    PROVE  Carries(q, s, x)
BY Zenon DEF Carries

\* The parts of the inductive invariant.
PageTyped ==
    /\ deviceList \in Entries(SUBSET Devices) /\ Answers(deviceList)
    /\ files \in Entries(SUBSET Uploads) /\ Answers(files)
    /\ rows \subseteq Uploads /\ registered \subseteq Devices
    /\ atNetwork \in BOOLEAN
    /\ attempts \in [Attempts -> Attempt]
    /\ \A n \in Attempts : attempts[n].client # "unused" \/ attempts[n].server # "idle"
                               => attempts[n].device \in Devices

\* An upload the server has stored has its row, the user is told of no other,
\* and the list has it where it must.
Uploaded(n) ==
    /\ uploads[n].server = "stored" => n \in rows
    /\ uploads[n].client = "told" => uploads[n].server = "stored"
    /\ uploads[n].client = "told" /\ uploads[n].url = Followed /\ [file |-> n] \notin missed
           => Has(files, n) /\ (place = Followed => Lists(files, n))

\* So it is with the devices that were registered.
Submitted(n) ==
    LET d == attempts[n].device
    IN  /\ attempts[n].server = "stored" => d \in registered
        /\ attempts[n].client = "told" => attempts[n].server = "stored"
        /\ attempts[n].client = "told" /\ [device |-> d] \notin missed
               => Has(deviceList, d) /\ (OnDevicePage => Lists(deviceList, d))

PageInv ==
    /\ PageTyped
    /\ \A n \in Uploads : Uploaded(n)
    /\ \A n \in Attempts : Submitted(n)

LEMMA PageInvTells == PageInv => ToldIsShown
<1> SUFFICES ASSUME PageInv, OnDevicePage
             PROVE  /\ \A n \in Uploads :
                           uploads[n].client = "told" /\ uploads[n].url = Followed
                           /\ place = Followed /\ [file |-> n] \notin missed /\ Quiet(files)
                               => n \in FilesListed(files)
                    /\ \A n \in Attempts :
                           attempts[n].client = "told" /\ attempts[n].device = place
                           /\ [device |-> place] \notin missed /\ Quiet(deviceList)
                               => DeviceShown(place)
  BY Zenon DEF ToldIsShown
<1>1. ASSUME NEW n \in Uploads, uploads[n].client = "told", uploads[n].url = Followed,
             place = Followed, [file |-> n] \notin missed, Quiet(files)
      PROVE  n \in FilesListed(files)
  <2>1. Lists(files, n)
    BY <1>1, Zenon DEF PageInv, Uploaded
  <2>2. files.fetch = "idle" /\ ~files.error
    BY <1>1, Zenon DEF Quiet
  <2>3. PICK list \in files.data : n \in list
    BY <2>1, <2>2 DEF Lists
  <2> QED
    BY <2>2, <2>3 DEF FilesListed, IsLoading
<1>2. ASSUME NEW n \in Attempts, attempts[n].client = "told", attempts[n].device = place,
             [device |-> place] \notin missed, Quiet(deviceList)
      PROVE  DeviceShown(place)
  <2>1. Lists(deviceList, place)
    BY <1>2, Zenon DEF PageInv, Submitted
  <2>2. deviceList.fetch = "idle" /\ ~deviceList.error
    BY <1>2, Zenon DEF Quiet
  <2>3. \E list \in deviceList.data : place \in list
    BY <2>1, <2>2 DEF Lists
  <2> QED
    BY <2>2, <2>3 DEF DeviceShown, IsLoading
<1> QED
  BY <1>1, <1>2, Zenon

\* An action that tells the user of no upload keeps what is said of them.
UploadCalm(n) ==
    /\ rows \subseteq rows' /\ missed \subseteq missed'
    /\ uploads'[n].server = "stored" => uploads[n].server = "stored" \/ n \in rows'
    /\ uploads'[n].client = "told"
           => /\ uploads[n].client = "told" /\ uploads'[n].server = uploads[n].server
              /\ uploads'[n].url = uploads[n].url

UploadsCalm == \A n \in Uploads : UploadCalm(n)

FilesCalm(n) ==
    /\ Carries(files, files', n)
    /\ place' = Followed => place = Followed \/ files'.fetch # "idle"

LEMMA UploadedKept ==
    ASSUME PageInv, NEW n \in Uploads, UploadCalm(n),
           uploads[n].client = "told" /\ uploads[n].url = Followed => FilesCalm(n)
    PROVE  Uploaded(n)'
<1>1. Uploaded(n)
  BY Zenon DEF PageInv
<1>2. uploads'[n].server = "stored" => n \in rows'
  BY <1>1 DEF UploadsCalm, UploadCalm, Uploaded
<1>3. uploads'[n].client = "told" => uploads'[n].server = "stored"
  BY <1>1, Zenon DEF UploadsCalm, UploadCalm, Uploaded
<1>4. ASSUME uploads'[n].client = "told", uploads'[n].url = Followed, [file |-> n] \notin missed'
      PROVE  Has(files', n) /\ (place' = Followed => Lists(files', n))
  <2>1. /\ uploads[n].client = "told" /\ uploads[n].url = Followed
        /\ [file |-> n] \notin missed
    BY <1>4 DEF UploadsCalm, UploadCalm
  <2>2. Has(files, n) /\ (place = Followed => Lists(files, n)) /\ FilesCalm(n)
    BY <1>1, <2>1, Zenon DEF Uploaded
  <2>3. files'.fetch # "idle" => Lists(files', n)
    BY Zenon DEF Lists
  <2> QED
    BY <2>2, <2>3, Zenon DEF FilesCalm, Carries
<1> QED
  BY <1>2, <1>3, <1>4, Zenon DEF Uploaded

\* So does one that tells of no registration.
AttemptCalm(n) ==
    /\ registered \subseteq registered' /\ missed \subseteq missed'
    /\ attempts'[n].server = "stored"
           => \/ attempts[n].server = "stored" /\ attempts'[n].device = attempts[n].device
              \/ attempts'[n].device \in registered'
    /\ attempts'[n].client = "told"
           => /\ attempts[n].client = "told" /\ attempts'[n].server = attempts[n].server
              /\ attempts'[n].device = attempts[n].device

AttemptsCalm == \A n \in Attempts : AttemptCalm(n)

ListCalm(d) ==
    /\ Carries(deviceList, deviceList', d)
    /\ OnDevicePage' => OnDevicePage \/ deviceList'.fetch # "idle"

LEMMA SubmittedKept ==
    ASSUME PageInv, NEW n \in Attempts, AttemptCalm(n),
           attempts[n].client = "told" => ListCalm(attempts[n].device)
    PROVE  Submitted(n)'
<1>1. Submitted(n)
  BY Zenon DEF PageInv
<1>2. attempts'[n].server = "stored" => attempts'[n].device \in registered'
  BY <1>1 DEF AttemptsCalm, AttemptCalm, Submitted
<1>3. attempts'[n].client = "told" => attempts'[n].server = "stored"
  BY <1>1, Zenon DEF AttemptsCalm, AttemptCalm, Submitted
<1>4. ASSUME attempts'[n].client = "told", [device |-> attempts'[n].device] \notin missed'
      PROVE  /\ Has(deviceList', attempts'[n].device)
             /\ OnDevicePage' => Lists(deviceList', attempts'[n].device)
  <2>1. PICK d : d = attempts[n].device
    BY Zenon
  <2>2. attempts[n].client = "told" /\ attempts'[n].device = d
    BY <1>4, <2>1, Zenon DEF AttemptsCalm, AttemptCalm
  <2>3. [device |-> d] \notin missed
    BY <1>4, <2>2 DEF AttemptsCalm, AttemptCalm
  <2>4. Has(deviceList, d) /\ (OnDevicePage => Lists(deviceList, d)) /\ ListCalm(d)
    BY <1>1, <2>1, <2>2, <2>3, Zenon DEF Submitted
  <2>5. deviceList'.fetch # "idle" => Lists(deviceList', d)
    BY Zenon DEF Lists
  <2> QED
    BY <2>2, <2>4, <2>5, Zenon DEF ListCalm, Carries
<1> QED
  BY <1>2, <1>3, <1>4, Zenon DEF Submitted
-----------------------------------------------------------------------------
(* The steps of the device's page.                                             *)

LEMMA AttemptFields ==
    ASSUME NEW u \in Attempt
    PROVE  u.client \in Clients /\ u.server \in Servers /\ u.device \in Devices \cup {"other"}
BY DEF Attempt

LEMMA AttemptServerSet ==
    ASSUME NEW u \in Attempt, NEW s \in Servers, NEW r, r = [u EXCEPT !.server = s]
    PROVE  r \in Attempt /\ r.server = s /\ r.client = u.client /\ r.device = u.device
BY DEF Attempt

LEMMA AttemptClientSet ==
    ASSUME NEW u \in Attempt, NEW c \in Clients, NEW r, r = [u EXCEPT !.client = c]
    PROVE  r \in Attempt /\ r.client = c /\ r.server = u.server /\ r.device = u.device
BY DEF Attempt

LEMMA AttemptSentSet ==
    ASSUME NEW u \in Attempt, NEW r, r = [u EXCEPT !.client = "pending", !.server = "sent"]
    PROVE  r \in Attempt /\ r.client = "pending" /\ r.server = "sent" /\ r.device = u.device
BY DEF Attempt, Clients, Servers

\* A step of a registration at the server, and one at the client.
LEMMA AttemptServerStep ==
    ASSUME PageTyped, NEW n \in Attempts, NEW to \in Servers,
           attempts' = [attempts EXCEPT ![n].server = to]
    PROVE  /\ attempts' \in [Attempts -> Attempt]
           /\ attempts'[n].server = to /\ attempts'[n].client = attempts[n].client
           /\ attempts'[n].device = attempts[n].device
           /\ \A m \in Attempts \ {n} : attempts'[m] = attempts[m]
<1>1. PICK u \in Attempt : u = attempts[n]
  BY DEF PageTyped
<1>2. PICK r : r = [u EXCEPT !.server = to]
  BY Zenon
<1>3. r \in Attempt /\ r.server = to /\ r.client = u.client /\ r.device = u.device
  BY <1>2, AttemptServerSet, Z3
<1>4. attempts' = [attempts EXCEPT ![n] = r]
  BY <1>1, <1>2, Zenon
<1> QED
  BY <1>1, <1>3, <1>4 DEF PageTyped

LEMMA AttemptClientStep ==
    ASSUME PageTyped, NEW n \in Attempts, NEW to \in Clients,
           attempts' = [attempts EXCEPT ![n].client = to]
    PROVE  /\ attempts' \in [Attempts -> Attempt]
           /\ attempts'[n].client = to /\ attempts'[n].server = attempts[n].server
           /\ attempts'[n].device = attempts[n].device
           /\ \A m \in Attempts \ {n} : attempts'[m] = attempts[m]
<1>1. PICK u \in Attempt : u = attempts[n]
  BY DEF PageTyped
<1>2. PICK r : r = [u EXCEPT !.client = to]
  BY Zenon
<1>3. r \in Attempt /\ r.client = to /\ r.server = u.server /\ r.device = u.device
  BY <1>2, AttemptClientSet, Z3
<1>4. attempts' = [attempts EXCEPT ![n] = r]
  BY <1>1, <1>2, Zenon
<1> QED
  BY <1>1, <1>3, <1>4 DEF PageTyped

\* A page mounts: what it observes does not stay idle.
LEMMA MountFollows ==
    ASSUME PageTyped, NEW p, NEW q \in Entries(SUBSET Devices), Answers(q), Mount(p, q)
    PROVE  /\ files' \in Entries(SUBSET Uploads) /\ Answers(files')
           /\ \A n : FilesCalm(n)
           /\ deviceList' \in Entries(SUBSET Devices) /\ Answers(deviceList')
           /\ \A d : Carries(q, deviceList', d)
           /\ OnDevicePage' => deviceList'.fetch # "idle" \/ (OnDevicePage /\ deviceList' = q)
<1>1. /\ place' = p
      /\ deviceList' = IF p \in Devices /\ ~OnDevicePage THEN AskIfDue(q, TRUE, atNetwork) ELSE q
      /\ files' = IF p = Followed /\ p # place THEN AskIfDue(files, TRUE, atNetwork) ELSE files
  BY Zenon DEF Mount
<1>2. /\ files \in Entries(SUBSET Uploads) /\ Answers(files)
      /\ atNetwork \in BOOLEAN
  BY Zenon DEF PageTyped
<1>3. files' \in Entries(SUBSET Uploads) /\ Answers(files') /\ \A n : FilesCalm(n)
  <2>1. CASE p = Followed /\ p # place
    <3>1. files' = AskIfDue(files, TRUE, atNetwork)
      BY <1>1, <2>1, Zenon
    <3>2. /\ files' \in Entries(SUBSET Uploads) /\ files'.fetch # "idle"
          /\ \A x : Carries(files, files', x)
      BY <1>2, <3>1, MountCarries
    <3> QED
      BY <1>2, <3>2, Zenon DEF FilesCalm, Carries
  <2>2. CASE ~(p = Followed /\ p # place)
    <3>1. files' = files
      BY <1>1, <2>2, Zenon
    <3>2. place' = Followed => place = Followed
      BY <1>1, <2>2, Zenon
    <3> QED
      BY <1>2, <3>1, <3>2, SameCarries, Zenon DEF FilesCalm
  <2> QED
    BY <2>1, <2>2
<1>4. /\ deviceList' \in Entries(SUBSET Devices) /\ Answers(deviceList')
      /\ \A d : Carries(q, deviceList', d)
      /\ OnDevicePage' => deviceList'.fetch # "idle" \/ (OnDevicePage /\ deviceList' = q)
  <2>1. CASE p \in Devices /\ ~OnDevicePage
    <3>1. deviceList' = AskIfDue(q, TRUE, atNetwork)
      BY <1>1, <2>1, Zenon
    <3>2. /\ deviceList' \in Entries(SUBSET Devices) /\ deviceList'.fetch # "idle"
          /\ \A x : Carries(q, deviceList', x)
      BY <1>2, <3>1, MountCarries
    <3> QED
      BY <3>2, Zenon DEF Carries
  <2>2. CASE ~(p \in Devices /\ ~OnDevicePage)
    <3>1. deviceList' = q
      BY <1>1, <2>2, Zenon
    <3>2. OnDevicePage' => OnDevicePage
      BY <1>1, <2>2, Zenon DEF OnDevicePage
    <3> QED
      BY <3>1, <3>2, SameCarries, Zenon
  <2> QED
    BY <2>1, <2>2
<1> QED
  BY <1>3, <1>4, Zenon

LEMMA PageInitial == DeviceInit => PageInv
<1> SUFFICES ASSUME DeviceInit PROVE PageInv
  OBVIOUS
<1>1. /\ rows = {} /\ deviceList = NoEntry /\ files = NoEntry /\ atNetwork = TRUE
      /\ uploads = [n \in Uploads |-> NoUpload] /\ attempts = [n \in Attempts |-> NoAttempt]
      /\ registered \subseteq Devices
  BY DEF DeviceInit
<1>2. /\ NoAttempt \in Attempt /\ NoAttempt.client = "unused" /\ NoAttempt.server = "idle"
      /\ NoUpload.client = "unused" /\ NoUpload.server = "idle"
  BY DEF NoAttempt, NoUpload, Attempt, Clients, Servers
<1>3. PageTyped
  <2>1. /\ deviceList \in Entries(SUBSET Devices) /\ files \in Entries(SUBSET Uploads)
        /\ deviceList.fetch = "idle" /\ files.fetch = "idle"
    BY <1>1, NoEntryFacts
  <2> QED
    BY <1>1, <1>2, <2>1 DEF PageTyped, Answers
<1>4. ASSUME NEW n \in Uploads PROVE Uploaded(n)
  BY <1>1, <1>2 DEF Uploaded
<1>5. ASSUME NEW n \in Attempts PROVE Submitted(n)
  BY <1>1, <1>2 DEF Submitted
<1> QED
  BY <1>3, <1>4, <1>5, Zenon DEF PageInv

\* The invariant holds on after an action that is calm.
LEMMA PageKept ==
    ASSUME PageInv, PageTyped', UploadsCalm, AttemptsCalm,
           \A n \in Uploads :
               uploads[n].client = "told" /\ uploads[n].url = Followed => FilesCalm(n),
           \A n \in Attempts :
               attempts[n].client = "told" => ListCalm(attempts[n].device)
    PROVE  PageInv'
<1>1. \A n \in Uploads : Uploaded(n)'
  BY UploadedKept, Zenon DEF UploadsCalm
<1>2. \A n \in Attempts : Submitted(n)'
  BY SubmittedKept, Zenon DEF AttemptsCalm
<1> QED
  BY <1>1, <1>2, Zenon DEF PageInv

\* What an action leaves alone is calm.
LEMMA SameUploads ==
    ASSUME uploads' = uploads, rows' = rows, missed' = missed
    PROVE  UploadsCalm
BY DEF UploadsCalm, UploadCalm

LEMMA SameAttempts ==
    ASSUME attempts' = attempts, registered' = registered, missed' = missed
    PROVE  AttemptsCalm
BY DEF AttemptsCalm, AttemptCalm

LEMMA SameFiles ==
    ASSUME files' = files, place' = place
    PROVE  \A n : FilesCalm(n)
BY SameCarries, Zenon DEF FilesCalm

LEMMA SameList ==
    ASSUME deviceList' = deviceList, place' = place
    PROVE  \A d : ListCalm(d)
BY SameCarries, Zenon DEF ListCalm, OnDevicePage

\* Pages and the browser's window and network.
LEMMA GoToPageStep ==
    ASSUME FilesIInv, PageInv, NEW p \in Places, GoToPage(p)
    PROVE  PageInv'
<1>1. /\ rows' = rows /\ registered' = registered /\ missed' = missed
      /\ attempts' = attempts /\ atNetwork' = atNetwork
      /\ Mount(p, deviceList)
  BY Zenon DEF GoToPage, serverVars
<1>2. PageTyped /\ deviceList \in Entries(SUBSET Devices) /\ Answers(deviceList)
  BY Zenon DEF PageInv, PageTyped
<1>3. /\ files' \in Entries(SUBSET Uploads) /\ Answers(files')
      /\ \A n : FilesCalm(n)
      /\ deviceList' \in Entries(SUBSET Devices) /\ Answers(deviceList')
      /\ \A d : Carries(deviceList, deviceList', d)
      /\ OnDevicePage' => deviceList'.fetch # "idle" \/ (OnDevicePage /\ deviceList' = deviceList)
  BY <1>1, <1>2, MountFollows
<1>4. PageTyped'
  BY <1>1, <1>2, <1>3, Zenon DEF PageTyped
<1>5. UploadsCalm
  <2>1. \A n \in Uploads : /\ uploads'[n].client = uploads[n].client
                           /\ uploads'[n].server = uploads[n].server
                           /\ uploads'[n].url = uploads[n].url
    BY <1>1, MountKeeps
  <2> QED
    BY <1>1, <2>1 DEF UploadsCalm, UploadCalm
<1>6. AttemptsCalm
  BY <1>1, SameAttempts
<1>7. \A d : ListCalm(d)
  BY <1>3, Zenon DEF ListCalm
<1> QED
  BY <1>3, <1>4, <1>5, <1>6, <1>7, PageKept, Zenon

LEMMA WindowFocusStep == PageInv /\ WindowFocus => PageInv'
<1> SUFFICES ASSUME PageInv, WindowFocus PROVE PageInv'
  OBVIOUS
<1>1. /\ rows' = rows /\ registered' = registered /\ missed' = missed
      /\ attempts' = attempts /\ uploads' = uploads /\ atNetwork' = atNetwork /\ place' = place
      /\ deviceList' = AskIfDue(deviceList, TRUE, atNetwork)
      /\ files' = IF place = Followed THEN AskIfDue(files, TRUE, atNetwork) ELSE files
  BY Zenon DEF WindowFocus, serverVars
<1>2. /\ deviceList \in Entries(SUBSET Devices) /\ Answers(deviceList)
      /\ files \in Entries(SUBSET Uploads) /\ Answers(files)
      /\ atNetwork \in BOOLEAN
  BY Zenon DEF PageInv, PageTyped
<1>3. /\ deviceList' \in Entries(SUBSET Devices) /\ deviceList'.fetch # "idle"
      /\ \A d : Carries(deviceList, deviceList', d)
  BY <1>1, <1>2, MountCarries
<1>4. files' \in Entries(SUBSET Uploads) /\ \A n : Carries(files, files', n)
  <2>1. CASE place = Followed
    <3>1. files' = AskIfDue(files, TRUE, atNetwork)
      BY <1>1, <2>1, Zenon
    <3> QED
      BY <1>2, <3>1, MountCarries
  <2>2. CASE place # Followed
    <3>1. files' = files
      BY <1>1, <2>2, Zenon
    <3> QED
      BY <1>2, <3>1, SameCarries, Zenon
  <2> QED
    BY <2>1, <2>2
<1>5. PageTyped'
  <2>1. Answers(deviceList') /\ Answers(files')
    BY <1>2, <1>3, <1>4, Zenon DEF Carries
  <2> QED
    BY <1>1, <1>3, <1>4, <2>1, Zenon DEF PageInv, PageTyped
<1>6. UploadsCalm /\ AttemptsCalm
  BY <1>1, SameUploads, SameAttempts, Zenon
<1>7. \A n : FilesCalm(n)
  BY <1>1, <1>4, Zenon DEF FilesCalm
<1>8. \A d : ListCalm(d)
  BY <1>3, Zenon DEF ListCalm
<1> QED
  BY <1>5, <1>6, <1>7, <1>8, PageKept, Zenon

LEMMA NetworkBackStep ==
    ASSUME FilesIInv, FilesIInv', PageInv, NetworkBack
    PROVE  PageInv'
<1>1. /\ rows' = rows /\ registered' = registered /\ missed' = missed /\ place' = place
      /\ atNetwork' = TRUE
  BY Zenon DEF NetworkBack, serverVars
<1>2. PICK q, f : /\ q = IF deviceList.fetch = "paused" THEN Ask(deviceList, TRUE) ELSE deviceList
                  /\ f = IF files.fetch = "paused" THEN Ask(files, TRUE) ELSE files
  BY Zenon
<1>3. /\ deviceList' = IF OnDevicePage THEN AskIfDue(q, TRUE, TRUE) ELSE q
      /\ files' = IF place = Followed THEN AskIfDue(f, TRUE, TRUE) ELSE f
  BY <1>2, Zenon DEF NetworkBack
<1>4. /\ deviceList \in Entries(SUBSET Devices) /\ Answers(deviceList)
      /\ files \in Entries(SUBSET Uploads) /\ Answers(files)
  BY Zenon DEF PageInv, PageTyped
<1>5. PICK there \in BOOLEAN : there = TRUE
  OBVIOUS
<1>6. deviceList' \in Entries(SUBSET Devices) /\ \A d : Carries(deviceList, deviceList', d)
  <2>1. q \in Entries(SUBSET Devices) /\ \A d : Carries(deviceList, q, d)
    BY <1>2, <1>4, ResumeCarries
  <2>2. CASE OnDevicePage
    <3>1. deviceList' = AskIfDue(q, TRUE, there)
      BY <1>3, <1>5, <2>2, Zenon
    <3>2. deviceList' \in Entries(SUBSET Devices) /\ \A d : Carries(q, deviceList', d)
      BY <2>1, <3>1, MountCarries
    <3> QED
      BY <2>1, <3>2, CarriesTwice, Zenon
  <2>3. CASE ~OnDevicePage
    <3>1. deviceList' = q
      BY <1>3, <2>3, Zenon
    <3> QED
      BY <2>1, <3>1, Zenon
  <2> QED
    BY <2>2, <2>3
<1>7. files' \in Entries(SUBSET Uploads) /\ \A n : Carries(files, files', n)
  <2>1. f \in Entries(SUBSET Uploads) /\ \A n : Carries(files, f, n)
    BY <1>2, <1>4, ResumeCarries
  <2>2. CASE place = Followed
    <3>1. files' = AskIfDue(f, TRUE, there)
      BY <1>3, <1>5, <2>2, Zenon
    <3>2. files' \in Entries(SUBSET Uploads) /\ \A n : Carries(f, files', n)
      BY <2>1, <3>1, MountCarries
    <3> QED
      BY <2>1, <3>2, CarriesTwice, Zenon
  <2>3. CASE place # Followed
    <3>1. files' = f
      BY <1>3, <2>3, Zenon
    <3> QED
      BY <2>1, <3>1, Zenon
  <2> QED
    BY <2>2, <2>3
<1>8. ASSUME NEW n \in Uploads
      PROVE  /\ uploads'[n].server = "stored" => uploads[n].server = "stored"
             /\ uploads'[n].client = "told" => uploads'[n] = uploads[n]
  <2>1. PICK u \in Upload : u = uploads[n]
    BY DEF FilesIInv
  <2>2. PICK d \in Devices \cup {"other"} : d = u.options
    BY UploadFields
  <2>3. PICK r : r = [u EXCEPT !.client = "pending", !.server = "sent", !.url = d]
    BY Zenon
  <2>4. r.client = "pending" /\ r.server = "sent"
    BY <2>3, SentSet, ZenonT(30)
  <2>5. uploads'[n] = IF u.client = "paused" THEN r ELSE u
    BY <2>1, <2>2, <2>3, Zenon DEF NetworkBack
  <2> QED
    BY <2>1, <2>4, <2>5
<1>9. UploadsCalm
  BY <1>1, <1>8 DEF UploadsCalm, UploadCalm
<1>10. ASSUME NEW n \in Attempts
       PROVE  /\ attempts'[n] \in Attempt
              /\ attempts'[n].server = "stored" => attempts'[n] = attempts[n]
              /\ attempts'[n].client = "told" => attempts'[n] = attempts[n]
              /\ attempts'[n].client # "unused" \/ attempts'[n].server # "idle"
                     => attempts'[n].device \in Devices
  <2>1. PICK u \in Attempt : u = attempts[n]
    BY DEF PageInv, PageTyped
  <2>2. PICK r : r = [u EXCEPT !.client = "pending", !.server = "sent"]
    BY Zenon
  <2>3. r \in Attempt /\ r.client = "pending" /\ r.server = "sent" /\ r.device = u.device
    BY <2>2, AttemptSentSet, ZenonT(30)
  <2>4. attempts'[n] = IF u.client = "paused" THEN r ELSE u
    BY <2>1, <2>2, Zenon DEF NetworkBack
  <2>5. u.client # "unused" \/ u.server # "idle" => u.device \in Devices
    BY <2>1 DEF PageInv, PageTyped
  <2> QED
    BY <2>1, <2>3, <2>4, <2>5
<1>11. AttemptsCalm
  BY <1>1, <1>10 DEF AttemptsCalm, AttemptCalm
<1>12. PageTyped'
  <2>1. attempts' \in [Attempts -> Attempt]
    <3>1. DOMAIN attempts' = Attempts /\ attempts' = [n \in DOMAIN attempts' |-> attempts'[n]]
      BY Zenon DEF NetworkBack
    <3> QED
      BY <1>10, <3>1
  <2>2. Answers(deviceList') /\ Answers(files')
    BY <1>4, <1>6, <1>7, Zenon DEF Carries
  <2>3. rows' \subseteq Uploads /\ registered' \subseteq Devices /\ atNetwork' \in BOOLEAN
    BY <1>1 DEF PageInv, PageTyped
  <2> QED
    BY <1>6, <1>7, <1>10, <2>1, <2>2, <2>3, Zenon DEF PageTyped
<1>13. \A n : FilesCalm(n)
  BY <1>1, <1>7, Zenon DEF FilesCalm
<1>14. \A d : ListCalm(d)
  BY <1>1, <1>6, Zenon DEF ListCalm, OnDevicePage
<1> QED
  BY <1>9, <1>11, <1>12, <1>13, <1>14, PageKept, Zenon

\* The requests of the lists.
LEMMA ListRequestStep == PageInv /\ (ListAnswered \/ ListSettles) => PageInv'
<1> SUFFICES ASSUME PageInv, ListAnswered \/ ListSettles PROVE PageInv'
  OBVIOUS
<1>1. /\ rows' = rows /\ registered' = registered /\ missed' = missed /\ place' = place
      /\ attempts' = attempts /\ uploads' = uploads /\ atNetwork' = atNetwork /\ files' = files
  BY Zenon DEF ListAnswered, ListSettles, serverVars
<1>2. /\ deviceList \in Entries(SUBSET Devices) /\ Answers(deviceList)
      /\ registered \in SUBSET Devices
  BY Zenon DEF PageInv, PageTyped
<1>3. /\ deviceList' \in Entries(SUBSET Devices) /\ Answers(deviceList')
      /\ \A d \in registered : Carries(deviceList, deviceList', d)
  <2>1. CASE ListAnswered
    <3>1. deviceList' = Compute(deviceList, registered)
      BY <2>1, Zenon DEF ListAnswered
    <3> QED
      BY <1>2, <3>1, ComputeCarries
  <2>2. CASE ListSettles /\ deviceList.fetch = "answered" /\ deviceList' = Settle(deviceList)
    <3>1. deviceList' \in Entries(SUBSET Devices) /\ \A d : Carries(deviceList, deviceList', d)
      BY <1>2, <2>2, SettleCarries
    <3> QED
      BY <1>2, <3>1, Zenon DEF Carries
  <2>3. CASE ListSettles /\ deviceList' = Fail(deviceList)
    <3>1. deviceList' \in Entries(SUBSET Devices) /\ \A d : Carries(deviceList, deviceList', d)
      BY <1>2, <2>3, FailCarries
    <3> QED
      BY <1>2, <3>1, Zenon DEF Carries
  <2> QED
    BY <2>1, <2>2, <2>3, Zenon DEF ListSettles
<1>4. PageTyped'
  BY <1>1, <1>3, Zenon DEF PageInv, PageTyped
<1>5. UploadsCalm /\ AttemptsCalm /\ \A n : FilesCalm(n)
  BY <1>1, SameUploads, SameAttempts, SameFiles, Zenon
<1>6. ASSUME NEW n \in Attempts, attempts[n].client = "told"
      PROVE  ListCalm(attempts[n].device)
  <2>1. attempts[n].device \in registered
    BY <1>6, Zenon DEF PageInv, Submitted
  <2> QED
    BY <1>1, <1>3, <2>1, Zenon DEF ListCalm, OnDevicePage
<1> QED
  BY <1>4, <1>5, <1>6, PageKept, Zenon

LEMMA FilesRequestStep ==
    PageInv /\ FilesIInv /\ (FilesAnswered \/ FilesSettle) => PageInv'
<1> SUFFICES ASSUME PageInv, FilesIInv, FilesAnswered \/ FilesSettle PROVE PageInv'
  OBVIOUS
<1>1. /\ rows' = rows /\ registered' = registered /\ missed' = missed /\ place' = place
      /\ attempts' = attempts /\ uploads' = uploads /\ atNetwork' = atNetwork
      /\ deviceList' = deviceList
  BY Zenon DEF FilesAnswered, FilesSettle, serverVars
<1>2. PICK list : list = {n \in rows : uploads[n].url = Followed}
  BY Zenon
<1>3. /\ files \in Entries(SUBSET Uploads) /\ Answers(files)
      /\ list \in SUBSET Uploads
  BY <1>2 DEF PageInv, PageTyped
<1>4. /\ files' \in Entries(SUBSET Uploads) /\ Answers(files')
      /\ \A n \in list : Carries(files, files', n)
  <2>1. CASE FilesAnswered
    <3>1. files' = Compute(files, list)
      BY <1>2, <2>1, Zenon DEF FilesAnswered
    <3> QED
      BY <1>3, <3>1, ComputeCarries
  <2>2. CASE FilesSettle /\ files.fetch = "answered" /\ files' = Settle(files)
    <3>1. files' \in Entries(SUBSET Uploads) /\ \A n : Carries(files, files', n)
      BY <1>3, <2>2, SettleCarries
    <3> QED
      BY <1>3, <3>1, Zenon DEF Carries
  <2>3. CASE FilesSettle /\ files' = Fail(files)
    <3>1. files' \in Entries(SUBSET Uploads) /\ \A n : Carries(files, files', n)
      BY <1>3, <2>3, FailCarries
    <3> QED
      BY <1>3, <3>1, Zenon DEF Carries
  <2> QED
    BY <2>1, <2>2, <2>3, Zenon DEF FilesSettle
<1>5. PageTyped'
  BY <1>1, <1>4, Zenon DEF PageInv, PageTyped
<1>6. UploadsCalm /\ AttemptsCalm /\ \A d : ListCalm(d)
  BY <1>1, SameUploads, SameAttempts, SameList, Zenon
<1>7. ASSUME NEW n \in Uploads, uploads[n].client = "told", uploads[n].url = Followed
      PROVE  FilesCalm(n)
  <2>1. n \in rows
    BY <1>7, Zenon DEF PageInv, Uploaded
  <2>2. n \in list
    BY <1>2, <1>7, <2>1
  <2> QED
    BY <1>1, <1>4, <2>2, Zenon DEF FilesCalm
<1> QED
  BY <1>5, <1>6, <1>7, PageKept, Zenon

\* Steps of an upload that leave the page, the lists and the registrations
\* alone, and tell the user of nothing.
LEMMA UploadMoves ==
    ASSUME PageInv, UploadsCalm, rows' \subseteq Uploads,
           UNCHANGED <<registered, place, deviceList, files, missed, attempts, atNetwork>>
    PROVE  PageInv'
<1>1. /\ registered' = registered /\ missed' = missed /\ place' = place
      /\ attempts' = attempts /\ atNetwork' = atNetwork
      /\ deviceList' = deviceList /\ files' = files
  BY Zenon
<1>2. PageTyped'
  BY <1>1, Zenon DEF PageInv, PageTyped
<1>3. AttemptsCalm /\ (\A n : FilesCalm(n)) /\ (\A d : ListCalm(d))
  BY <1>1, SameAttempts, SameFiles, SameList, Zenon
<1> QED
  BY <1>2, <1>3, PageKept, Zenon

\* The handler's steps.
LEMMA HandlerCalm ==
    ASSUME FilesIInv, PageInv, NEW n \in Uploads, NEW from \in {"sent", "copied"},
           NEW to \in Servers, ServerStep(n, from, to),
           rows \subseteq rows', missed' = missed, to = "stored" => n \in rows'
    PROVE  UploadsCalm
<1>1. /\ uploads[n].server = from
      /\ uploads'[n].server = to /\ uploads'[n].client = uploads[n].client
      /\ \A m \in Uploads \ {n} : uploads'[m] = uploads[m]
  BY ServerStepFacts
<1>2. uploads[n].client # "told"
  BY <1>1 DEF PageInv, Uploaded
<1> QED
  BY <1>1, <1>2 DEF UploadsCalm, UploadCalm

LEMMA UploadStep ==
    ASSUME FilesIInv, PageInv, NEW n \in Uploads,
           \/ Attach(n) \/ UploadFails(n)
           \/ RefuseFile(n) \/ CopyFile(n) \/ InsertRow(n) \/ InsertFails(n)
    PROVE  PageInv'
<1>0. rows \subseteq Uploads
  BY DEF PageInv, PageTyped
<1>1. CASE Attach(n)
  <2>1. /\ rows' = rows /\ uploads[n].client = "unused"
        /\ UNCHANGED <<registered, place, deviceList, files, missed, attempts, atNetwork>>
    BY <1>1, Zenon DEF Attach, serverVars, listVars
  <2>2. PICK c \in {"pending", "paused"} : c = IF atNetwork THEN "pending" ELSE "paused"
    OBVIOUS
  <2>3. PICK s \in {"sent", "idle"} : s = IF atNetwork THEN "sent" ELSE "idle"
    OBVIOUS
  <2>4. PICK d : d = IF atNetwork THEN place ELSE "other"
    BY Zenon
  <2>5. PICK r : r = [client |-> c, server |-> s, url |-> d, options |-> place, mounted |-> TRUE]
    BY Zenon
  <2>6. uploads' = [uploads EXCEPT ![n] = r]
    BY <1>1, <2>2, <2>3, <2>4, <2>5, Zenon DEF Attach
  <2>7. r.client = c /\ r.server = s
    BY <2>5
  <2>8. UploadsCalm
    BY <2>1, <2>6, <2>7 DEF FilesIInv, UploadsCalm, UploadCalm
  <2> QED
    BY <1>0, <2>1, <2>8, UploadMoves, Zenon
<1>2. CASE UploadFails(n)
  <2>1. /\ rows' = rows /\ uploads' = [uploads EXCEPT ![n].client = "failed"]
        /\ UNCHANGED <<registered, place, deviceList, files, missed, attempts, atNetwork>>
    BY <1>2, Zenon DEF UploadFails, serverVars, listVars
  <2>2. "failed" \in Clients
    BY DEF Clients
  <2>3. UploadsCalm
    BY <2>1, <2>2, ClientStepFacts DEF UploadsCalm, UploadCalm
  <2> QED
    BY <1>0, <2>1, <2>3, UploadMoves, Zenon
<1>3. CASE RefuseFile(n)
  <2>1. /\ rows' = rows /\ ServerStep(n, "sent", "failed")
        /\ UNCHANGED <<registered, place, deviceList, files, missed, attempts, atNetwork>>
    BY <1>3, Zenon DEF RefuseFile, ServerStep, listVars
  <2>2. "failed" \in Servers
    BY DEF Servers
  <2>3. UploadsCalm
    BY <2>1, <2>2, HandlerCalm
  <2> QED
    BY <1>0, <2>1, <2>3, UploadMoves, Zenon
<1>4. CASE CopyFile(n)
  <2>1. PICK to \in {"copied", "failed"} : ServerStep(n, "sent", to)
    BY <1>4, Zenon DEF CopyFile
  <2>2. /\ rows' = rows
        /\ UNCHANGED <<registered, place, deviceList, files, missed, attempts, atNetwork>>
    BY <1>4, <2>1, Zenon DEF CopyFile, ServerStep, listVars
  <2>3. to \in Servers
    BY DEF Servers
  <2>4. UploadsCalm
    BY <2>1, <2>2, <2>3, HandlerCalm
  <2> QED
    BY <1>0, <2>2, <2>4, UploadMoves, Zenon
<1>5. CASE InsertRow(n)
  <2>1. /\ rows' = rows \cup {n} /\ ServerStep(n, "copied", "stored")
        /\ UNCHANGED <<registered, place, deviceList, files, missed, attempts, atNetwork>>
    BY <1>5, Zenon DEF InsertRow, ServerStep, listVars
  <2>2. "stored" \in Servers
    BY DEF Servers
  <2>3. UploadsCalm
    BY <2>1, <2>2, HandlerCalm
  <2>4. rows' \subseteq Uploads
    BY <1>0, <2>1
  <2> QED
    BY <2>1, <2>3, <2>4, UploadMoves, Zenon
<1>6. CASE InsertFails(n)
  <2>1. PICK done \in {{}, {n}} : rows' = rows \cup done
    BY <1>6, Zenon DEF InsertFails
  <2>2. /\ ServerStep(n, "copied", "failed")
        /\ UNCHANGED <<registered, place, deviceList, files, missed, attempts, atNetwork>>
    BY <1>6, Zenon DEF InsertFails, ServerStep, listVars
  <2>3. "failed" \in Servers
    BY DEF Servers
  <2>4. UploadsCalm
    BY <2>1, <2>2, <2>3, HandlerCalm
  <2>5. rows' \subseteq Uploads
    BY <1>0, <2>1
  <2> QED
    BY <2>2, <2>4, <2>5, UploadMoves, Zenon
<1> QED
  BY <1>1, <1>2, <1>3, <1>4, <1>5, <1>6, Zenon

LEMMA ServerStopsStep ==
    ASSUME FilesIInv, PageInv, ServerStops
    PROVE  PageInv'
<1>1. /\ rows' = rows
      /\ UNCHANGED <<registered, place, deviceList, files, missed, attempts, atNetwork>>
  BY Zenon DEF ServerStops, serverVars, listVars
<1>2. ASSUME NEW n \in Uploads
      PROVE  /\ uploads'[n].server = "stored" => uploads[n].server = "stored"
             /\ uploads'[n].client = "told" => uploads'[n] = uploads[n]
  <2>1. PICK u \in Upload : u = uploads[n]
    BY DEF FilesIInv
  <2>2. PICK r : r = [u EXCEPT !.server = "failed"]
    BY Zenon
  <2>3. "failed" \in Servers
    BY DEF Servers
  <2>4. r.server = "failed" /\ r.client = u.client
    BY <2>2, <2>3, ServerSet, Z3
  <2>5. uploads'[n] = IF u.server \in {"sent", "copied"} THEN r ELSE u
    BY <2>1, <2>2, Zenon DEF ServerStops
  <2>6. u.client = "told" => u.server = "stored"
    BY <2>1, Zenon DEF PageInv, Uploaded
  <2> QED
    BY <2>1, <2>4, <2>5, <2>6
<1>3. UploadsCalm
  BY <1>1, <1>2 DEF UploadsCalm, UploadCalm
<1>4. rows' \subseteq Uploads
  BY <1>1 DEF PageInv, PageTyped
<1> QED
  BY <1>1, <1>3, <1>4, UploadMoves, Zenon

\* The user is told that the file is stored.
LEMMA UploadSucceedsStep ==
    ASSUME FilesIInv, PageInv, NEW n \in Uploads, UploadSucceeds(n)
    PROVE  PageInv'
<1>1. PICK device, url : device = uploads[n].options /\ url = uploads[n].url
  BY Zenon
<1>2. /\ rows' = rows /\ registered' = registered /\ place' = place
      /\ attempts' = attempts /\ atNetwork' = atNetwork /\ deviceList' = deviceList
      /\ uploads[n].server = "stored" /\ uploads' = [uploads EXCEPT ![n].client = "told"]
      /\ files' = IF device = Followed THEN Invalidate(files, device = place, atNetwork)
                                       ELSE files
      /\ missed' = IF \/ \E list \in files'.answer : n \notin list
                      \/ device # url /\ place = url
                   THEN missed \cup {[file |-> n]} ELSE missed
  BY <1>1, Zenon DEF UploadSucceeds, serverVars
<1>3. missed \subseteq missed'
  BY <1>2
<1>4. /\ files \in Entries(SUBSET Uploads) /\ Answers(files) /\ atNetwork \in BOOLEAN
  BY Zenon DEF PageInv, PageTyped
<1>5. /\ files' \in Entries(SUBSET Uploads)
      /\ \A x : Carries(files, files', x)
      /\ device = Followed /\ place = Followed => files'.fetch # "idle"
  <2>1. CASE device = Followed
    <3>1. PICK observed \in BOOLEAN : observed = (device = place)
      OBVIOUS
    <3>2. files' = Invalidate(files, observed, atNetwork)
      BY <1>2, <2>1, <3>1, Zenon
    <3>3. /\ files' \in Entries(SUBSET Uploads)
          /\ observed => files'.fetch # "idle"
          /\ \A x : Carries(files, files', x)
      BY <1>4, <3>2, InvalidateCarries
    <3> QED
      BY <3>1, <3>3, Zenon
  <2>2. CASE device # Followed
    <3>1. files' = files
      BY <1>2, <2>2, Zenon
    <3> QED
      BY <1>4, <2>2, <3>1, SameCarries, Zenon
  <2> QED
    BY <2>1, <2>2
<1>6. Answers(files')
  BY <1>4, <1>5, Zenon DEF Carries
<1>7. PageTyped'
  BY <1>2, <1>5, <1>6, Zenon DEF PageInv, PageTyped
<1>8. /\ uploads'[n].server = uploads[n].server /\ uploads'[n].client = "told"
      /\ uploads'[n].url = url
      /\ \A m \in Uploads \ {n} : uploads'[m] = uploads[m]
  <2>1. "told" \in Clients
    BY DEF Clients
  <2> QED
    BY <1>1, <1>2, <2>1, ClientStepFacts
<1>9. \A x : FilesCalm(x)
  BY <1>2, <1>5, Zenon DEF FilesCalm
<1>10. ASSUME NEW m \in Uploads \ {n} PROVE Uploaded(m)'
  <2>1. UploadCalm(m)
    BY <1>2, <1>3, <1>8 DEF UploadCalm
  <2> QED
    BY <1>9, <2>1, UploadedKept
<1>11. Uploaded(n)'
  <2>1. n \in rows'
    BY <1>2, Zenon DEF PageInv, Uploaded
  <2>2. ASSUME url = Followed, [file |-> n] \notin missed'
        PROVE  Has(files', n) /\ (place' = Followed => Lists(files', n))
    <3>1. /\ ~\E list \in files'.answer : n \notin list
          /\ ~(device # url /\ place = url)
      BY <1>2, <2>2
    <3>2. Has(files', n)
      BY <1>6, <3>1 DEF Answers, Has
    <3>3. place' = Followed => files'.fetch # "idle"
      BY <1>2, <1>5, <2>2, <3>1, Zenon
    <3> QED
      BY <3>2, <3>3, Zenon DEF Lists
  <2>3. uploads'[n].server = "stored" /\ uploads'[n].url = url
    BY <1>2, <1>8, Zenon
  <2> QED
    BY <2>1, <2>2, <2>3, Zenon DEF Uploaded
<1>12. \A m \in Attempts : Submitted(m)'
  <2>1. \A m \in Attempts : AttemptCalm(m)
    BY <1>2, <1>3 DEF AttemptCalm
  <2>2. \A d : ListCalm(d)
    BY <1>2, SameList, Zenon
  <2> QED
    BY <2>1, <2>2, SubmittedKept, Zenon
<1>13. \A m \in Uploads : Uploaded(m)'
  BY <1>10, <1>11
<1> QED
  BY <1>7, <1>12, <1>13, Zenon DEF PageInv

\* Steps of a registration that tell the user of nothing.
LEMMA AttemptMoves ==
    ASSUME PageInv, AttemptsCalm, registered' \subseteq Devices,
           attempts' \in [Attempts -> Attempt],
           \A n \in Attempts : attempts'[n].client # "unused" \/ attempts'[n].server # "idle"
                                   => attempts'[n].device \in Devices,
           UNCHANGED <<rows, uploads, place, deviceList, files, missed, atNetwork>>
    PROVE  PageInv'
<1>1. /\ rows' = rows /\ uploads' = uploads /\ missed' = missed /\ place' = place
      /\ atNetwork' = atNetwork /\ deviceList' = deviceList /\ files' = files
  BY Zenon
<1>2. PageTyped'
  BY <1>1, Zenon DEF PageInv, PageTyped
<1>3. UploadsCalm /\ (\A n : FilesCalm(n)) /\ (\A d : ListCalm(d))
  BY <1>1, SameUploads, SameFiles, SameList, Zenon
<1> QED
  BY <1>2, <1>3, PageKept, Zenon

LEMMA AttemptStep ==
    ASSUME PageInv, NEW n \in Attempts,
           \/ \E d \in Devices : Submit(n, d)
           \/ RegisterDevice(n) \/ RegistrationFails(n)
    PROVE  PageInv'
<1>0. /\ PageTyped /\ registered \subseteq Devices /\ attempts \in [Attempts -> Attempt]
      /\ \A m \in Attempts : attempts[m].client # "unused" \/ attempts[m].server # "idle"
                                 => attempts[m].device \in Devices
  BY DEF PageInv, PageTyped
<1>1. CASE \E d \in Devices : Submit(n, d)
  <2>1. PICK d \in Devices : Submit(n, d)
    BY <1>1
  <2>2. /\ registered' = registered
        /\ UNCHANGED <<rows, uploads, place, deviceList, files, missed, atNetwork>>
    BY <2>1, Zenon DEF Submit, serverVars, listVars
  <2>3. PICK c \in {"pending", "paused"} : c = IF atNetwork THEN "pending" ELSE "paused"
    OBVIOUS
  <2>4. PICK s \in {"sent", "idle"} : s = IF atNetwork THEN "sent" ELSE "idle"
    OBVIOUS
  <2>5. PICK r : r = [client |-> c, server |-> s, device |-> d]
    BY Zenon
  <2>6. attempts' = [attempts EXCEPT ![n] = r]
    BY <2>1, <2>3, <2>4, <2>5, Zenon DEF Submit
  <2>7. r \in Attempt /\ r.client = c /\ r.server = s /\ r.device = d
    BY <2>5 DEF Attempt, Clients, Servers
  <2>8. AttemptsCalm
    BY <1>0, <2>2, <2>6, <2>7 DEF AttemptsCalm, AttemptCalm
  <2>9. /\ attempts' \in [Attempts -> Attempt]
        /\ \A m \in Attempts : attempts'[m].client # "unused" \/ attempts'[m].server # "idle"
                                   => attempts'[m].device \in Devices
    BY <1>0, <2>6, <2>7
  <2>10. registered' \subseteq Devices
    BY <1>0, <2>2
  <2> QED
    BY <2>2, <2>8, <2>9, <2>10, AttemptMoves, Zenon
<1>2. CASE RegisterDevice(n)
  <2>1. /\ attempts[n].server = "sent"
        /\ UNCHANGED <<rows, uploads, place, deviceList, files, missed, atNetwork>>
    BY <1>2, Zenon DEF RegisterDevice, listVars
  <2>2. PICK to \in {"stored", "failed"} :
            /\ attempts' = [attempts EXCEPT ![n].server = to]
            /\ \/ to = "stored" /\ registered' = registered \cup {attempts[n].device}
               \/ to = "failed" /\ registered' = registered
    <3>1. \/ /\ attempts' = [attempts EXCEPT ![n].server = "stored"]
             /\ registered' = registered \cup {attempts[n].device}
          \/ /\ attempts' = [attempts EXCEPT ![n].server = "failed"]
             /\ registered' = registered
      BY <1>2, Zenon DEF RegisterDevice
    <3> QED
      BY <3>1, Zenon
  <2>3. to \in Servers
    BY DEF Servers
  <2>4. /\ attempts' \in [Attempts -> Attempt]
        /\ attempts'[n].server = to /\ attempts'[n].client = attempts[n].client
        /\ attempts'[n].device = attempts[n].device
        /\ \A m \in Attempts \ {n} : attempts'[m] = attempts[m]
    BY <1>0, <2>2, <2>3, AttemptServerStep, Zenon
  <2>5. attempts[n].client # "told" /\ attempts[n].device \in Devices
    BY <1>0, <2>1 DEF PageInv, Submitted
  <2>6. AttemptsCalm
    <3>1. /\ registered \subseteq registered' /\ missed' = missed
          /\ to = "stored" => attempts[n].device \in registered'
      BY <2>1, <2>2
    <3> QED
      BY <2>4, <2>5, <3>1 DEF AttemptsCalm, AttemptCalm
  <2>7. registered' \subseteq Devices
    BY <1>0, <2>2, <2>5
  <2>8. \A m \in Attempts : attempts'[m].client # "unused" \/ attempts'[m].server # "idle"
                                => attempts'[m].device \in Devices
    BY <1>0, <2>4, <2>5
  <2> QED
    BY <2>1, <2>4, <2>6, <2>7, <2>8, AttemptMoves, Zenon
<1>3. CASE RegistrationFails(n)
  <2>1. /\ registered' = registered /\ attempts[n].client = "pending"
        /\ attempts' = [attempts EXCEPT ![n].client = "failed"]
        /\ UNCHANGED <<rows, uploads, place, deviceList, files, missed, atNetwork>>
    BY <1>3, Zenon DEF RegistrationFails, serverVars, listVars
  <2>2. "failed" \in Clients
    BY DEF Clients
  <2>3. /\ attempts' \in [Attempts -> Attempt]
        /\ attempts'[n].client = "failed" /\ attempts'[n].server = attempts[n].server
        /\ attempts'[n].device = attempts[n].device
        /\ \A m \in Attempts \ {n} : attempts'[m] = attempts[m]
    BY <1>0, <2>1, <2>2, AttemptClientStep, Zenon
  <2>4. AttemptsCalm
    BY <2>1, <2>3 DEF AttemptsCalm, AttemptCalm
  <2>5. /\ registered' \subseteq Devices
        /\ \A m \in Attempts : attempts'[m].client # "unused" \/ attempts'[m].server # "idle"
                                   => attempts'[m].device \in Devices
    BY <1>0, <2>1, <2>3
  <2> QED
    BY <2>1, <2>3, <2>4, <2>5, AttemptMoves, Zenon
<1> QED
  BY <1>1, <1>2, <1>3, Zenon

\* The user is told that the device is registered, and led to its page.
LEMMA RegistrationSucceedsStep ==
    ASSUME FilesIInv, PageInv, NEW n \in Attempts, RegistrationSucceeds(n)
    PROVE  PageInv'
<1>1. PICK d : d = attempts[n].device
  BY Zenon
<1>2. PICK q : q = Invalidate(deviceList, OnDevicePage, atNetwork)
  BY Zenon
<1>3. /\ rows' = rows /\ registered' = registered /\ atNetwork' = atNetwork
      /\ attempts[n].client = "pending" /\ attempts[n].server = "stored"
      /\ attempts' = [attempts EXCEPT ![n].client = "told"]
      /\ Mount(d, q)
      /\ missed' = IF \E list \in deviceList'.answer : d \notin list
                   THEN missed \cup {[device |-> d]} ELSE missed
  BY <1>1, <1>2, Zenon DEF RegistrationSucceeds, serverVars
<1>4. missed \subseteq missed'
  BY <1>3
<1>5. /\ PageTyped /\ deviceList \in Entries(SUBSET Devices) /\ Answers(deviceList)
      /\ atNetwork \in BOOLEAN
  BY Zenon DEF PageInv, PageTyped
<1>6. PICK observed \in BOOLEAN : observed = OnDevicePage
  <2>1. OnDevicePage \in BOOLEAN
    BY DEF OnDevicePage
  <2> QED
    BY <2>1, Zenon
<1>7. /\ q \in Entries(SUBSET Devices)
      /\ OnDevicePage => q.fetch # "idle"
      /\ \A x : Carries(deviceList, q, x)
  <2>1. q = Invalidate(deviceList, observed, atNetwork)
    BY <1>2, <1>6, Zenon
  <2>2. /\ q \in Entries(SUBSET Devices)
        /\ observed => q.fetch # "idle"
        /\ \A x : Carries(deviceList, q, x)
    BY <1>5, <2>1, InvalidateCarries
  <2> QED
    BY <1>6, <2>2, Zenon
<1>8. Answers(q)
  BY <1>5, <1>7, Zenon DEF Carries
<1>9. /\ files' \in Entries(SUBSET Uploads) /\ Answers(files')
      /\ \A x : FilesCalm(x)
      /\ deviceList' \in Entries(SUBSET Devices) /\ Answers(deviceList')
      /\ \A x : Carries(q, deviceList', x)
      /\ OnDevicePage' => deviceList'.fetch # "idle" \/ (OnDevicePage /\ deviceList' = q)
  BY <1>3, <1>5, <1>7, <1>8, MountFollows
<1>10. OnDevicePage' => deviceList'.fetch # "idle"
  BY <1>7, <1>9, Zenon
<1>11. \A x : ListCalm(x)
  BY <1>7, <1>9, <1>10, CarriesTwice, Zenon DEF ListCalm
<1>12. /\ attempts' \in [Attempts -> Attempt]
       /\ attempts'[n].client = "told" /\ attempts'[n].server = attempts[n].server
       /\ attempts'[n].device = attempts[n].device
       /\ \A m \in Attempts \ {n} : attempts'[m] = attempts[m]
  <2>1. "told" \in Clients
    BY DEF Clients
  <2> QED
    BY <1>3, <1>5, <2>1, AttemptClientStep, Zenon
<1>13. PageTyped'
  <2>1. rows' \subseteq Uploads /\ registered' \subseteq Devices /\ atNetwork' \in BOOLEAN
    BY <1>3, <1>5 DEF PageTyped
  <2>2. \A m \in Attempts : attempts'[m].client # "unused" \/ attempts'[m].server # "idle"
                                => attempts'[m].device \in Devices
    BY <1>3, <1>5, <1>12 DEF PageTyped
  <2> QED
    BY <1>9, <1>12, <2>1, <2>2, Zenon DEF PageTyped
<1>14. \A m \in Uploads : Uploaded(m)'
  <2>1. \A m \in Uploads : /\ uploads'[m].client = uploads[m].client
                           /\ uploads'[m].server = uploads[m].server
                           /\ uploads'[m].url = uploads[m].url
    BY <1>3, MountKeeps
  <2>2. \A m \in Uploads : UploadCalm(m)
    BY <1>3, <1>4, <2>1 DEF UploadCalm
  <2> QED
    BY <1>9, <2>2, UploadedKept, Zenon
<1>15. ASSUME NEW m \in Attempts \ {n} PROVE Submitted(m)'
  <2>1. AttemptCalm(m)
    BY <1>3, <1>4, <1>12 DEF AttemptCalm
  <2> QED
    BY <1>11, <2>1, SubmittedKept
<1>16. Submitted(n)'
  <2>1. attempts'[n].device = d /\ attempts'[n].server = "stored"
    BY <1>1, <1>3, <1>12, Zenon
  <2>2. d \in registered'
    BY <1>1, <1>3, Zenon DEF PageInv, Submitted
  <2>3. ASSUME [device |-> d] \notin missed'
        PROVE  Has(deviceList', d) /\ (OnDevicePage' => Lists(deviceList', d))
    <3>1. ~\E list \in deviceList'.answer : d \notin list
      BY <1>3, <2>3
    <3>2. Has(deviceList', d)
      BY <1>9, <3>1 DEF Answers, Has
    <3> QED
      BY <1>10, <3>2, Zenon DEF Lists
  <2> QED
    BY <2>1, <2>2, <2>3, Zenon DEF Submitted
<1>17. \A m \in Attempts : Submitted(m)'
  BY <1>15, <1>16
<1> QED
  BY <1>13, <1>14, <1>17, Zenon DEF PageInv

\* Every action keeps what is said of the page.
LEMMA DevicePageStep == FilesIInv /\ PageInv /\ [DeviceNext]_deviceVars => PageInv'
<1> SUFFICES ASSUME FilesIInv, PageInv, [DeviceNext]_deviceVars PROVE PageInv'
  OBVIOUS
<1>0. FilesIInv'
  BY FilesStep
<1>1. ASSUME NEW p \in Places, GoToPage(p) PROVE PageInv'
  BY <1>1, GoToPageStep
<1>2. CASE WindowFocus
  BY <1>2, WindowFocusStep
<1>3. CASE NetworkLost
  <2>1. /\ UNCHANGED <<uploads, rows, registered, place, deviceList, files, missed, attempts>>
        /\ atNetwork' = FALSE
    BY <1>3, Zenon DEF NetworkLost, serverVars, listVars
  <2>2. /\ rows' = rows /\ uploads' = uploads /\ missed' = missed /\ place' = place
        /\ deviceList' = deviceList /\ files' = files
        /\ attempts' = attempts /\ registered' = registered
    BY <2>1, Zenon
  <2>3. atNetwork' \in BOOLEAN
    BY <2>1
  <2>4. PageTyped'
    BY <2>2, <2>3, Zenon DEF PageInv, PageTyped
  <2>5. UploadsCalm /\ AttemptsCalm /\ (\A n : FilesCalm(n)) /\ (\A d : ListCalm(d))
    BY <2>2, SameUploads, SameAttempts, SameFiles, SameList, Zenon
  <2> QED
    BY <2>4, <2>5, PageKept, Zenon
<1>4. CASE NetworkBack
  BY <1>0, <1>4, NetworkBackStep
<1>5. CASE ListAnswered \/ ListSettles
  BY <1>5, ListRequestStep
<1>6. CASE FilesAnswered \/ FilesSettle
  BY <1>6, FilesRequestStep
<1>7. ASSUME NEW n \in Uploads,
             \/ Attach(n) \/ UploadFails(n)
             \/ RefuseFile(n) \/ CopyFile(n) \/ InsertRow(n) \/ InsertFails(n)
      PROVE  PageInv'
  BY <1>7, UploadStep
<1>8. ASSUME NEW n \in Uploads, UploadSucceeds(n) PROVE PageInv'
  BY <1>8, UploadSucceedsStep
<1>9. CASE ServerStops
  BY <1>9, ServerStopsStep
<1>10. ASSUME NEW n \in Attempts,
              \/ \E d \in Devices : Submit(n, d)
              \/ RegisterDevice(n) \/ RegistrationFails(n)
       PROVE  PageInv'
  BY <1>10, AttemptStep
<1>11. ASSUME NEW n \in Attempts, RegistrationSucceeds(n) PROVE PageInv'
  BY <1>11, RegistrationSucceedsStep
<1>12. CASE UNCHANGED deviceVars
  <2>1. /\ rows' = rows /\ uploads' = uploads
        /\ UNCHANGED <<registered, place, deviceList, files, missed, attempts, atNetwork>>
    BY <1>12, Zenon DEF deviceVars, serverVars, listVars
  <2>2. UploadsCalm /\ rows' \subseteq Uploads
    BY <2>1 DEF UploadsCalm, UploadCalm, PageInv, PageTyped
  <2> QED
    BY <2>1, <2>2, UploadMoves, Zenon
<1>13. ASSUME NEW n \in Uploads,
              \/ Attach(n) \/ UploadSucceeds(n) \/ UploadFails(n)
              \/ RefuseFile(n) \/ CopyFile(n) \/ InsertRow(n) \/ InsertFails(n)
       PROVE  PageInv'
  BY <1>7, <1>8, <1>13, Zenon
<1>14. ASSUME NEW n \in Attempts,
              \/ \E d \in Devices : Submit(n, d)
              \/ RegisterDevice(n) \/ RegistrationSucceeds(n) \/ RegistrationFails(n)
       PROVE  PageInv'
  BY <1>10, <1>11, <1>14, Zenon
<1> QED
  BY <1>1, <1>2, <1>3, <1>4, <1>5, <1>6, <1>9, <1>12, <1>13, <1>14, Zenon DEF DeviceNext

\* A quiet page lists every file and shows the device that the user was told is
\* stored, for any number of devices, files and registrations: ToldIsShown of
\* DevicePage.
THEOREM StoredIsShown == DeviceSpec => []ToldIsShown
<1>1. DeviceInit => FilesIInv /\ PageInv
  BY FilesInitial, PageInitial
<1>2. (FilesIInv /\ PageInv) /\ [DeviceNext]_deviceVars => (FilesIInv /\ PageInv)'
  <2> SUFFICES ASSUME FilesIInv, PageInv, [DeviceNext]_deviceVars
               PROVE  FilesIInv' /\ PageInv'
    OBVIOUS
  <2>1. FilesIInv'
    BY FilesStep
  <2>2. PageInv'
    BY DevicePageStep
  <2> QED
    BY <2>1, <2>2, Zenon
<1>3. FilesIInv /\ PageInv => ToldIsShown
  BY PageInvTells
<1> QED
  BY <1>1, <1>2, <1>3, PTL DEF DeviceSpec

\* The types that the invariant of the lists does not need.
RestTyped ==
    /\ disk \subseteq Uploads /\ lost \subseteq Uploads
    /\ place \in Places
    /\ uploads \in [Uploads -> Upload]
    /\ missed \subseteq [file : Uploads] \cup [device : Devices]

\* One that the page keeps, loses, resumes, or that the server is at.
LEMMA UploadSet ==
    ASSUME NEW u \in Upload, NEW d \in Devices \cup {"other"}, NEW s \in Servers,
           NEW c \in Clients
    PROVE  /\ [u EXCEPT !.options = d] \in Upload
           /\ [u EXCEPT !.mounted = FALSE] \in Upload
           /\ [u EXCEPT !.server = s] \in Upload
           /\ [u EXCEPT !.client = c] \in Upload
           /\ [u EXCEPT !.client = c, !.server = s, !.url = u.options] \in Upload
BY DEF Upload

LEMMA UploadServerStep ==
    ASSUME uploads \in [Uploads -> Upload], NEW n \in Uploads, NEW s \in Servers,
           uploads' = [uploads EXCEPT ![n].server = s]
    PROVE  uploads' \in [Uploads -> Upload]
<1>1. PICK u \in Upload : u = uploads[n]
  OBVIOUS
<1>2. PICK r : r = [u EXCEPT !.server = s]
  BY Zenon
<1>3. r \in Upload
  BY <1>2, UploadSet, Zenon DEF Clients
<1>4. uploads' = [uploads EXCEPT ![n] = r]
  BY <1>1, <1>2, Zenon
<1> QED
  BY <1>3, <1>4

LEMMA UploadClientStep ==
    ASSUME uploads \in [Uploads -> Upload], NEW n \in Uploads, NEW c \in Clients,
           uploads' = [uploads EXCEPT ![n].client = c]
    PROVE  uploads' \in [Uploads -> Upload]
<1>1. PICK u \in Upload : u = uploads[n]
  OBVIOUS
<1>2. PICK r : r = [u EXCEPT !.client = c]
  BY Zenon
<1>3. r \in Upload
  <2>1. "idle" \in Servers /\ "other" \in Devices \cup {"other"}
    BY DEF Servers
  <2> QED
    BY <1>2, <2>1, UploadSet, Zenon
<1>4. uploads' = [uploads EXCEPT ![n] = r]
  BY <1>1, <1>2, Zenon
<1> QED
  BY <1>3, <1>4

\* A page that mounts keeps the types of the uploads.
LEMMA MountTyped ==
    ASSUME uploads \in [Uploads -> Upload], NEW p \in Places, NEW q, Mount(p, q)
    PROVE  place' \in Places /\ uploads' \in [Uploads -> Upload]
<1>1. place' = p
  BY Zenon DEF Mount
<1>2. uploads' = [n \in Uploads |->
                      IF ~(uploads[n].mounted /\ UnderWay(uploads[n])) THEN uploads[n]
                      ELSE IF p \in Devices THEN [uploads[n] EXCEPT !.options = p]
                      ELSE [uploads[n] EXCEPT !.mounted = FALSE]]
  BY Zenon DEF Mount
<1>3. "idle" \in Servers /\ "told" \in Clients
  BY DEF Servers, Clients
<1>4. ASSUME NEW n \in Uploads
      PROVE  (IF ~(uploads[n].mounted /\ UnderWay(uploads[n])) THEN uploads[n]
              ELSE IF p \in Devices THEN [uploads[n] EXCEPT !.options = p]
              ELSE [uploads[n] EXCEPT !.mounted = FALSE]) \in Upload
  <2>1. PICK u \in Upload : u = uploads[n]
    OBVIOUS
  <2>2. CASE p \in Devices
    <3>1. [u EXCEPT !.options = p] \in Upload
      BY <1>3, <2>2, UploadSet
    <3> QED
      BY <2>1, <2>2, <3>1, Zenon
  <2>3. CASE p \notin Devices
    <3>1. [u EXCEPT !.mounted = FALSE] \in Upload
      <4>1. "other" \in Devices \cup {"other"}
        OBVIOUS
      <4> QED
        BY <1>3, <4>1, UploadSet, Zenon
    <3> QED
      BY <2>1, <2>3, <3>1, Zenon
  <2> QED
    BY <2>2, <2>3
<1>5. uploads' \in [Uploads -> Upload]
  BY <1>2, <1>4, Zenon
<1> QED
  BY <1>1, <1>5

LEMMA RestInitial == DeviceInit => RestTyped
<1> SUFFICES ASSUME DeviceInit PROVE RestTyped
  OBVIOUS
<1>1. NoUpload \in Upload
  BY DEF NoUpload, Upload, Clients, Servers
<1>2. /\ disk = {} /\ lost = {} /\ missed = {} /\ place = "other"
      /\ uploads = [n \in Uploads |-> NoUpload]
  BY Zenon DEF DeviceInit
<1> QED
  BY <1>1, <1>2 DEF RestTyped, Places

LEMMA RestStep == PageInv /\ RestTyped /\ [DeviceNext]_deviceVars => RestTyped'
<1> SUFFICES ASSUME PageInv, RestTyped, [DeviceNext]_deviceVars PROVE RestTyped'
  OBVIOUS
<1>0. /\ disk \subseteq Uploads /\ lost \subseteq Uploads /\ place \in Places
      /\ uploads \in [Uploads -> Upload]
      /\ missed \subseteq [file : Uploads] \cup [device : Devices]
  BY DEF RestTyped
<1>1. ASSUME NEW p \in Places, GoToPage(p) PROVE RestTyped'
  <2>1. Mount(p, deviceList) /\ disk' = disk /\ lost' = lost /\ missed' = missed
    BY <1>1, Zenon DEF GoToPage, serverVars
  <2>2. place' \in Places /\ uploads' \in [Uploads -> Upload]
    BY <1>0, <2>1, MountTyped
  <2> QED
    BY <1>0, <2>1, <2>2 DEF RestTyped
<1>2. ASSUME /\ UNCHANGED <<disk, lost, place, uploads, missed>>
      PROVE  RestTyped'
  BY <1>0, <1>2 DEF RestTyped
<1>3. CASE WindowFocus \/ NetworkLost \/ ListAnswered \/ ListSettles \/ FilesAnswered \/ FilesSettle
  <2>1. UNCHANGED <<disk, lost, place, uploads, missed>>
    BY <1>3, Zenon DEF WindowFocus, NetworkLost, ListAnswered, ListSettles, FilesAnswered,
                      FilesSettle, serverVars, listVars
  <2> QED
    BY <1>2, <2>1
<1>4. CASE UNCHANGED deviceVars
  <2>1. UNCHANGED <<disk, lost, place, uploads, missed>>
    BY <1>4, Zenon DEF deviceVars, serverVars, listVars
  <2> QED
    BY <1>2, <2>1
<1>5. ASSUME NEW n \in Attempts,
             (\E d \in Devices : Submit(n, d)) \/ RegisterDevice(n) \/ RegistrationFails(n)
      PROVE  RestTyped'
  <2>1. UNCHANGED <<disk, lost, place, uploads, missed>>
    BY <1>5, Zenon DEF Submit, RegisterDevice, RegistrationFails, serverVars, listVars
  <2> QED
    BY <1>2, <2>1
<1>6. CASE NetworkBack
  <2>1. /\ UNCHANGED <<disk, lost, place, missed>>
        /\ uploads' = [n \in Uploads |->
                          IF uploads[n].client = "paused"
                          THEN [uploads[n] EXCEPT !.client = "pending", !.server = "sent",
                                                  !.url = uploads[n].options]
                          ELSE uploads[n]]
    BY <1>6, Zenon DEF NetworkBack, serverVars
  <2>2. ASSUME NEW n \in Uploads
        PROVE  (IF uploads[n].client = "paused"
                THEN [uploads[n] EXCEPT !.client = "pending", !.server = "sent",
                                        !.url = uploads[n].options]
                ELSE uploads[n]) \in Upload
    <3>1. PICK u \in Upload : u = uploads[n]
      BY <1>0
    <3>2. "pending" \in Clients /\ "sent" \in Servers /\ "other" \in Devices \cup {"other"}
      BY DEF Clients, Servers
    <3>3. [u EXCEPT !.client = "pending", !.server = "sent", !.url = u.options] \in Upload
      BY <3>2, UploadSet, Zenon
    <3> QED
      BY <3>1, <3>3, Zenon
  <2>3. uploads' \in [Uploads -> Upload]
    BY <2>1, <2>2, Zenon
  <2> QED
    BY <1>0, <2>1, <2>3 DEF RestTyped
<1>7. ASSUME NEW n \in Uploads, Attach(n) PROVE RestTyped'
  <2>1. PICK r : r = [client |-> IF atNetwork THEN "pending" ELSE "paused",
                      server |-> IF atNetwork THEN "sent" ELSE "idle",
                      url |-> IF atNetwork THEN place ELSE "other",
                      options |-> place, mounted |-> TRUE]
    BY Zenon
  <2>2. /\ place \in Devices /\ UNCHANGED <<disk, lost, place, missed>>
        /\ uploads' = [uploads EXCEPT ![n] = r]
    BY <1>7, <2>1, Zenon DEF Attach, OnDevicePage, serverVars, listVars
  <2>3. r \in Upload
    <3>1. PICK c \in Clients : c = IF atNetwork THEN "pending" ELSE "paused"
      BY DEF Clients
    <3>2. PICK s \in Servers : s = IF atNetwork THEN "sent" ELSE "idle"
      BY DEF Servers
    <3>3. PICK url \in Devices \cup {"other"} : url = IF atNetwork THEN place ELSE "other"
      BY <2>2
    <3>4. r = [client |-> c, server |-> s, url |-> url, options |-> place, mounted |-> TRUE]
      BY <2>1, <3>1, <3>2, <3>3, Zenon
    <3> QED
      BY <2>2, <3>4 DEF Upload
  <2>4. uploads' \in [Uploads -> Upload]
    BY <1>0, <2>2, <2>3
  <2> QED
    BY <1>0, <2>2, <2>4 DEF RestTyped
<1>8. ASSUME NEW n \in Uploads, NEW from, NEW to \in Servers, ServerStep(n, from, to)
      PROVE  /\ uploads' \in [Uploads -> Upload]
             /\ place' \in Places
             /\ missed' \subseteq [file : Uploads] \cup [device : Devices]
  <2>1. UNCHANGED <<place, missed>> /\ uploads' = [uploads EXCEPT ![n].server = to]
    BY <1>8, Zenon DEF ServerStep, listVars
  <2>2. uploads' \in [Uploads -> Upload]
    BY <1>0, <2>1, UploadServerStep
  <2> QED
    BY <1>0, <2>1, <2>2
<1>9. ASSUME NEW n \in Uploads, RefuseFile(n) \/ CopyFile(n) \/ InsertRow(n) \/ InsertFails(n)
      PROVE  RestTyped'
  <2>1. "failed" \in Servers /\ "copied" \in Servers /\ "stored" \in Servers
    BY DEF Servers
  <2>2. \E from \in {"sent", "copied"}, to \in {"failed", "copied", "stored"} : ServerStep(n, from, to)
    BY <1>9 DEF RefuseFile, CopyFile, InsertRow, InsertFails
  <2>3. PICK from, to : to \in Servers /\ ServerStep(n, from, to)
    BY <2>1, <2>2
  <2>4. disk' \subseteq disk \cup {n} /\ lost' \subseteq lost \cup {n}
    BY <1>9 DEF RefuseFile, CopyFile, InsertRow, InsertFails
  <2>5. disk' \subseteq Uploads /\ lost' \subseteq Uploads
    BY <1>0, <2>4
  <2> QED
    BY <1>8, <2>3, <2>5 DEF RestTyped
<1>10. CASE ServerStops
  <2>1. /\ UNCHANGED <<disk, lost, place, missed>>
        /\ uploads' = [n \in Uploads |->
                          IF uploads[n].server \in {"sent", "copied"}
                          THEN [uploads[n] EXCEPT !.server = "failed"] ELSE uploads[n]]
    BY <1>10, Zenon DEF ServerStops, serverVars, listVars
  <2>2. ASSUME NEW n \in Uploads
        PROVE  (IF uploads[n].server \in {"sent", "copied"}
                THEN [uploads[n] EXCEPT !.server = "failed"] ELSE uploads[n]) \in Upload
    <3>1. PICK u \in Upload : u = uploads[n]
      BY <1>0
    <3>2. "pending" \in Clients /\ "failed" \in Servers /\ "other" \in Devices \cup {"other"}
      BY DEF Clients, Servers
    <3>3. [u EXCEPT !.server = "failed"] \in Upload
      BY <3>2, UploadSet, Zenon
    <3> QED
      BY <3>1, <3>3, Zenon
  <2>3. uploads' \in [Uploads -> Upload]
    BY <2>1, <2>2, Zenon
  <2> QED
    BY <1>0, <2>1, <2>3 DEF RestTyped
<1>11. ASSUME NEW n \in Uploads, NEW c \in Clients, uploads' = [uploads EXCEPT ![n].client = c]
       PROVE  uploads' \in [Uploads -> Upload]
  BY <1>0, <1>11, UploadClientStep
<1>12. ASSUME NEW n \in Uploads, UploadSucceeds(n) \/ UploadFails(n) PROVE RestTyped'
  <2>1. /\ UNCHANGED <<disk, lost, place>>
        /\ \E c \in {"told", "failed"} : uploads' = [uploads EXCEPT ![n].client = c]
        /\ missed' = missed \/ missed' = missed \cup {[file |-> n]}
    BY <1>12 DEF UploadSucceeds, UploadFails, serverVars, listVars
  <2>2. uploads' \in [Uploads -> Upload]
    BY <1>11, <2>1 DEF Clients
  <2>3. missed' \subseteq [file : Uploads] \cup [device : Devices]
    <3>1. [file |-> n] \in [file : Uploads]
      OBVIOUS
    <3> QED
      BY <1>0, <2>1, <3>1
  <2> QED
    BY <1>0, <2>1, <2>2, <2>3 DEF RestTyped
<1>13. ASSUME NEW n \in Attempts, RegistrationSucceeds(n) PROVE RestTyped'
  <2>1. PICK d : d = attempts[n].device
    OBVIOUS
  <2>2. d \in Devices
    BY <1>13, <2>1 DEF RegistrationSucceeds, PageInv, PageTyped
  <2>3. /\ UNCHANGED <<disk, lost>>
        /\ \E q : Mount(d, q)
        /\ missed' = missed \/ missed' = missed \cup {[device |-> d]}
    BY <1>13, <2>1, Zenon DEF RegistrationSucceeds, serverVars
  <2>4. place' \in Places /\ uploads' \in [Uploads -> Upload]
    <3>1. d \in Places
      BY <2>2 DEF Places
    <3> QED
      BY <1>0, <2>3, <3>1, MountTyped
  <2>5. missed' \subseteq [file : Uploads] \cup [device : Devices]
    <3>1. [device |-> d] \in [device : Devices]
      BY <2>2
    <3> QED
      BY <1>0, <2>3, <3>1
  <2> QED
    BY <1>0, <2>3, <2>4, <2>5 DEF RestTyped
<1> QED
  BY <1>1, <1>3, <1>4, <1>5, <1>6, <1>7, <1>9, <1>10, <1>12, <1>13, Zenon DEF DeviceNext

\* Every variable of the pages of a device keeps its type: DeviceTypeOK of
\* DevicePage.
THEOREM DeviceTypeCorrect == DeviceSpec => []DeviceTypeOK
<1>1. DeviceInit => FilesIInv /\ PageInv /\ RestTyped
  BY FilesInitial, PageInitial, RestInitial
<1>2. (FilesIInv /\ PageInv /\ RestTyped) /\ [DeviceNext]_deviceVars
          => (FilesIInv /\ PageInv /\ RestTyped)'
  <2> SUFFICES ASSUME FilesIInv, PageInv, RestTyped, [DeviceNext]_deviceVars
               PROVE  FilesIInv' /\ PageInv' /\ RestTyped'
    OBVIOUS
  <2>1. FilesIInv'
    BY FilesStep
  <2>2. PageInv'
    BY DevicePageStep
  <2>3. RestTyped'
    BY RestStep
  <2> QED
    BY <2>1, <2>2, <2>3, Zenon
<1>3. PageInv /\ RestTyped => DeviceTypeOK
  BY DEF PageInv, PageTyped, RestTyped, DeviceTypeOK
<1> QED
  BY <1>1, <1>2, <1>3, PTL DEF DeviceSpec
-----------------------------------------------------------------------------
(* DeviceSearch: the search box and the parameters of the search page.  The    *)
(* timers and the history hold addresses of earlier renders, so the invariant  *)
(* speaks of these too, and not of the current address alone.                  *)

\* The addresses the user can be at: elsewhere the search has no parameters.
Coherent(p) == p.subzone # "" => p.zone # ""
SearchPlaces == {a \in [path : {"devices", "other"}, params : Params] :
                     Coherent(a.params) /\ (a.path = "other" => a.params = NoParams)}

\* Timers, the history and the address itself hold such addresses only.
SearchHeld ==
    /\ address \in SearchPlaces /\ past \in Seq(SearchPlaces)
    /\ text \in Texts \cup {""} /\ kmText \in Kms \cup {""}
    /\ \A t \in queryTimer : t.value \in Texts \cup {""} /\ t.on \in SearchPlaces
    /\ \A t \in kmTimer : t.value \in Kms \cup {""} /\ t.on \in SearchPlaces

\* A timer that is pending holds what is typed, unless the box has taken over
\* another query since.
BoxInv ==
    /\ OnSearchPage(address) => params.q \in {"", text} \/ queryTimer # {}
    /\ ~OnSearchPage(address) => queryTimer = {}
    /\ \A t \in queryTimer : t.value = text \/ params.q = text

\* The inductive invariant.
SearchInv == SearchHeld /\ BoxInv

LEMMA PlaceFacts ==
    /\ Elsewhere \in SearchPlaces /\ ~OnSearchPage(Elsewhere) /\ Elsewhere.params.q = ""
    /\ \A a \in SearchPlaces : /\ a.params \in Params /\ Coherent(a.params)
                               /\ OnSearchPage(a) \/ a.params = NoParams
    /\ \A p \in Params : /\ Coherent(p) => Search(p) \in SearchPlaces
                         /\ OnSearchPage(Search(p)) /\ Search(p).params = p
    /\ NoParams \in Params /\ Coherent(NoParams) /\ NoParams.q = ""
BY DEF SearchPlaces, Elsewhere, OnSearchPage, NoParams, Params, Search, Coherent

\* What update makes of the parameters.
LEMMA UpdatedFacts ==
    ASSUME NEW a \in SearchPlaces, NEW c,
           "q" \in DOMAIN c => c["q"] \in Texts \cup {""},
           "zone" \in DOMAIN c => c["zone"] \in {"", "z"},
           "subzone" \in DOMAIN c => c["subzone"] \in {"", "s"},
           "km" \in DOMAIN c => c["km"] \in Kms \cup {""}
    PROVE  LET p == Updated(a, c).params
           IN  /\ p \in Params /\ OnSearchPage(Updated(a, c))
               /\ Coherent(p) => Updated(a, c) \in SearchPlaces
               /\ p.q = (IF "q" \in DOMAIN c THEN c["q"] ELSE a.params.q)
               /\ p.zone = (IF "zone" \in DOMAIN c THEN c["zone"] ELSE a.params.zone)
               /\ p.subzone = (IF "subzone" \in DOMAIN c THEN c["subzone"] ELSE a.params.subzone)
               /\ p.km = (IF "km" \in DOMAIN c THEN c["km"] ELSE a.params.km)
<1> DEFINE names == {"q", "zone", "subzone", "km"}
<1>1. PICK f : f = [k \in names |-> IF k \in DOMAIN c THEN c[k] ELSE a.params[k]]
  OBVIOUS
<1>2. DOMAIN NoParams = names
  BY DEF NoParams
<1>3. Updated(a, c) = Search(f)
  BY <1>1, <1>2, Zenon DEF Updated
<1>4. a.params \in Params
  BY PlaceFacts
<1>5. /\ f.q = (IF "q" \in DOMAIN c THEN c["q"] ELSE a.params.q)
      /\ f.zone = (IF "zone" \in DOMAIN c THEN c["zone"] ELSE a.params.zone)
      /\ f.subzone = (IF "subzone" \in DOMAIN c THEN c["subzone"] ELSE a.params.subzone)
      /\ f.km = (IF "km" \in DOMAIN c THEN c["km"] ELSE a.params.km)
  BY <1>1
<1>6. f \in Params
  <2>1. f = [q |-> f.q, zone |-> f.zone, subzone |-> f.subzone, km |-> f.km]
    BY <1>1
  <2>2. /\ f.q \in Texts \cup {""} /\ f.zone \in {"", "z"} /\ f.subzone \in {"", "s"}
        /\ f.km \in Kms \cup {""}
    BY <1>4, <1>5 DEF Params
  <2> QED
    BY <2>1, <2>2 DEF Params
<1>7. Search(f).params = f /\ OnSearchPage(Search(f)) /\ (Coherent(f) => Search(f) \in SearchPlaces)
  BY <1>6, PlaceFacts
<1> QED
  BY <1>3, <1>5, <1>6, <1>7

\* A render at another address.
LEMMA ShowFacts ==
    ASSUME SearchHeld, NEW a \in SearchPlaces, NEW typed \in Texts \cup {""}, NEW timers,
           NEW km \in Kms \cup {""}, Show(a, typed, timers, km)
    PROVE  /\ address' = a /\ params' = a.params
           /\ text' \in Texts \cup {""} /\ kmText' \in Kms \cup {""}
           /\ a.params.q # params.q => text' = a.params.q
           /\ a.params.q = params.q => text' = typed
           /\ (OnSearchPage(a) <=> OnSearchPage(address)) => queryTimer' = timers
           /\ ~ (OnSearchPage(a) <=> OnSearchPage(address)) => queryTimer' = {}
<1>1. a.params.q \in Texts \cup {""} /\ a.params.km \in Kms \cup {""}
  BY PlaceFacts DEF Params
<1>2. address' = a /\ params' = a.params
  BY Zenon DEF Show, params
<1>3. /\ text' = (IF a.params.q # params.q THEN a.params.q ELSE typed)
      /\ queryTimer' = (IF OnSearchPage(a) = OnSearchPage(address) THEN timers ELSE {})
      /\ kmText' = (IF panelOpen /\ a.params.km # params.km THEN a.params.km ELSE km)
  BY Zenon DEF Show
<1>4. OnSearchPage(a) \in BOOLEAN /\ OnSearchPage(address) \in BOOLEAN
  BY DEF OnSearchPage
<1> QED
  BY <1>1, <1>2, <1>3, <1>4

LEMMA HeldShown ==
    ASSUME SearchHeld, NEW a \in SearchPlaces, NEW typed \in Texts \cup {""}, NEW timers,
           timers \subseteq queryTimer, NEW km \in Kms \cup {""}, Show(a, typed, timers, km),
           past' \in Seq(SearchPlaces), kmTimer' \subseteq kmTimer
    PROVE  SearchHeld'
<1>1. queryTimer' \subseteq queryTimer
  BY ShowFacts
<1> QED
  BY <1>1, ShowFacts DEF SearchHeld

\* The box and the timers are as they were at the render before.
LEMMA BoxShown ==
    ASSUME SearchInv, NEW a \in SearchPlaces, NEW km \in Kms \cup {""}, Show(a, text, queryTimer, km),
           past' \in Seq(SearchPlaces), kmTimer' \subseteq kmTimer
    PROVE  SearchInv'
<1>1. SearchHeld /\ text \in Texts \cup {""} /\ address \in SearchPlaces
  BY DEF SearchInv, SearchHeld
<1>2. SearchHeld'
  BY <1>1, HeldShown
<1>3. /\ address' = a /\ params' = a.params
      /\ a.params.q # params.q => text' = a.params.q
      /\ a.params.q = params.q => text' = text
      /\ (OnSearchPage(a) <=> OnSearchPage(address)) => queryTimer' = queryTimer
      /\ ~ (OnSearchPage(a) <=> OnSearchPage(address)) => queryTimer' = {}
  BY <1>1, ShowFacts
<1>4. ~OnSearchPage(address) => params.q = ""
  BY <1>1, PlaceFacts DEF params
<1>5. OnSearchPage(address)' <=> OnSearchPage(a)
  BY <1>3 DEF OnSearchPage
<1>6. BoxInv
  BY DEF SearchInv
<1>7. OnSearchPage(a) => params'.q \in {"", text'} \/ queryTimer' # {}
  BY <1>3, <1>4, <1>6 DEF BoxInv
<1>8. ~OnSearchPage(a) => queryTimer' = {}
  BY <1>3, <1>6 DEF BoxInv
<1>9. \A t \in queryTimer' : t.value = text' \/ params'.q = text'
  BY <1>3, <1>6 DEF BoxInv
<1>10. BoxInv'
  BY <1>5, <1>7, <1>8, <1>9, Zenon DEF BoxInv, params
<1> QED
  BY <1>2, <1>10 DEF SearchInv

\* The history.
LEMMA SearchPushKept ==
    ASSUME NEW a, address \in SearchPlaces, past \in Seq(SearchPlaces), Push(a)
    PROVE  past' \in Seq(SearchPlaces)
<1> DEFINE longer == Append(past, address)
<1>1. longer \in Seq(SearchPlaces)
  BY AppendProperties
<1>2. longer # <<>>
  BY AppendProperties
<1>3. past' = longer \/ past' = Tail(longer)
  BY Zenon DEF Push
<1> HIDE DEF longer
<1> QED
  BY <1>1, <1>2, <1>3

LEMMA GoToKept ==
    ASSUME SearchInv, NEW a \in SearchPlaces, GoTo(a), UNCHANGED <<panelOpen, kmTimer>>
    PROVE  SearchInv'
<1>1. past' \in Seq(SearchPlaces)
  BY SearchPushKept DEF GoTo, SearchInv, SearchHeld
<1> QED
  BY <1>1, BoxShown DEF GoTo, SearchInv, SearchHeld

\* An update by a handler that was rendered at address a, perhaps long ago.
LEMMA UpdateKept ==
    ASSUME SearchInv, NEW a \in SearchPlaces, NEW c, Updated(a, c) \in SearchPlaces,
           UpdateFrom(a, c, text, queryTimer, kmText), kmTimer' \subseteq kmTimer
    PROVE  SearchInv'
<1>1. past' \in Seq(SearchPlaces)
  BY SearchPushKept DEF UpdateFrom, SearchInv, SearchHeld
<1>2. Show(Updated(a, c), text, queryTimer, kmText)
  BY Zenon DEF UpdateFrom
<1> QED
  BY <1>1, <1>2, BoxShown DEF SearchInv, SearchHeld

\* The query is put into the address, and no timer is left.
LEMMA QueryKept ==
    ASSUME SearchInv, NEW a \in SearchPlaces, NEW v \in Texts \cup {""},
           v = text \/ params.q = text,
           UpdateFrom(a, [q |-> v], text, {}, kmText), UNCHANGED <<panelOpen, kmTimer>>
    PROVE  SearchInv'
<1>1. /\ Updated(a, [q |-> v]) \in SearchPlaces /\ OnSearchPage(Updated(a, [q |-> v]))
      /\ Updated(a, [q |-> v]).params.q = v
  <2>1. DOMAIN [q |-> v] = {"q"} /\ [q |-> v]["q"] = v
    OBVIOUS
  <2>2. Coherent(a.params)
    BY PlaceFacts
  <2> QED
    BY <2>1, <2>2, UpdatedFacts DEF Coherent
<1>2. PICK b \in SearchPlaces : b = Updated(a, [q |-> v])
  BY <1>1
<1>3. Show(b, text, {}, kmText)
  BY <1>2, Zenon DEF UpdateFrom
<1>4. past' \in Seq(SearchPlaces)
  BY SearchPushKept DEF UpdateFrom, SearchInv, SearchHeld
<1>5. SearchHeld /\ text \in Texts \cup {""} /\ kmText \in Kms \cup {""}
  BY DEF SearchInv, SearchHeld
<1>6. SearchHeld'
  BY <1>3, <1>4, <1>5, HeldShown
<1>7. /\ address' = b /\ params' = b.params /\ queryTimer' = {} /\ b.params.q = v
      /\ b.params.q # params.q => text' = b.params.q
      /\ b.params.q = params.q => text' = text
  BY <1>1, <1>2, <1>3, <1>5, ShowFacts
<1>8. params'.q = text'
  BY <1>7
<1>9. BoxInv'
  BY <1>1, <1>2, <1>7, <1>8 DEF BoxInv, OnSearchPage
<1> QED
  BY <1>6, <1>9 DEF SearchInv

\* The actions that go to no other address.
LEMMA BoxKept ==
    ASSUME SearchInv, UNCHANGED <<address, past>>, text' = text, queryTimer' = queryTimer,
           kmText' \in Kms \cup {""},
           \A t \in kmTimer' : t.value \in Kms \cup {""} /\ t.on \in SearchPlaces
    PROVE  SearchInv'
BY DEF SearchInv, SearchHeld, BoxInv, OnSearchPage, params

LEMMA TypeKept ==
    ASSUME SearchInv, NEW v \in Texts \cup {""}, Type(v)
    PROVE  SearchInv'
<1>1. /\ text' = v /\ UNCHANGED <<address, past, kmText, kmTimer>>
      /\ queryTimer' = IF OnSearchPage(address) THEN {[value |-> v, on |-> address]} ELSE {}
  BY DEF Type, kmVars
<1>2. \A t \in queryTimer' : t.value = v /\ t.on = address
  <2>1. [value |-> v, on |-> address].value = v /\ [value |-> v, on |-> address].on = address
    OBVIOUS
  <2>2. \A t \in queryTimer' : t = [value |-> v, on |-> address]
    BY <1>1, Zenon
  <2> QED
    BY <2>1, <2>2, Zenon
<1>3. OnSearchPage(address) => queryTimer' # {}
  BY <1>1
<1>4. SearchHeld'
  BY <1>1, <1>2 DEF SearchInv, SearchHeld
<1>5. BoxInv'
  BY <1>1, <1>2, <1>3 DEF BoxInv, OnSearchPage
<1> QED
  BY <1>4, <1>5 DEF SearchInv

LEMMA TypeKmKept ==
    ASSUME SearchInv, NEW v \in Kms \cup {""}, TypeKm(v)
    PROVE  SearchInv'
<1>1. /\ kmText' = v /\ UNCHANGED <<address, past, text, queryTimer>>
      /\ kmTimer' = {[value |-> v, on |-> address]}
  BY DEF TypeKm, boxVars
<1>2. address \in SearchPlaces
  BY DEF SearchInv, SearchHeld
<1>3. [value |-> v, on |-> address].value = v /\ [value |-> v, on |-> address].on = address
  OBVIOUS
<1>4. \A t \in kmTimer' : t.value \in Kms \cup {""} /\ t.on \in SearchPlaces
  BY <1>1, <1>2, <1>3, Zenon
<1> QED
  BY <1>1, <1>4, BoxKept

LEMMA TogglePanelKept ==
    ASSUME SearchInv, TogglePanel
    PROVE  SearchInv'
<1>1. /\ kmText' = (IF panelOpen THEN "" ELSE params.km)
      /\ UNCHANGED <<address, past, text, queryTimer, kmTimer>>
  BY DEF TogglePanel, boxVars
<1>2. address \in SearchPlaces /\ \A t \in kmTimer : t.value \in Kms \cup {""} /\ t.on \in SearchPlaces
  BY DEF SearchInv, SearchHeld
<1>3. params.km \in Kms \cup {""}
  BY <1>2, PlaceFacts DEF Params, params
<1> QED
  BY <1>1, <1>2, <1>3, BoxKept

LEMMA QueryTimerKept ==
    ASSUME SearchInv, QueryTimerFires
    PROVE  SearchInv'
<1>1. PICK t \in queryTimer : /\ UpdateFrom(t.on, [q |-> t.value], text, {}, kmText)
                              /\ UNCHANGED <<panelOpen, kmTimer>>
  BY DEF QueryTimerFires
<1>2. /\ t.on \in SearchPlaces /\ t.value \in Texts \cup {""}
      /\ t.value = text \/ params.q = text
  BY <1>1 DEF SearchInv, SearchHeld, BoxInv
<1> QED
  BY <1>1, <1>2, QueryKept

LEMMA ShowAllKept ==
    ASSUME SearchInv, ShowAll
    PROVE  SearchInv'
BY QueryKept DEF ShowAll, SearchInv, SearchHeld

LEMMA OpenDeviceKept ==
    ASSUME SearchInv, OpenDevice
    PROVE  SearchInv'
<1>1. /\ Elsewhere \in SearchPlaces /\ ~OnSearchPage(Elsewhere)
  BY PlaceFacts
<1>2. SearchHeld /\ kmText \in Kms \cup {""} /\ past' \in Seq(SearchPlaces)
  BY SearchPushKept DEF OpenDevice, SearchInv, SearchHeld
<1>3. Show(Elsewhere, "", {}, kmText) /\ kmTimer' = kmTimer
  BY DEF OpenDevice
<1>4. SearchHeld'
  BY <1>1, <1>2, <1>3, HeldShown
<1>5. address' = Elsewhere /\ queryTimer' = {}
  BY <1>1, <1>2, <1>3, ShowFacts
<1> QED
  BY <1>1, <1>4, <1>5 DEF SearchInv, BoxInv, OnSearchPage

\* What the filters change, made at an address where a subzone has its zone.
LEMMA FilterKept ==
    ASSUME SearchInv, NEW c, Updated(address, c) \in SearchPlaces, Update(c),
           UNCHANGED <<panelOpen, kmTimer>>
    PROVE  SearchInv'
<1>1. address \in SearchPlaces
  BY DEF SearchInv, SearchHeld
<1> QED
  BY <1>1, UpdateKept DEF Update

LEMMA ChooseZoneKept ==
    ASSUME SearchInv, ChooseZone
    PROVE  SearchInv'
<1>1. PICK z \in {"", "z"} : Update([zone |-> z, subzone |-> ""])
  BY DEF ChooseZone
<1>2. UNCHANGED <<panelOpen, kmTimer>> /\ address \in SearchPlaces
  BY DEF ChooseZone, SearchInv, SearchHeld
<1> DEFINE c == [zone |-> z, subzone |-> ""]
<1>3. DOMAIN c = {"zone", "subzone"} /\ c["zone"] = z /\ c["subzone"] = ""
  OBVIOUS
<1> HIDE DEF c
<1>4. Updated(address, c) \in SearchPlaces
  BY <1>2, <1>3, UpdatedFacts DEF Coherent
<1> QED
  BY <1>1, <1>2, <1>4, FilterKept DEF c

LEMMA ChooseSubzoneKept ==
    ASSUME SearchInv, ChooseSubzone
    PROVE  SearchInv'
<1>1. PICK s \in {"", "s"} : Update([subzone |-> s])
  BY DEF ChooseSubzone
<1>2. UNCHANGED <<panelOpen, kmTimer>> /\ address \in SearchPlaces /\ address.params.zone # ""
  BY DEF ChooseSubzone, SearchInv, SearchHeld, params
<1> DEFINE c == [subzone |-> s]
<1>3. DOMAIN c = {"subzone"} /\ c["subzone"] = s
  OBVIOUS
<1> HIDE DEF c
<1>4. Updated(address, c) \in SearchPlaces
  BY <1>2, <1>3, UpdatedFacts DEF Coherent
<1> QED
  BY <1>1, <1>2, <1>4, FilterKept DEF c

LEMMA ResetFiltersKept ==
    ASSUME SearchInv, ResetFilters
    PROVE  SearchInv'
<1> DEFINE c == [zone |-> "", subzone |-> "", km |-> ""]
<1>1. Update(c) /\ UNCHANGED <<panelOpen, kmTimer>> /\ address \in SearchPlaces
  BY DEF ResetFilters, SearchInv, SearchHeld
<1>2. DOMAIN c = {"zone", "subzone", "km"} /\ c["zone"] = "" /\ c["subzone"] = "" /\ c["km"] = ""
  OBVIOUS
<1> HIDE DEF c
<1>3. Updated(address, c) \in SearchPlaces
  BY <1>1, <1>2, UpdatedFacts DEF Coherent
<1> QED
  BY <1>1, <1>3, FilterKept

\* A chip takes the subzone along with the zone.
LEMMA RemoveChipKept ==
    ASSUME SearchInv, RemoveChip
    PROVE  SearchInv'
<1>1. PICK c \in Chips : Update(c)
  BY DEF RemoveChip
<1>2. UNCHANGED <<panelOpen, kmTimer>> /\ address \in SearchPlaces /\ Coherent(address.params)
  BY PlaceFacts DEF RemoveChip, SearchInv, SearchHeld
<1>3. /\ "q" \in DOMAIN c => c["q"] = ""
      /\ "zone" \in DOMAIN c => c["zone"] = "" /\ "subzone" \in DOMAIN c
      /\ "subzone" \in DOMAIN c => c["subzone"] = ""
      /\ "km" \in DOMAIN c => c["km"] = ""
  <2>1. CASE c = [q |-> ""]
    BY <2>1
  <2>2. CASE c = [zone |-> "", subzone |-> ""]
    BY <2>2
  <2>3. CASE c = [subzone |-> ""]
    BY <2>3
  <2>4. CASE c = [km |-> ""]
    BY <2>4
  <2>5. CASE c = NoParams
    BY <2>5 DEF NoParams
  <2> QED
    BY <1>1, <2>1, <2>2, <2>3, <2>4, <2>5, Zenon DEF Chips
<1>4. Updated(address, c) \in SearchPlaces
  BY <1>2, <1>3, UpdatedFacts DEF Coherent
<1> QED
  BY <1>1, <1>2, <1>4, FilterKept

LEMMA CommitKept ==
    ASSUME SearchInv, NEW a \in SearchPlaces, NEW v \in Kms \cup {""}, Commit(v, a)
    PROVE  SearchInv'
<1>1. kmTimer' = {} /\ panelOpen' = panelOpen
  BY DEF Commit
<1>2. CASE v # a.params.km
  <2> DEFINE c == [km |-> v]
  <2>1. UpdateFrom(a, c, text, queryTimer, kmText)
    BY <1>2 DEF Commit
  <2>2. DOMAIN c = {"km"} /\ c["km"] = v
    OBVIOUS
  <2>3. Coherent(a.params)
    BY PlaceFacts
  <2> HIDE DEF c
  <2>4. Updated(a, c) \in SearchPlaces
    BY <2>2, <2>3, UpdatedFacts DEF Coherent
  <2> QED
    BY <1>1, <2>1, <2>4, UpdateKept
<1>3. CASE v = a.params.km
  BY <1>1, <1>3, BoxKept DEF Commit, SearchInv, SearchHeld
<1> QED
  BY <1>2, <1>3

LEMMA KmKept ==
    ASSUME SearchInv, KmTimerFires \/ KmLeft
    PROVE  SearchInv'
BY CommitKept DEF KmTimerFires, KmLeft, SearchInv, SearchHeld

LEMMA BrowseKept ==
    ASSUME SearchInv, Browse
    PROVE  SearchInv'
<1>1. address \in SearchPlaces /\ params.zone \in {"", "z"} /\ UNCHANGED <<panelOpen, kmTimer>>
  BY PlaceFacts DEF Browse, SearchInv, SearchHeld, params, Params
<1>2. PICK a : GoTo(a) /\ a \in {Search(NoParams), Search([NoParams EXCEPT !.zone = "z"]),
                                 Search([NoParams EXCEPT !.zone = params.zone]),
                                 Search([NoParams EXCEPT !.zone = "z", !.subzone = "s"])}
  BY <1>1 DEF Browse
<1>3. \A z \in {"", "z"} : Search([NoParams EXCEPT !.zone = z]) \in SearchPlaces
  BY PlaceFacts DEF NoParams, Params, Coherent
<1>4. Search([NoParams EXCEPT !.zone = "z", !.subzone = "s"]) \in SearchPlaces
  BY PlaceFacts DEF NoParams, Params, Coherent
<1>5. a \in SearchPlaces
  BY <1>1, <1>2, <1>3, <1>4, PlaceFacts
<1> QED
  BY <1>1, <1>2, <1>5, GoToKept

LEMMA LinksKept ==
    ASSUME SearchInv, Leave \/ Enter
    PROVE  SearchInv'
BY PlaceFacts, GoToKept DEF Leave, Enter

LEMMA BackKept ==
    ASSUME SearchInv, Back
    PROVE  SearchInv'
<1>1. past \in Seq(SearchPlaces) /\ past # <<>> /\ past' = SubSeq(past, 1, Len(past) - 1)
  BY DEF Back, SearchInv, SearchHeld
<1>2. past[Len(past)] \in SearchPlaces /\ past' \in Seq(SearchPlaces)
  BY <1>1
<1>3. PICK a \in SearchPlaces : a = past[Len(past)]
  BY <1>2
<1>4. Show(a, text, queryTimer, kmText) /\ kmTimer' = kmTimer
  BY <1>3 DEF Back
<1> QED
  BY <1>2, <1>4, BoxShown DEF SearchInv, SearchHeld

LEMMA SearchStep == SearchInv /\ [SearchNext]_searchVars => SearchInv'
<1> SUFFICES ASSUME SearchInv, [SearchNext]_searchVars PROVE SearchInv'
  OBVIOUS
<1>1. CASE \E v \in Texts \cup {""} : Type(v)
  BY <1>1, TypeKept
<1>2. CASE QueryTimerFires \/ ShowAll \/ OpenDevice
  BY <1>2, QueryTimerKept, ShowAllKept, OpenDeviceKept
<1>3. CASE TogglePanel \/ ChooseZone \/ ChooseSubzone \/ KmTimerFires \/ KmLeft \/ ResetFilters
  BY <1>3, TogglePanelKept, ChooseZoneKept, ChooseSubzoneKept, KmKept, ResetFiltersKept
<1>4. CASE \E v \in Kms \cup {""} : TypeKm(v)
  BY <1>4, TypeKmKept
<1>5. CASE RemoveChip \/ Browse \/ Leave \/ Enter \/ Back
  BY <1>5, RemoveChipKept, BrowseKept, LinksKept, BackKept
<1>6. CASE UNCHANGED searchVars
  BY <1>6, BoxKept DEF searchVars, boxVars, kmVars, SearchInv, SearchHeld
<1> QED
  BY <1>1, <1>2, <1>3, <1>4, <1>5, <1>6 DEF SearchNext

LEMMA SearchStart == SearchInit => SearchInv
<1> SUFFICES ASSUME SearchInit PROVE SearchInv
  OBVIOUS
<1>1. address \in SearchPlaces /\ past \in Seq(SearchPlaces)
  <2>1. address \in SearchPlaces
    BY PlaceFacts, Zenon DEF SearchInit
  <2>2. <<>> \in Seq(SearchPlaces)
    OBVIOUS
  <2> QED
    BY <2>1, <2>2, Zenon DEF SearchInit
<1>2. ~OnSearchPage(address)
  BY PlaceFacts DEF SearchInit
<1> QED
  BY <1>1, <1>2 DEF SearchInit, SearchInv, SearchHeld, BoxInv

LEMMA SearchAlways == SearchSpec => []SearchInv
BY SearchStart, SearchStep, PTL DEF SearchSpec

\* The search box and the address tell the same, in whatever order typing,
\* timers, links and Back come.  Code: HeaderSearch's effect and its prevUrlQ.
THEOREM BoxIsKept == SearchSpec => []BoxMatchesAddress
<1>1. SearchInv => BoxMatchesAddress
  BY DEF SearchInv, BoxInv, BoxMatchesAddress
<1> QED
  BY <1>1, SearchAlways, PTL

\* The search has no subzone without its zone, late timers and Back included.
\* Code: SearchFilters, FilterChips and DeviceList.
THEOREM SubzoneIsKept == SearchSpec => []SubzoneHasZone
<1>1. SearchInv => SubzoneHasZone
  BY DEF SearchInv, SearchHeld, SearchPlaces, Coherent, SubzoneHasZone, params
<1> QED
  BY <1>1, SearchAlways, PTL

\* How a step moves the history, the panel and the timers.
Moves ==
    /\ past' = past \/ Push(address) \/ (past # <<>> /\ past' = SubSeq(past, 1, Len(past) - 1))
    /\ panelOpen' = panelOpen \/ panelOpen' = ~panelOpen
    /\ \/ queryTimer' = queryTimer \/ queryTimer' = {}
       \/ \E v \in Texts \cup {""} : queryTimer' = {[value |-> v, on |-> address]}
    /\ \/ kmTimer' = kmTimer \/ kmTimer' = {}
       \/ \E v \in Kms \cup {""} : kmTimer' = {[value |-> v, on |-> address]}

LEMMA GoToMoves ==
    ASSUME NEW a, GoTo(a), UNCHANGED <<panelOpen, kmTimer>>
    PROVE  Moves
<1>1. queryTimer' = queryTimer \/ queryTimer' = {}
  BY Zenon DEF GoTo, Show
<1>2. Push(address)
  BY Zenon DEF GoTo, Push
<1> QED
  BY <1>1, <1>2, Zenon DEF Moves

LEMMA UpdateMoves ==
    ASSUME NEW a, NEW c, NEW typed, NEW timers, timers = queryTimer \/ timers = {}, NEW km,
           UpdateFrom(a, c, typed, timers, km), panelOpen' = panelOpen,
           kmTimer' = kmTimer \/ kmTimer' = {}
    PROVE  Moves
<1>1. queryTimer' = queryTimer \/ queryTimer' = {}
  BY Zenon DEF UpdateFrom, Show
<1>2. past' = past \/ Push(address)
  BY Zenon DEF UpdateFrom, Push
<1> QED
  BY <1>1, <1>2, Zenon DEF Moves

LEMMA CommitMoves ==
    ASSUME NEW v, NEW a, Commit(v, a)
    PROVE  Moves
<1>1. kmTimer' = {} /\ panelOpen' = panelOpen
  BY Zenon DEF Commit
<1>2. CASE v # a.params.km
  BY <1>1, <1>2, UpdateMoves DEF Commit
<1>3. CASE v = a.params.km
  BY <1>1, <1>3, Zenon DEF Commit, Moves
<1> QED
  BY <1>2, <1>3

LEMMA SearchMoves == [SearchNext]_searchVars => Moves
<1> SUFFICES ASSUME [SearchNext]_searchVars PROVE Moves
  OBVIOUS
<1>1. CASE \E v \in Texts \cup {""} : Type(v)
  <2>1. PICK v \in Texts \cup {""} : Type(v)
    BY <1>1
  <2>2. queryTimer' = {[value |-> v, on |-> address]} \/ queryTimer' = {}
    BY <2>1, Zenon DEF Type
  <2>3. UNCHANGED <<past, panelOpen, kmTimer>>
    BY <2>1 DEF Type, kmVars
  <2> QED
    BY <2>2, <2>3, Zenon DEF Moves
<1>2. CASE QueryTimerFires \/ ShowAll
  BY <1>2, UpdateMoves DEF QueryTimerFires, ShowAll
<1>3. CASE OpenDevice
  <2>1. queryTimer' = {} /\ Push(address) /\ UNCHANGED <<panelOpen, kmTimer>>
    BY <1>3, Zenon DEF OpenDevice, Show, Push
  <2> QED
    BY <2>1, Zenon DEF Moves
<1>4. CASE TogglePanel
  BY <1>4, Zenon DEF TogglePanel, Moves, boxVars
<1>5. CASE ChooseZone \/ ChooseSubzone \/ ResetFilters \/ RemoveChip
  BY <1>5, UpdateMoves DEF ChooseZone, ChooseSubzone, ResetFilters, RemoveChip, Update
<1>6. CASE KmTimerFires \/ KmLeft
  BY <1>6, CommitMoves DEF KmTimerFires, KmLeft
<1>7. CASE \E v \in Kms \cup {""} : TypeKm(v)
  BY <1>7, Zenon DEF TypeKm, Moves, boxVars
<1>8. CASE Browse \/ Leave \/ Enter
  BY <1>8, GoToMoves DEF Browse, Leave, Enter
<1>9. CASE Back
  <2>1. queryTimer' = queryTimer \/ queryTimer' = {}
    BY <1>9, Zenon DEF Back, Show
  <2> QED
    BY <1>9, <2>1, Zenon DEF Back, Moves
<1>10. CASE UNCHANGED searchVars
  BY <1>10 DEF searchVars, boxVars, kmVars, Moves
<1> QED
  BY <1>1, <1>2, <1>3, <1>4, <1>5, <1>6, <1>7, <1>8, <1>9, <1>10 DEF SearchNext

\* What the type says besides SearchHeld.
OneOf(values) == {{}} \cup {{t} : t \in [value : values, on : SearchPlaces]}
SearchBounds ==
    /\ Len(past) <= MaxPast /\ panelOpen \in BOOLEAN
    /\ queryTimer \in OneOf(Texts \cup {""}) /\ kmTimer \in OneOf(Kms \cup {""})

LEMMA OneOfFacts ==
    ASSUME NEW values, NEW v \in values, NEW a \in SearchPlaces
    PROVE  {} \in OneOf(values) /\ {[value |-> v, on |-> a]} \in OneOf(values)
<1>1. [value |-> v, on |-> a] \in [value : values, on : SearchPlaces]
  OBVIOUS
<1> QED
  BY <1>1, Zenon DEF OneOf

LEMMA BoundsStep == SearchInv /\ SearchBounds /\ [SearchNext]_searchVars => SearchBounds'
<1> SUFFICES ASSUME SearchInv, SearchBounds, [SearchNext]_searchVars PROVE SearchBounds'
  OBVIOUS
<1>1. Moves
  BY SearchMoves
<1>2. /\ past \in Seq(SearchPlaces) /\ address \in SearchPlaces /\ Len(past) <= MaxPast
      /\ MaxPast \in Nat
  BY SearchAssumption DEF SearchInv, SearchHeld, SearchBounds
<1>3. Len(past') <= MaxPast
  <2>1. CASE past' = past
    BY <1>2, <2>1
  <2>2. CASE Push(address)
    BY <1>2, <2>2, Bounded DEF Push
  <2>3. CASE past # <<>> /\ past' = SubSeq(past, 1, Len(past) - 1)
    BY <1>2, <2>3, Shortened
  <2> QED
    BY <1>1, <2>1, <2>2, <2>3 DEF Moves
<1>4. panelOpen' \in BOOLEAN
  BY <1>1 DEF Moves, SearchBounds
<1>5. queryTimer' \in OneOf(Texts \cup {""})
  <2>1. CASE queryTimer' = queryTimer
    BY <2>1, Zenon DEF SearchBounds
  <2>2. CASE queryTimer' = {}
    BY <2>2, Zenon DEF OneOf
  <2>3. ASSUME NEW v \in Texts \cup {""}, queryTimer' = {[value |-> v, on |-> address]}
        PROVE  queryTimer' \in OneOf(Texts \cup {""})
    BY <1>2, <2>3, OneOfFacts, Zenon
  <2> QED
    BY <1>1, <2>1, <2>2, <2>3, Zenon DEF Moves
<1>6. kmTimer' \in OneOf(Kms \cup {""})
  <2>1. CASE kmTimer' = kmTimer
    BY <2>1, Zenon DEF SearchBounds
  <2>2. CASE kmTimer' = {}
    BY <2>2, Zenon DEF OneOf
  <2>3. ASSUME NEW v \in Kms \cup {""}, kmTimer' = {[value |-> v, on |-> address]}
        PROVE  kmTimer' \in OneOf(Kms \cup {""})
    BY <1>2, <2>3, OneOfFacts, Zenon
  <2> QED
    BY <1>1, <2>1, <2>2, <2>3, Zenon DEF Moves
<1> QED
  BY <1>3, <1>4, <1>5, <1>6 DEF SearchBounds

\* The variables of the search have their types: one timer each for the box and
\* the chainage at most, and no longer history than assumed.
THEOREM SearchTypeCorrect == SearchSpec => []SearchTypeOK
<1>1. SearchInit => SearchBounds
  <2> SUFFICES ASSUME SearchInit PROVE SearchBounds
    OBVIOUS
  <2>1. {} \in OneOf(Texts \cup {""}) /\ {} \in OneOf(Kms \cup {""})
    BY Zenon DEF OneOf
  <2>2. Len(past) <= MaxPast
    <3>1. past = <<>>
      BY Zenon DEF SearchInit
    <3>2. Len(<<>>) = 0
      OBVIOUS
    <3>3. MaxPast \in Nat
      BY SearchAssumption
    <3>4. 0 <= MaxPast
      BY <3>3
    <3> QED
      BY <3>1, <3>2, <3>4, Zenon
  <2> QED
    <3>1. panelOpen \in BOOLEAN
      BY DEF SearchInit
    <3>2. queryTimer \in OneOf(Texts \cup {""}) /\ kmTimer \in OneOf(Kms \cup {""})
      BY <2>1, Zenon DEF SearchInit
    <3> QED
      BY <2>2, <3>1, <3>2, Zenon DEF SearchBounds
<1>2. SearchInv /\ SearchBounds => SearchTypeOK
  <2> SUFFICES ASSUME SearchInv, SearchBounds PROVE SearchTypeOK
    OBVIOUS
  <2> DEFINE addresses == [path : {"devices", "other"}, params : Params]
  <2>1. SearchPlaces \subseteq addresses
    BY DEF SearchPlaces
  <2>2. address \in addresses /\ past \in Seq(addresses)
    <3>1. past \in Seq(SearchPlaces) /\ address \in SearchPlaces
      BY DEF SearchInv, SearchHeld
    <3> HIDE DEF addresses
    <3> QED
      BY <2>1, <3>1
  <2>3. ASSUME NEW values, NEW timers \in OneOf(values)
        PROVE  timers \in {{}} \cup {{t} : t \in [value : values, on : addresses]}
    <3>1. CASE timers = {}
      BY <3>1, Zenon
    <3>2. ASSUME NEW t \in [value : values, on : SearchPlaces], timers = {t}
          PROVE  t \in [value : values, on : addresses]
      <4> HIDE DEF addresses
      <4> QED
        BY <2>1, <3>2
    <3> QED
      BY <3>1, <3>2, Zenon DEF OneOf
  <2>4. /\ text \in Texts \cup {""} /\ kmText \in Kms \cup {""}
        /\ Len(past) <= MaxPast /\ panelOpen \in BOOLEAN
        /\ queryTimer \in OneOf(Texts \cup {""}) /\ kmTimer \in OneOf(Kms \cup {""})
    BY DEF SearchInv, SearchHeld, SearchBounds
  <2> QED
    BY <2>2, <2>3, <2>4, Zenon DEF SearchTypeOK
<1> QED
  BY <1>1, <1>2, SearchStart, SearchStep, BoundsStep, PTL DEF SearchSpec
-----------------------------------------------------------------------------
(* The notification bell.                                                      *)

FeedSpec == FeedInit /\ [][FeedNext]_feedVars

\* A list as it was at some time: newest first, as many unread as it holds.
NewestFirst(s, n) ==
    /\ s \in Seq(Nat \ {0}) /\ Len(s) <= RecentAlertLimit
    /\ \A i, j \in 1 .. Len(s) : i < j => s[i] > s[j]
    /\ \A i \in 1 .. Len(s) : s[i] <= raised
    /\ n \in 0 .. Len(s)

\* Those behind the unread ones were marked or slipped by, and no unread one was marked.
UnreadOf(s, n) ==
    \A i \in 1 .. Len(s) : IF i <= n THEN s[i] \notin seen \cup slipped
                                     ELSE s[i] \in seen \cup slipped

\* The inductive invariant: the list that arrived and the one that was rendered
\* last are both like that, and nothing is marked that was not raised.
FeedIInv ==
    /\ raised \in 0 .. MaxAlerts
    /\ NewestFirst(feed, unread) /\ UnreadOf(feed, unread)
    /\ rendered = [feed |-> rendered.feed, unread |-> rendered.unread]
    /\ NewestFirst(rendered.feed, rendered.unread)
    /\ UnreadOf(rendered.feed, rendered.unread)
    /\ open \in BOOLEAN /\ twice = FALSE
    /\ highlighted \subseteq 1 .. raised /\ seen \subseteq 1 .. raised
    /\ slipped \subseteq 1 .. raised

\* What a list holds.
LEMMA HeldFacts ==
  ASSUME NEW s \in Seq(Nat \ {0}), NEW n \in 0 .. Len(s)
  PROVE  /\ ToSet(s) = {s[i] : i \in 1 .. Len(s)}
         /\ Newest(s, n) = {s[i] : i \in 1 .. n}
<1>1. DOMAIN s = 1 .. Len(s) /\ Len(s) \in Nat
  OBVIOUS
<1>2. (1 .. Len(s)) \cap (1 .. n) = 1 .. n
  BY <1>1
<1> QED
  BY <1>1, <1>2 DEF ToSet, Newest

\* An alert in front of a list that is cut off behind.
LEMMA PushedFacts ==
  ASSUME NEW S, NEW s \in Seq(S), NEW r \in S, NEW k \in 1 .. Len(s) + 1
  PROVE  /\ SubSeq(<<r>> \o s, 1, k) \in Seq(S)
         /\ Len(SubSeq(<<r>> \o s, 1, k)) = k
         /\ \A i \in 1 .. k :
                SubSeq(<<r>> \o s, 1, k)[i] = IF i = 1 THEN r ELSE s[i - 1]
<1> DEFINE t == <<r>> \o s
<1>1. t \in Seq(S) /\ Len(t) = Len(s) + 1
  OBVIOUS
<1>2. \A i \in 1 .. Len(s) + 1 : t[i] = IF i = 1 THEN r ELSE s[i - 1]
  OBVIOUS
<1> HIDE DEF t
<1>3. /\ SubSeq(t, 1, k) \in Seq(S) /\ Len(SubSeq(t, 1, k)) = k
      /\ \A i \in 1 .. k : SubSeq(t, 1, k)[i] = t[i]
  BY <1>1
<1> QED
  BY <1>2, <1>3 DEF t

\* The unread are those no opening marked or let slip.
LEMMA UnreadAre ==
  ASSUME NEW s, NEW n, NewestFirst(s, n), UnreadOf(s, n)
  PROVE  Newest(s, n) = ToSet(s) \ (seen \cup slipped)
<1>1. /\ s \in Seq(Nat \ {0}) /\ n \in 0 .. Len(s) /\ Len(s) \in Nat
      /\ \A i \in 1 .. n : i \in 1 .. Len(s)
  BY DEF NewestFirst
<1>2. \A i \in 1 .. Len(s) : IF i \in 1 .. n THEN s[i] \notin seen \cup slipped
                                              ELSE s[i] \in seen \cup slipped
  BY <1>1 DEF UnreadOf
<1> QED
  BY <1>1, <1>2, HeldFacts

\* They are as many as they are counted: no alert is in a list twice.
LEMMA UnreadCounted ==
  ASSUME NEW s, NEW n, NewestFirst(s, n)
  PROVE  Cardinality(Newest(s, n)) = n
<1> DEFINE marked == [i \in 1 .. n |-> s[i]]
<1>1. /\ s \in Seq(Nat \ {0}) /\ n \in 0 .. Len(s) /\ Len(s) \in Nat
      /\ \A i \in 1 .. n : i \in 1 .. Len(s) /\ s[i] \in Nat
  BY DEF NewestFirst
<1>2. \A i, j \in 1 .. n : s[i] = s[j] => i = j
  <2>1. \A i, j \in 1 .. n : i < j => s[i] > s[j]
    BY <1>1 DEF NewestFirst
  <2> QED
    BY <1>1, <2>1
<1>3. Newest(s, n) = {s[i] : i \in 1 .. n}
  BY <1>1, HeldFacts
<1>4. marked \in Bijection(1 .. n, Newest(s, n))
  BY <1>2, <1>3 DEF Bijection, Injection, Surjection, IsInjective
<1>5. ExistsBijection(1 .. n, Newest(s, n))
  BY <1>4 DEF ExistsBijection
<1>6. IsFiniteSet(1 .. n) /\ Cardinality(1 .. n) = n
  BY <1>1, FS_Interval
<1> QED
  BY <1>5, <1>6, FS_Bijection

\* At first there is nothing.
LEMMA FeedStart == FeedInit => FeedIInv
<1> SUFFICES ASSUME FeedInit PROVE FeedIInv
  OBVIOUS
<1>1. NewestFirst(<<>>, 0) /\ UnreadOf(<<>>, 0)
  BY FeedAssumption DEF NewestFirst, UnreadOf
<1>2. feed = <<>> /\ unread = 0 /\ rendered.feed = <<>> /\ rendered.unread = 0
  BY DEF FeedInit
<1>3. NewestFirst(feed, unread) /\ UnreadOf(feed, unread)
  BY <1>1, <1>2
<1>4. NewestFirst(rendered.feed, rendered.unread) /\ UnreadOf(rendered.feed, rendered.unread)
  BY <1>1, <1>2
<1>5. raised = 0 /\ raised \in 0 .. MaxAlerts
  BY FeedAssumption DEF FeedInit
<1>6. rendered = [feed |-> rendered.feed, unread |-> rendered.unread]
  BY <1>2 DEF FeedInit
<1>7. open \in BOOLEAN /\ twice = FALSE /\ highlighted = {} /\ seen = {} /\ slipped = {}
  BY DEF FeedInit
<1> QED
  BY <1>3, <1>4, <1>5, <1>6, <1>7 DEF FeedIInv

\* A push puts the alert in front: it is newer than all, and no one has seen it.
LEMMA ArrivesStep == FeedIInv /\ AlertArrives => FeedIInv'
<1> SUFFICES ASSUME FeedIInv, AlertArrives PROVE FeedIInv'
  OBVIOUS
<1> DEFINE r == raised + 1
           k == IF Len(feed) < RecentAlertLimit THEN Len(feed) + 1 ELSE RecentAlertLimit
<1>1. /\ raised \in Nat /\ r \in Nat \ {0} /\ r \in 0 .. MaxAlerts /\ raised' = r
      /\ feed' = SubSeq(<<r>> \o feed, 1, k)
      /\ unread' = IF unread < RecentAlertLimit THEN unread + 1 ELSE unread
      /\ UNCHANGED <<rendered, open, highlighted, seen, slipped, twice>>
  <2>1. raised \in 0 .. MaxAlerts /\ raised < MaxAlerts
    BY DEF FeedIInv, AlertArrives
  <2>2. raised' = r
    BY DEF AlertArrives
  <2>3. feed' = SubSeq(<<raised'>> \o feed, 1, k)
    BY DEF AlertArrives
  <2>4. /\ unread' = IF unread < RecentAlertLimit THEN unread + 1 ELSE unread
        /\ UNCHANGED <<rendered, open, highlighted, seen, slipped, twice>>
    BY DEF AlertArrives
  <2>5. raised \in Nat /\ r \in Nat \ {0} /\ r \in 0 .. MaxAlerts
    BY <2>1, FeedAssumption
  <2> QED
    BY <2>2, <2>3, <2>4, <2>5, Zenon
<1>2. /\ feed \in Seq(Nat \ {0}) /\ Len(feed) \in Nat /\ Len(feed) <= RecentAlertLimit
      /\ unread \in 0 .. Len(feed)
      /\ \A i \in 1 .. Len(feed) : feed[i] \in Nat /\ feed[i] <= raised
      /\ \A i, j \in 1 .. Len(feed) : i < j => feed[i] > feed[j]
  BY DEF FeedIInv, NewestFirst
<1>3. k \in 1 .. Len(feed) + 1 /\ k <= RecentAlertLimit
  BY <1>2, FeedAssumption
<1>4. /\ feed' \in Seq(Nat \ {0}) /\ Len(feed') = k
      /\ \A i \in 1 .. k : feed'[i] = IF i = 1 THEN r ELSE feed[i - 1]
  <2> HIDE DEF k, r
  <2> QED
    BY <1>1, <1>2, <1>3, PushedFacts
<1>5. unread' \in 0 .. k
  BY <1>1, <1>2, FeedAssumption
<1>6. NewestFirst(feed, unread)'
  <2>1. \A i \in 1 .. k : i # 1 => i - 1 \in 1 .. Len(feed)
    BY <1>2, <1>3
  <2>0. raised \in Nat /\ r \in Nat /\ raised < r
    BY <1>1
  <2>2. ASSUME NEW i \in 1 .. k PROVE feed'[i] <= r /\ feed'[i] \in Nat /\ (i # 1 => feed'[i] < r)
    <3>1. CASE i = 1
      <4>1. feed'[i] = r
        BY <1>4, <3>1
      <4> QED
        BY <2>0, <3>1, <4>1
    <3>2. CASE i # 1
      <4>1. feed'[i] = feed[i - 1] /\ i - 1 \in 1 .. Len(feed)
        <5> HIDE DEF k
        <5> QED
          BY <1>4, <2>1, <3>2
      <4>2. feed[i - 1] \in Nat /\ feed[i - 1] <= raised
        BY <1>2, <4>1
      <4> QED
        BY <2>0, <4>1, <4>2
    <3> QED
      BY <3>1, <3>2
  <2>3. ASSUME NEW i \in 1 .. k, NEW j \in 1 .. k, i < j PROVE feed'[i] > feed'[j]
    <3>1. j # 1 /\ k \in Nat
      BY <1>3, <2>3
    <3>2. feed'[j] = feed[j - 1] /\ j - 1 \in 1 .. Len(feed)
      <4> HIDE DEF k
      <4> QED
        BY <1>4, <2>1, <3>1
    <3>3. CASE i = 1
      <4>1. feed'[i] = r
        BY <1>4, <3>3
      <4>2. feed'[j] < r /\ feed'[j] \in Nat
        BY <2>2, <3>1
      <4> QED
        BY <2>0, <4>1, <4>2
    <3>4. CASE i # 1
      <4>1. feed'[i] = feed[i - 1] /\ i - 1 \in 1 .. Len(feed)
        <5> HIDE DEF k
        <5> QED
          BY <1>4, <2>1, <3>4
      <4>2. i - 1 < j - 1
        <5> HIDE DEF k
        <5> QED
          BY <2>3, <3>1
      <4> QED
        BY <1>2, <3>2, <4>1, <4>2
    <3> QED
      BY <3>3, <3>4
  <2> HIDE DEF k
  <2> QED
    BY <1>1, <1>3, <1>4, <1>5, <2>2, <2>3 DEF NewestFirst
<1>7. UnreadOf(feed, unread)'
  <2>1. r \notin seen \cup slipped
    BY <1>1 DEF FeedIInv
  <2>2. SUFFICES ASSUME NEW i \in 1 .. k
                 PROVE  IF i <= unread' THEN feed'[i] \notin seen \cup slipped
                                        ELSE feed'[i] \in seen \cup slipped
    <3> HIDE DEF k
    <3> QED
      BY <1>1, <1>4, <2>2 DEF UnreadOf
  <2>3. CASE i = 1
    BY <1>1, <1>2, <1>3, <1>4, <2>1, <2>3, FeedAssumption
  <2>4. CASE i # 1
    <3>1. /\ i - 1 \in 1 .. Len(feed) /\ feed'[i] = feed[i - 1]
          /\ i <= unread' <=> i - 1 <= unread
      <4>1. i - 1 \in 1 .. Len(feed) /\ i <= RecentAlertLimit /\ i \in Nat
        BY <1>2, <1>3, <2>4, FeedAssumption
      <4>2. feed'[i] = feed[i - 1]
        <5> HIDE DEF k
        <5> QED
          BY <1>4, <2>4
      <4>3. i <= unread' <=> i - 1 <= unread
        BY <1>1, <1>2, <4>1, FeedAssumption
      <4> QED
        BY <4>1, <4>2, <4>3
    <3>2. IF i - 1 <= unread THEN feed[i - 1] \notin seen \cup slipped
                             ELSE feed[i - 1] \in seen \cup slipped
      BY <3>1 DEF FeedIInv, UnreadOf
    <3> QED
      BY <3>1, <3>2
  <2> QED
    BY <2>3, <2>4
<1>8. NewestFirst(rendered.feed, rendered.unread)' /\ UnreadOf(rendered.feed, rendered.unread)'
  BY <1>1 DEF FeedIInv, NewestFirst, UnreadOf
<1> QED
  BY <1>1, <1>6, <1>7, <1>8 DEF FeedIInv

\* An opening marks what was unread when it was rendered: all of that was new,
\* and what else has arrived slips by.
LEMMA OpenStep == FeedIInv /\ OpenBell => FeedIInv'
<1> SUFFICES ASSUME FeedIInv, OpenBell PROVE FeedIInv'
  OBVIOUS
<1> DEFINE s == rendered.feed
           n == rendered.unread
<1>1. /\ highlighted' = Newest(s, n)
      /\ seen' = seen \cup highlighted' /\ slipped' = slipped \cup (ToSet(feed) \ ToSet(s))
      /\ rendered' = [feed |-> feed, unread |-> 0] /\ unread' = 0 /\ open' = TRUE
      /\ twice' = (twice \/ highlighted' \cap seen # {})
      /\ UNCHANGED <<raised, feed>>
  BY DEF OpenBell
<1>2. NewestFirst(s, n) /\ UnreadOf(s, n) /\ NewestFirst(feed, unread)
  BY DEF FeedIInv
<1>3. Newest(s, n) = ToSet(s) \ (seen \cup slipped)
  <2> HIDE DEF s, n
  <2> QED
    BY <1>2, UnreadAre
<1>4. /\ feed \in Seq(Nat \ {0}) /\ ToSet(feed) = {feed[i] : i \in 1 .. Len(feed)}
      /\ s \in Seq(Nat \ {0}) /\ ToSet(s) = {s[i] : i \in 1 .. Len(s)}
      /\ Len(feed) \in Nat /\ Len(s) \in Nat
  <2>1. ASSUME NEW l, NEW m, NewestFirst(l, m)
        PROVE  /\ l \in Seq(Nat \ {0}) /\ Len(l) \in Nat
               /\ ToSet(l) = {l[i] : i \in 1 .. Len(l)}
    <3>1. l \in Seq(Nat \ {0}) /\ m \in 0 .. Len(l)
      BY <2>1 DEF NewestFirst
    <3> QED
      BY <3>1, HeldFacts
  <2> HIDE DEF s, n
  <2> QED
    BY <1>2, <2>1
<1>5. ToSet(feed) \subseteq 1 .. raised /\ ToSet(s) \subseteq 1 .. raised
  BY <1>2, <1>4 DEF NewestFirst, FeedIInv
<1>6. twice' = FALSE
  BY <1>1, <1>3 DEF FeedIInv
<1>7. ToSet(feed) \subseteq seen' \cup slipped'
  BY <1>1, <1>3
<1>8. NewestFirst(feed, 0)'
  BY <1>1, <1>2, <1>4 DEF NewestFirst
<1>9. UnreadOf(feed, 0)'
  <2>1. \A i \in 1 .. Len(feed) : ~(i <= 0) /\ feed[i] \in ToSet(feed)
    BY <1>4
  <2> QED
    BY <1>1, <1>7, <2>1 DEF UnreadOf
<1>10. /\ highlighted' \subseteq 1 .. raised /\ seen' \subseteq 1 .. raised
       /\ slipped' \subseteq 1 .. raised
  BY <1>1, <1>3, <1>5 DEF FeedIInv
<1> QED
  BY <1>1, <1>6, <1>8, <1>9, <1>10 DEF FeedIInv

\* A render, and a closing, take the list as it is.
LEMMA RenderStep == FeedIInv /\ (Render \/ CloseBell) => FeedIInv'
<1> SUFFICES ASSUME FeedIInv, Render \/ CloseBell PROVE FeedIInv'
  OBVIOUS
<1>1. /\ rendered' = [feed |-> feed, unread |-> unread] /\ open' \in BOOLEAN
      /\ UNCHANGED <<raised, feed, unread, highlighted, seen, slipped, twice>>
  BY DEF Render, CloseBell, FeedIInv
<1> QED
  BY <1>1 DEF FeedIInv, NewestFirst, UnreadOf

\* An alert that is raised and does not arrive leaves the lists.
LEMMA MissedStep == FeedIInv /\ AlertMissed => FeedIInv'
<1> SUFFICES ASSUME FeedIInv, AlertMissed PROVE FeedIInv'
  OBVIOUS
<1>1. /\ raised \in Nat /\ raised' = raised + 1 /\ raised' \in 0 .. MaxAlerts
      /\ UNCHANGED <<feed, unread, rendered, open, highlighted, seen, slipped, twice>>
  BY FeedAssumption DEF AlertMissed, FeedIInv
<1>2. ASSUME NEW s, NEW n, NewestFirst(s, n) PROVE
          /\ s \in Seq(Nat \ {0}) /\ Len(s) <= RecentAlertLimit
          /\ \A i, j \in 1 .. Len(s) : i < j => s[i] > s[j]
          /\ \A i \in 1 .. Len(s) : s[i] <= raised + 1
          /\ n \in 0 .. Len(s)
  BY <1>1, <1>2 DEF NewestFirst
<1>3. NewestFirst(feed, unread)' /\ NewestFirst(rendered.feed, rendered.unread)'
  <2>1. NewestFirst(feed, unread)'
    BY <1>1, <1>2 DEF FeedIInv, NewestFirst
  <2>2. NewestFirst(rendered.feed, rendered.unread)'
    BY <1>1, <1>2 DEF FeedIInv, NewestFirst
  <2> QED
    BY <2>1, <2>2
<1>4. UnreadOf(feed, unread)' /\ UnreadOf(rendered.feed, rendered.unread)'
  BY <1>1 DEF FeedIInv, UnreadOf
<1>5. 1 .. raised \subseteq 1 .. raised'
  BY <1>1
<1> QED
  BY <1>1, <1>3, <1>4, <1>5 DEF FeedIInv

\* Every step keeps the invariant.
LEMMA FeedStep == FeedIInv /\ [FeedNext]_feedVars => FeedIInv'
<1>1. ASSUME FeedIInv, UNCHANGED feedVars PROVE FeedIInv'
  BY <1>1 DEF feedVars, FeedIInv, NewestFirst, UnreadOf
<1> QED
  BY <1>1, ArrivesStep, OpenStep, RenderStep, MissedStep DEF FeedNext

\* The bell's count is right: what it counts as unread is what no opening has
\* marked or let slip by, as many as it says, and no alert is marked twice.
\* Code: NotificationBell's toggle, LiveConnectionProvider's AlertRaised.
THEOREM NoneMarkedTwice == FeedSpec => []UnreadAreUnmarked
<1>1. FeedIInv => UnreadAreUnmarked
  <2> SUFFICES ASSUME FeedIInv PROVE UnreadAreUnmarked
    OBVIOUS
  <2>1. NewestFirst(feed, unread) /\ UnreadOf(feed, unread) /\ twice = FALSE
    BY DEF FeedIInv
  <2>2. /\ Newest(feed, unread) = ToSet(feed) \ (seen \cup slipped)
        /\ Cardinality(Newest(feed, unread)) = unread
    BY <2>1, UnreadAre, UnreadCounted
  <2> QED
    BY <2>1, <2>2, Zenon DEF UnreadAreUnmarked
<1> QED
  BY <1>1, FeedStart, FeedStep, PTL DEF FeedSpec

\* The bell's variables have their types: the list is never longer than its
\* limit.  Code: LiveConnectionProvider's AlertRaised.
THEOREM FeedTypeCorrect == FeedSpec => []FeedTypeOK
<1>1. FeedIInv => FeedTypeOK
  <2> SUFFICES ASSUME FeedIInv PROVE FeedTypeOK
    OBVIOUS
  <2>1. ASSUME NEW s, NEW n, NewestFirst(s, n)
        PROVE  s \in Seq(Alerts) /\ n \in 0 .. RecentAlertLimit
    <3>1. s \in Seq(Nat \ {0}) /\ \A i \in 1 .. Len(s) : s[i] \in Nat \ {0} /\ s[i] <= raised
      BY <2>1 DEF NewestFirst
    <3>2. \A i \in 1 .. Len(s) : s[i] \in Alerts
      BY <3>1, FeedAssumption DEF FeedIInv, Alerts
    <3>3. s \in Seq(Alerts)
      BY <3>1, <3>2
    <3> QED
      BY <2>1, <3>3, FeedAssumption DEF NewestFirst
  <2>2. NewestFirst(feed, unread) /\ NewestFirst(rendered.feed, rendered.unread)
    BY DEF FeedIInv
  <2>3. 1 .. raised \subseteq Alerts
    BY FeedAssumption DEF FeedIInv, Alerts
  <2> QED
    BY <2>1, <2>2, <2>3 DEF FeedTypeOK, FeedIInv, NewestFirst
<1> QED
  BY <1>1, FeedStart, FeedStep, PTL DEF FeedSpec
-----------------------------------------------------------------------------
(* The thresholds.                                                           *)

\* The readings past the threshold, those of a device, and what was measured.
Past == {i \in DOMAIN readings : IsPastThreshold(readings[i].value)}
PastOf(s) == {i \in Past : readings[i].sensor = s}
Measured == {readings[i].value : i \in DOMAIN readings}

SummaryTyped == summary \in [count : Nat, min : Values, max : Values, breaching : Nat]

\* The accumulator has the extremes of what was measured.
ExtremesKept ==
    /\ readings = <<>> => \A v \in Values : summary.max <= v /\ v <= summary.min
    /\ readings # <<>> => /\ summary.min \in Measured /\ summary.max \in Measured
                          /\ \A v \in Measured : summary.min <= v /\ v <= summary.max

\* The subzone's number and each device's are those of the readings past.
PastCounted ==
    /\ summary.breaching = Cardinality(Past)
    /\ \A s \in Sensors : breaches[s].readings = Cardinality(PastOf(s))

\* The reading kept of a device is past the threshold, and none is worse.
WorstKept ==
    \A s \in Sensors :
        breaches[s].readings > 0 =>
            /\ IsPastThreshold(breaches[s].value)
            /\ threshold.normal # threshold.critical =>
                   \A i \in PastOf(s) : ~MoreSevere(readings[i].value, breaches[s].value)

\* The inductive invariant.
ThresholdInv == ThresholdTypeOK /\ SummaryTyped /\ ExtremesKept /\ PastCounted /\ WorstKept
-----------------------------------------------------------------------------
\* The greatest of a set, and the least.
LEMMA MaxIs ==
    ASSUME NEW S, S \subseteq Int, NEW m \in S, \A y \in S : m >= y
    PROVE  Max(S) = m
<1>1. \E x : x \in S /\ \A y \in S : x >= y
  OBVIOUS
<1>2. Max(S) = CHOOSE x \in S : \A y \in S : x >= y
  BY DEF Max
<1>3. Max(S) \in S /\ \A y \in S : Max(S) >= y
  BY <1>1, <1>2, Zenon
<1>4. PICK w : w = Max(S)
  OBVIOUS
<1>5. w \in S /\ w \in Int /\ m \in Int
  BY <1>3, <1>4
<1>6. w >= m /\ m >= w
  BY <1>3, <1>4, <1>5
<1> QED
  BY <1>4, <1>5, <1>6

LEMMA MinIs ==
    ASSUME NEW S, S \subseteq Int, NEW m \in S, \A y \in S : m <= y
    PROVE  Min(S) = m
<1>1. \E x : x \in S /\ \A y \in S : x <= y
  OBVIOUS
<1>2. Min(S) = CHOOSE x \in S : \A y \in S : x <= y
  BY DEF Min
<1>3. Min(S) \in S /\ \A y \in S : Min(S) <= y
  BY <1>1, <1>2, Zenon
<1>4. PICK w : w = Min(S)
  OBVIOUS
<1>5. w \in S /\ w \in Int /\ m \in Int
  BY <1>3, <1>4
<1>6. w >= m /\ m >= w
  BY <1>3, <1>4, <1>5
<1> QED
  BY <1>4, <1>5, <1>6

LEMMA OfPair ==
    ASSUME NEW a \in Int, NEW b \in Int
    PROVE  /\ Max({a, b}) = IF a >= b THEN a ELSE b
           /\ Min({a, b}) = IF a <= b THEN a ELSE b
<1>1. CASE a >= b
  <2>1. Max({a, b}) = a
    BY <1>1, MaxIs
  <2>2. Min({a, b}) = b
    BY <1>1, MinIs
  <2> QED
    BY <1>1, <2>1, <2>2
<1>2. CASE a < b
  <2>1. Max({a, b}) = b
    BY <1>2, MaxIs
  <2>2. Min({a, b}) = a
    BY <1>2, MinIs
  <2> QED
    BY <1>2, <2>1, <2>2
<1> QED
  BY <1>1, <1>2

\* A value, or that of no breach, is an integer.
LEMMA ValueIsInt ==
    ASSUME NEW w \in Values \cup {0}
    PROVE  w \in Int
BY ThresholdsAssumption

\* The client's test is the server's.
LEMMA TestsAgree ==
    ASSUME ThresholdTypeOK, NEW v \in Int
    PROVE  IsBreach(v) <=> IsPastThreshold(v)
<1>1. threshold.normal \in Int /\ threshold.critical \in Int
  BY ThresholdsAssumption DEF ThresholdTypeOK
<1> QED
  BY <1>1 DEF IsBreach, Excess, IsPastThreshold, LowIsBad

\* Of three readings past the threshold, severity is transitive.
LEMMA SeverityOrdered ==
    ASSUME ThresholdTypeOK, threshold.normal # threshold.critical,
           NEW v \in Int, NEW w \in Int, NEW x \in Int,
           IsPastThreshold(v), IsPastThreshold(w), IsPastThreshold(x)
    PROVE  /\ ~MoreSevere(v, v)
           /\ MoreSevere(v, w) /\ ~MoreSevere(x, w) => ~MoreSevere(x, v)
<1>1. threshold.normal \in Int /\ threshold.critical \in Int
  BY ThresholdsAssumption DEF ThresholdTypeOK
<1> QED
  BY <1>1 DEF MoreSevere, IsBreach, Excess, IsPastThreshold, LowIsBad

\* The readings past are a finite set.
LEMMA PastFinite ==
    ASSUME ThresholdTypeOK
    PROVE  /\ IsFiniteSet(Past) /\ Cardinality(Past) \in Nat
           /\ \A s : IsFiniteSet(PastOf(s)) /\ Cardinality(PastOf(s)) \in Nat
<1>1. DOMAIN readings = 1 .. Len(readings) /\ Len(readings) \in Nat
  BY DEF ThresholdTypeOK
<1>2. IsFiniteSet(DOMAIN readings)
  BY <1>1, FS_Interval
<1>3. IsFiniteSet(Past)
  BY <1>2, FS_Subset DEF Past
<1>4. ASSUME NEW s PROVE IsFiniteSet(PastOf(s))
  BY <1>3, FS_Subset DEF PastOf
<1> QED
  BY <1>3, <1>4, FS_CardinalityType

\* Every reading has a value and a device.
LEMMA ReadingsTyped ==
    ASSUME ThresholdTypeOK
    PROVE  \A i \in DOMAIN readings : readings[i].value \in Values /\ readings[i].sensor \in Sensors
<1>1. readings \in Seq([sensor : Sensors, value : Values])
  BY DEF ThresholdTypeOK
<1>2. SUFFICES ASSUME NEW i \in DOMAIN readings
               PROVE  readings[i].value \in Values /\ readings[i].sensor \in Sensors
  OBVIOUS
<1>3. readings[i] \in [sensor : Sensors, value : Values]
  <2>1. i \in 1 .. Len(readings)
    BY <1>1
  <2> QED
    BY <1>1, <2>1, ElementOfSeq
<1>4. PICK r \in [sensor : Sensors, value : Values] : r = readings[i]
  BY <1>3
<1> QED
  BY <1>4

\* A packet is added.
LEMMA ReadingAdded ==
    ASSUME ThresholdTypeOK, NEW s \in Sensors, NEW v \in Values, AddReading(s, v)
    PROVE  LET n == Len(readings) + 1 IN
           /\ n \in Nat /\ n \notin DOMAIN readings
           /\ readings' \in Seq([sensor : Sensors, value : Values])
           /\ Len(readings') = n /\ readings' # <<>>
           /\ DOMAIN readings' = DOMAIN readings \cup {n}
           /\ \A i \in DOMAIN readings : readings'[i] = readings[i]
           /\ readings'[n] = [sensor |-> s, value |-> v]
           /\ Past' = IF IsPastThreshold(v) THEN Past \cup {n} ELSE Past
           /\ \A x \in Sensors : PastOf(x)' =
                  IF IsPastThreshold(v) /\ x = s THEN PastOf(x) \cup {n} ELSE PastOf(x)
           /\ Measured' = Measured \cup {v}
           /\ threshold' = threshold
<1> DEFINE n == Len(readings) + 1
           r == [sensor |-> s, value |-> v]
<1>1. /\ readings' = Append(readings, r) /\ threshold' = threshold
      /\ readings \in Seq([sensor : Sensors, value : Values])
      /\ r \in [sensor : Sensors, value : Values]
  BY DEF ThresholdTypeOK, AddReading
<1>2. /\ readings' \in Seq([sensor : Sensors, value : Values])
      /\ Len(readings') = n /\ n \in Nat /\ n > 0
      /\ DOMAIN readings = 1 .. Len(readings) /\ DOMAIN readings' = 1 .. n
      /\ \A i \in 1 .. Len(readings) : readings'[i] = readings[i]
      /\ readings'[n] = r
  BY <1>1
<1>3. /\ DOMAIN readings' = DOMAIN readings \cup {n} /\ n \notin DOMAIN readings
      /\ readings' # <<>>
  BY <1>2
<1>4. \A x : IsPastThreshold(x)' <=> IsPastThreshold(x)
  BY <1>1 DEF IsPastThreshold, LowIsBad
<1>5. Past' = {i \in DOMAIN readings' : IsPastThreshold(readings'[i].value)}
  BY <1>1 DEF Past, IsPastThreshold, LowIsBad
<1>6. r.value = v /\ r.sensor = s
  OBVIOUS
<1>7. Past' = IF IsPastThreshold(v) THEN Past \cup {n} ELSE Past
  <2> HIDE DEF n, r
  <2>1. \A i \in DOMAIN readings : readings'[i] = readings[i]
    BY <1>2
  <2>2. readings'[n].value = v
    BY <1>2, <1>6
  <2> QED
    BY <1>3, <1>5, <2>1, <2>2 DEF Past
<1>8. ASSUME NEW x \in Sensors
      PROVE  PastOf(x)' = IF IsPastThreshold(v) /\ x = s THEN PastOf(x) \cup {n} ELSE PastOf(x)
  <2> HIDE DEF n, r
  <2>1. \A i \in Past : i \in DOMAIN readings /\ readings'[i] = readings[i]
    BY <1>2 DEF Past
  <2>2. PastOf(x)' = {i \in Past' : readings'[i].sensor = x}
    BY DEF PastOf
  <2>3. readings'[n].sensor = s
    BY <1>2, <1>6
  <2> QED
    BY <1>7, <2>1, <2>2, <2>3 DEF PastOf
<1>9. Measured' = Measured \cup {v}
  <2>0. Measured' = {readings'[i].value : i \in DOMAIN readings'}
    BY DEF Measured
  <2> HIDE DEF n, r
  <2>1. \A i \in DOMAIN readings : readings'[i] = readings[i]
    BY <1>2
  <2>2. readings'[n].value = v
    BY <1>2, <1>6
  <2> QED
    BY <1>3, <2>0, <2>1, <2>2 DEF Measured
<1> QED
  BY <1>1, <1>2, <1>3, <1>7, <1>8, <1>9

LEMMA ThresholdStart ==
    ASSUME ThresholdInit
    PROVE  ThresholdInv
<1>1. PICK least \in Values, greatest \in Values :
          \A v \in Values : least <= v /\ v <= greatest
  BY ThresholdsAssumption
<1>2. Max(Values) = greatest /\ Min(Values) = least
  <2>1. \A v \in Values : greatest >= v
    BY <1>1, ThresholdsAssumption
  <2> QED
    BY <1>1, <2>1, MaxIs, MinIs, ThresholdsAssumption
<1>3. /\ readings = <<>>
      /\ summary = [count |-> 0, min |-> greatest, max |-> least, breaching |-> 0]
      /\ breaches = [s \in Sensors |-> NoBreach]
      /\ threshold \in [normal : Values, critical : Values]
  BY <1>2 DEF ThresholdInit
<1>4. ThresholdTypeOK /\ SummaryTyped
  BY <1>3, ThresholdsAssumption DEF ThresholdTypeOK, SummaryTyped, NoBreach
<1>5. ExtremesKept
  BY <1>1, <1>3 DEF ExtremesKept
<1>6. Past = {} /\ \A s : PastOf(s) = {}
  BY <1>3 DEF Past, PastOf
<1>7. PastCounted /\ WorstKept
  <2>1. Cardinality(Past) = 0 /\ \A s : Cardinality(PastOf(s)) = 0
    BY <1>6, FS_EmptySet
  <2>2. \A s \in Sensors : breaches[s].readings = 0
    BY <1>3 DEF NoBreach
  <2> QED
    BY <1>3, <2>1, <2>2 DEF PastCounted, WorstKept
<1> QED
  BY <1>4, <1>5, <1>7 DEF ThresholdInv

\* What a packet does to the accumulator.
LEMMA SummaryAdded ==
    ASSUME ThresholdTypeOK, SummaryTyped, NEW s \in Sensors, NEW v \in Values, AddReading(s, v)
    PROVE  /\ summary' = [count |-> summary.count + 1,
                          min |-> IF summary.min <= v THEN summary.min ELSE v,
                          max |-> IF summary.max >= v THEN summary.max ELSE v,
                          breaching |-> summary.breaching + (IF IsPastThreshold(v) THEN 1 ELSE 0)]
           /\ SummaryTyped'
<1>1. /\ summary.min \in Int /\ summary.max \in Int /\ v \in Int
      /\ summary.min \in Values /\ summary.max \in Values
      /\ summary.count \in Nat /\ summary.breaching \in Nat
  BY ThresholdsAssumption DEF SummaryTyped
<1>2. IsBreach(v) <=> IsPastThreshold(v)
  BY <1>1, TestsAgree
<1>3. /\ Max({summary.max, v}) = IF summary.max >= v THEN summary.max ELSE v
      /\ Min({summary.min, v}) = IF summary.min <= v THEN summary.min ELSE v
  BY <1>1, OfPair
<1>4. summary' = [count |-> summary.count + 1,
                  min |-> IF summary.min <= v THEN summary.min ELSE v,
                  max |-> IF summary.max >= v THEN summary.max ELSE v,
                  breaching |-> summary.breaching + (IF IsPastThreshold(v) THEN 1 ELSE 0)]
  BY <1>2, <1>3 DEF AddReading
<1> QED
  BY <1>1, <1>4 DEF SummaryTyped

\* What it does to the device's breaches.
LEMMA BreachAdded ==
    ASSUME ThresholdTypeOK, NEW s \in Sensors, NEW v \in Values, AddReading(s, v)
    PROVE  /\ ~IsPastThreshold(v) => breaches' = breaches
           /\ IsPastThreshold(v) =>
                  /\ \A x \in Sensors : x # s => breaches'[x] = breaches[x]
                  /\ breaches'[s].readings = breaches[s].readings + 1
                  /\ breaches'[s].value =
                         IF breaches[s].readings = 0 \/ MoreSevere(v, breaches[s].value)
                         THEN v ELSE breaches[s].value
           /\ breaches' \in [Sensors -> [value : Values \cup {0}, readings : Nat]]
<1>1. v \in Int /\ (IsBreach(v) <=> IsPastThreshold(v))
  BY TestsAgree, ThresholdsAssumption
<1>2. breaches \in [Sensors -> [value : Values \cup {0}, readings : Nat]]
  BY DEF ThresholdTypeOK
<1>3. CASE IsPastThreshold(v)
  <2>1. PICK w : w = IF breaches[s].readings = 0 \/ MoreSevere(v, breaches[s].value)
                     THEN v ELSE breaches[s].value
    OBVIOUS
  <2>2. w \in Values \cup {0} /\ breaches[s].readings + 1 \in Nat
    BY <1>2, <2>1
  <2>3. breaches' = [breaches EXCEPT ![s] = [value |-> w, readings |-> breaches[s].readings + 1]]
    BY <1>1, <1>3, <2>1 DEF AddReading, RecordBreach
  <2> QED
    BY <1>2, <1>3, <2>1, <2>2, <2>3
<1>4. CASE ~IsPastThreshold(v)
  BY <1>1, <1>2, <1>4 DEF AddReading
<1> QED
  BY <1>3, <1>4

LEMMA ThresholdStep ==
    ASSUME ThresholdInv, [ThresholdNext]_thresholdVars
    PROVE  ThresholdInv'
<1>1. CASE UNCHANGED thresholdVars
  BY <1>1 DEF thresholdVars, ThresholdInv, ThresholdTypeOK, SummaryTyped, ExtremesKept,
              PastCounted, WorstKept, Past, PastOf, Measured, IsPastThreshold, LowIsBad,
              MoreSevere, IsBreach, Excess
<1>2. ASSUME NEW s \in Sensors, NEW v \in Values, AddReading(s, v)
      PROVE  ThresholdInv'
  <2> PICK n : n = Len(readings) + 1
    OBVIOUS
  <2>0. ThresholdTypeOK /\ SummaryTyped /\ ExtremesKept /\ PastCounted /\ WorstKept
    BY DEF ThresholdInv
  <2>1. /\ n \in Nat /\ n \notin DOMAIN readings
        /\ readings' \in Seq([sensor : Sensors, value : Values])
        /\ Len(readings') = n /\ readings' # <<>>
        /\ DOMAIN readings' = DOMAIN readings \cup {n}
        /\ \A i \in DOMAIN readings : readings'[i] = readings[i]
        /\ readings'[n] = [sensor |-> s, value |-> v]
        /\ Past' = IF IsPastThreshold(v) THEN Past \cup {n} ELSE Past
        /\ \A x \in Sensors : PastOf(x)' =
               IF IsPastThreshold(v) /\ x = s THEN PastOf(x) \cup {n} ELSE PastOf(x)
        /\ Measured' = Measured \cup {v}
        /\ threshold' = threshold
    BY <1>2, <2>0, ReadingAdded
  <2>2. /\ summary' = [count |-> summary.count + 1,
                       min |-> IF summary.min <= v THEN summary.min ELSE v,
                       max |-> IF summary.max >= v THEN summary.max ELSE v,
                       breaching |-> summary.breaching + (IF IsPastThreshold(v) THEN 1 ELSE 0)]
        /\ SummaryTyped'
    BY <1>2, <2>0, SummaryAdded
  <2>3. /\ ~IsPastThreshold(v) => breaches' = breaches
        /\ IsPastThreshold(v) =>
               /\ \A x \in Sensors : x # s => breaches'[x] = breaches[x]
               /\ breaches'[s].readings = breaches[s].readings + 1
               /\ breaches'[s].value =
                      IF breaches[s].readings = 0 \/ MoreSevere(v, breaches[s].value)
                      THEN v ELSE breaches[s].value
        /\ breaches' \in [Sensors -> [value : Values \cup {0}, readings : Nat]]
    BY <1>2, <2>0, BreachAdded
  <2>4. /\ IsFiniteSet(Past) /\ Cardinality(Past) \in Nat
        /\ \A x : IsFiniteSet(PastOf(x)) /\ Cardinality(PastOf(x)) \in Nat
    BY <2>0, PastFinite
  <2>5. n \notin Past /\ \A x : n \notin PastOf(x)
    BY <2>1 DEF Past, PastOf
  <2>6. ThresholdTypeOK'
    <3>1. n <= MaxReadings
      BY <1>2, <2>0, <2>1, ThresholdsAssumption DEF AddReading, ThresholdTypeOK
    <3>2. threshold' \in [normal : Values, critical : Values]
      BY <2>0, <2>1 DEF ThresholdTypeOK
    <3>3. summary'.count \in Nat /\ summary'.breaching \in Nat
      BY <2>2 DEF SummaryTyped
    <3> QED
      BY <2>1, <2>3, <3>1, <3>2, <3>3 DEF ThresholdTypeOK
  <2>7. ExtremesKept'
    <3>1. /\ summary.min \in Int /\ summary.max \in Int /\ v \in Int
          /\ summary.min \in Values /\ summary.max \in Values
      BY <2>0, ThresholdsAssumption DEF SummaryTyped
    <3>2. /\ summary'.min = IF summary.min <= v THEN summary.min ELSE v
          /\ summary'.max = IF summary.max >= v THEN summary.max ELSE v
      BY <2>2
    <3>3. CASE readings = <<>>
      <4>1. Measured = {}
        BY <3>3 DEF Measured
      <4>2. summary.max <= v /\ v <= summary.min
        BY <2>0, <3>3 DEF ExtremesKept
      <4>3. summary'.min = v /\ summary'.max = v
        BY <3>1, <3>2, <4>2
      <4> QED
        BY <2>1, <3>1, <4>1, <4>3 DEF ExtremesKept
    <3>4. CASE readings # <<>>
      <4>1. /\ summary.min \in Measured /\ summary.max \in Measured
            /\ \A w \in Measured : summary.min <= w /\ w <= summary.max
        BY <2>0, <3>4 DEF ExtremesKept
      <4>2. Measured \subseteq Int
        <5>1. \A i \in DOMAIN readings : readings[i].value \in Values
          BY <2>0, ReadingsTyped
        <5> QED
          BY <5>1, ThresholdsAssumption DEF Measured
      <4>3. summary'.min \in Measured' /\ summary'.max \in Measured'
        BY <2>1, <3>2, <4>1
      <4>4. \A w \in Measured' : summary'.min <= w /\ w <= summary'.max
        BY <2>1, <3>1, <3>2, <4>1, <4>2
      <4> QED
        BY <2>1, <4>3, <4>4 DEF ExtremesKept
    <3> QED
      BY <3>3, <3>4
  <2>8. PastCounted'
    <3>1. summary'.breaching = Cardinality(Past')
      <4>1. summary.breaching = Cardinality(Past)
        BY <2>0 DEF PastCounted
      <4>2. Cardinality(Past \cup {n}) = Cardinality(Past) + 1
        BY <2>4, <2>5, FS_AddElement
      <4> QED
        BY <2>1, <2>2, <2>4, <4>1, <4>2
    <3>2. ASSUME NEW x \in Sensors
          PROVE  breaches'[x].readings = Cardinality(PastOf(x)')
      <4>1. breaches[x].readings = Cardinality(PastOf(x))
        BY <2>0 DEF PastCounted
      <4>2. Cardinality(PastOf(x) \cup {n}) = Cardinality(PastOf(x)) + 1
        BY <2>4, <2>5, FS_AddElement
      <4> QED
        BY <2>1, <2>3, <4>1, <4>2
    <3> QED
      BY <3>1, <3>2 DEF PastCounted
  <2>9. WorstKept'
    <3> SUFFICES ASSUME NEW x \in Sensors, breaches'[x].readings > 0
                 PROVE  /\ IsPastThreshold(breaches'[x].value)
                        /\ threshold.normal # threshold.critical =>
                               \A i \in PastOf(x)' :
                                   ~MoreSevere(readings'[i].value, breaches'[x].value)
      BY <2>1 DEF WorstKept, MoreSevere, IsBreach, Excess, IsPastThreshold, LowIsBad
    <3>1. \A i \in PastOf(x) : readings'[i] = readings[i] /\ readings[i].value \in Int
                               /\ IsPastThreshold(readings[i].value)
      <4>1. \A i \in DOMAIN readings : readings[i].value \in Int
        BY <2>0, ReadingsTyped, ThresholdsAssumption
      <4> QED
        BY <2>1, <4>1 DEF PastOf, Past
    <3>2. breaches[x].readings \in Nat /\ breaches[x].value \in Int /\ v \in Int
      <4>1. breaches[x] \in [value : Values \cup {0}, readings : Nat]
        BY <2>0 DEF ThresholdTypeOK
      <4>2. PICK b \in [value : Values \cup {0}, readings : Nat] : b = breaches[x]
        BY <4>1
      <4>3. b.readings \in Nat /\ b.value \in Values \cup {0}
        OBVIOUS
      <4>4. v \in Values \cup {0}
        OBVIOUS
      <4>5. b.value \in Int /\ v \in Int
        BY <4>3, <4>4, ValueIsInt, Zenon
      <4> QED
        BY <4>2, <4>3, <4>5
    <3>3. breaches[x].readings > 0 =>
              /\ IsPastThreshold(breaches[x].value)
              /\ threshold.normal # threshold.critical =>
                     \A i \in PastOf(x) : ~MoreSevere(readings[i].value, breaches[x].value)
      BY <2>0 DEF WorstKept
    <3>4. CASE ~(IsPastThreshold(v) /\ x = s)
      <4>1. breaches'[x] = breaches[x] /\ PastOf(x)' = PastOf(x)
        BY <2>1, <2>3, <3>4
      <4> QED
        BY <3>1, <3>3, <4>1
    <3>5. CASE IsPastThreshold(v) /\ x = s
      <4>1. /\ PastOf(x)' = PastOf(x) \cup {n} /\ readings'[n].value = v
            /\ breaches'[x].value = IF breaches[x].readings = 0 \/ MoreSevere(v, breaches[x].value)
                                    THEN v ELSE breaches[x].value
        BY <2>1, <2>3, <3>5
      <4>2. CASE breaches[x].readings = 0
        <5>1. PastOf(x) = {}
          BY <2>0, <2>4, <4>2, FS_EmptySet DEF PastCounted
        <5>2. breaches'[x].value = v
          BY <4>1, <4>2
        <5> QED
          BY <2>0, <3>2, <3>5, <4>1, <5>1, <5>2, SeverityOrdered
      <4>3. CASE breaches[x].readings > 0 /\ MoreSevere(v, breaches[x].value)
        <5>1. breaches'[x].value = v
          BY <4>1, <4>3
        <5>2. ASSUME threshold.normal # threshold.critical, NEW i \in PastOf(x)
              PROVE  ~MoreSevere(readings'[i].value, v)
          BY <2>0, <3>1, <3>2, <3>3, <3>5, <4>3, <5>2, SeverityOrdered
        <5>3. threshold.normal # threshold.critical => ~MoreSevere(v, v)
          BY <2>0, <3>2, <3>5, SeverityOrdered
        <5> QED
          BY <3>5, <4>1, <5>1, <5>2, <5>3
      <4>4. CASE breaches[x].readings > 0 /\ ~MoreSevere(v, breaches[x].value)
        BY <3>1, <3>2, <3>3, <4>1, <4>4
      <4> QED
        BY <3>2, <4>2, <4>3, <4>4
    <3> QED
      BY <3>4, <3>5
  <2> QED
    BY <2>2, <2>6, <2>7, <2>8, <2>9 DEF ThresholdInv
<1> QED
  BY <1>1, <1>2 DEF ThresholdNext

\* ThresholdTypeOK: every variable of the thresholds' part keeps its type.
\* Code: SnapshotBuilder's accumulators.
THEOREM ThresholdTypeCorrect == ThresholdSpec => []ThresholdTypeOK
<1>1. ThresholdInv => ThresholdTypeOK
  BY DEF ThresholdInv
<1> QED
  BY <1>1, ThresholdStart, ThresholdStep, PTL DEF ThresholdSpec
-----------------------------------------------------------------------------
\* A padded axis shows every value it is made for.
LEMMA AxisShows ==
    ASSUME NEW all, all \subseteq Int, NEW a \in all, NEW b \in all,
           \A x \in all : a <= x /\ x <= b, NEW ratio \in {15, 40}
    PROVE  /\ \A v \in all : Within(v, PaddedDomain(all, ratio))
           /\ PaddedDomain(all, ratio).lo \in Int /\ PaddedDomain(all, ratio).hi \in Int
<1>1. Max(all) = b /\ Min(all) = a
  <2>1. \A x \in all : b >= x /\ a <= x
    OBVIOUS
  <2> QED
    BY <2>1, MaxIs, MinIs
<1>2. PICK pad : pad = IF b - a = 0 THEN 100 ELSE (b - a) * ratio
  OBVIOUS
<1>3. PaddedDomain(all, ratio) = [lo |-> 100 * a - pad, hi |-> 100 * b + pad]
  BY <1>1, <1>2 DEF PaddedDomain
<1>4. a \in Int /\ b \in Int /\ a <= b
  OBVIOUS
<1>5. pad \in Int /\ pad >= 0
  <2>1. CASE ratio = 15
    BY <1>2, <1>4, <2>1
  <2>2. CASE ratio = 40
    BY <1>2, <1>4, <2>2
  <2> QED
    BY <2>1, <2>2
<1>6. ASSUME NEW v \in all PROVE Within(v, PaddedDomain(all, ratio))
  <2>1. v \in Int /\ a <= v /\ v <= b
    OBVIOUS
  <2> QED
    BY <1>3, <1>4, <1>5, <2>1 DEF Within
<1> QED
  BY <1>3, <1>4, <1>5, <1>6

\* What the accumulator says is what was measured.
LEMMA MeasuredFacts ==
    ASSUME ThresholdInv, readings # <<>>
    PROVE  /\ Measured \subseteq Int /\ threshold.critical \in Int
           /\ summary.min \in Measured /\ summary.max \in Measured
           /\ \A v \in Measured : summary.min <= v /\ v <= summary.max
           /\ Max(Measured) = summary.max /\ Min(Measured) = summary.min
<1>1. Measured \subseteq Int
  <2>1. \A i \in DOMAIN readings : readings[i].value \in Int
    BY ReadingsTyped, ThresholdsAssumption DEF ThresholdInv
  <2> QED
    BY <2>1 DEF Measured
<1>2. /\ summary.min \in Measured /\ summary.max \in Measured
      /\ \A v \in Measured : summary.min <= v /\ v <= summary.max
  BY DEF ThresholdInv, ExtremesKept
<1>3. threshold.critical \in Int
  BY ThresholdsAssumption DEF ThresholdInv, ThresholdTypeOK
<1>4. \A v \in Measured : summary.max >= v
  BY <1>1, <1>2
<1> QED
  BY <1>1, <1>2, <1>3, <1>4, MaxIs, MinIs

\* The axes of both charts show every value, and the critical line where it
\* belongs to them.
LEMMA ChartsShow ==
    ASSUME ThresholdInv, readings # <<>>
    PROVE  /\ \A v \in Measured \cup {threshold.critical} : Within(v, TimelineDomain(Measured))
           /\ TimelineDomain(Measured).lo \in Int /\ TimelineDomain(Measured).hi \in Int
           /\ \A v \in Measured : Within(v, OverviewDomain(Measured))
           /\ CriticalInView(Measured, threshold.critical)
                  => Within(threshold.critical, OverviewDomain(Measured))
<1> DEFINE t == threshold.critical
           both == Measured \cup {t}
<1>1. /\ Measured \subseteq Int /\ t \in Int
      /\ summary.min \in Measured /\ summary.max \in Measured
      /\ \A v \in Measured : summary.min <= v /\ v <= summary.max
  BY MeasuredFacts
<1>2. TimelineDomain(Measured) = PaddedDomain(both, 15)
  BY DEF TimelineDomain
<1>3. OverviewDomain(Measured) =
          PaddedDomain(IF CriticalInView(Measured, t) THEN both ELSE Measured, 40)
  BY DEF OverviewDomain
<1> HIDE DEF t
<1>4. \E a \in both, b \in both : \A x \in both : a <= x /\ x <= b
  <2> PICK a : a = IF summary.min <= t THEN summary.min ELSE t
    OBVIOUS
  <2> PICK b : b = IF summary.max >= t THEN summary.max ELSE t
    OBVIOUS
  <2>1. summary.min \in Int /\ summary.max \in Int
    BY <1>1
  <2>2. a \in both /\ b \in both
    BY <1>1
  <2>3. a <= summary.min /\ a <= t /\ summary.max <= b /\ t <= b
    BY <1>1, <2>1
  <2>4. ASSUME NEW x \in both PROVE a <= x /\ x <= b
    <3>1. CASE x \in Measured
      <4>1. summary.min <= x /\ x <= summary.max /\ x \in Int
        BY <1>1, <3>1
      <4>2. a \in Int /\ b \in Int
        BY <1>1, <2>1
      <4> QED
        BY <2>1, <2>3, <4>1, <4>2
    <3>2. CASE x = t
      BY <2>3, <3>2
    <3> QED
      BY <3>1, <3>2
  <2> QED
    BY <2>2, <2>4
<1>5. both \subseteq Int
  BY <1>1
<1>6. ASSUME NEW ratio \in {15, 40}
      PROVE  /\ \A v \in both : Within(v, PaddedDomain(both, ratio))
             /\ PaddedDomain(both, ratio).lo \in Int /\ PaddedDomain(both, ratio).hi \in Int
  <2> HIDE DEF both
  <2>1. PICK a \in both, b \in both : \A x \in both : a <= x /\ x <= b
    BY <1>4
  <2> QED
    BY <1>5, <2>1, AxisShows
<1>7. \A v \in Measured : Within(v, PaddedDomain(Measured, 40))
  BY <1>1, AxisShows
<1>8. (\A v \in Measured : v \in both) /\ t \in both
  OBVIOUS
<1>9. \A v \in both : Within(v, PaddedDomain(both, 15)) /\ Within(v, PaddedDomain(both, 40))
  BY <1>6
<1>10. PaddedDomain(both, 15).lo \in Int /\ PaddedDomain(both, 15).hi \in Int
  BY <1>6
<1> HIDE DEF both
<1>11. \A v \in Measured : Within(v, OverviewDomain(Measured))
  BY <1>3, <1>7, <1>8, <1>9
<1>12. CriticalInView(Measured, t) => Within(t, OverviewDomain(Measured))
  BY <1>3, <1>8, <1>9
<1> QED
  BY <1>2, <1>9, <1>10, <1>11, <1>12 DEF t, both

\* The area that is shaded is what is past the threshold.
LEMMA ShadedIsPast ==
    ASSUME ThresholdInv, readings # <<>>, NEW v \in Measured
    PROVE  IsPastThreshold(v) <=> Within(v, ShadedArea(Measured)) /\ v # threshold.critical
<1>1. v \in Int /\ threshold.critical \in Int
  BY MeasuredFacts
<1>2. PICK d : d = TimelineDomain(Measured)
  OBVIOUS
<1>3. d.lo \in Int /\ d.hi \in Int /\ d.lo <= 100 * v /\ 100 * v <= d.hi
  BY <1>2, ChartsShow DEF Within
<1>4. ShadedArea(Measured) =
          IF LowIsBad THEN [lo |-> d.lo, hi |-> 100 * threshold.critical]
                      ELSE [lo |-> 100 * threshold.critical, hi |-> d.hi]
  BY <1>2 DEF ShadedArea
<1>5. CASE LowIsBad
  BY <1>1, <1>3, <1>4, <1>5 DEF Within, IsPastThreshold
<1>6. CASE ~LowIsBad
  BY <1>1, <1>3, <1>4, <1>6 DEF Within, IsPastThreshold
<1> QED
  BY <1>5, <1>6

\* The worst sensor is past the threshold where some reading is.
LEMMA WorstIsPast ==
    ASSUME ThresholdInv, readings # <<>>
    PROVE  Past # {} <=> IsPastThreshold(WorstStat)
<1>1. /\ Measured \subseteq Int /\ threshold.critical \in Int
      /\ summary.min \in Measured /\ summary.max \in Measured
      /\ \A v \in Measured : summary.min <= v /\ v <= summary.max
  BY MeasuredFacts
<1>2. Past # {} <=> \E v \in Measured : IsPastThreshold(v)
  BY DEF Past, Measured
<1>3. WorstStat \in Measured
  BY <1>1 DEF WorstStat
<1>4. ASSUME NEW v \in Measured, IsPastThreshold(v) PROVE IsPastThreshold(WorstStat)
  <2>1. /\ v \in Int /\ summary.min \in Int /\ summary.max \in Int
        /\ summary.min <= v /\ v <= summary.max
    BY <1>1
  <2> QED
    BY <1>1, <1>4, <2>1 DEF WorstStat, IsPastThreshold
<1> QED
  BY <1>2, <1>3, <1>4

\* What the pages mark as past the threshold is what the server counted.
LEMMA AllAlike ==
    ASSUME ThresholdInv
    PROVE  PastIsMarkedAlike
<1> SUFFICES ASSUME readings # <<>>
             PROVE  /\ SaysPast <=> IsPastThreshold(WorstStat)
                    /\ PastCount = Cardinality(Past)
                    /\ \A s \in Sensors :
                           breaches[s].readings = Cardinality({i \in Past : readings[i].sensor = s})
                    /\ Listed = {readings[i].sensor : i \in Past}
                    /\ threshold.normal # threshold.critical =>
                           \A i \in Past :
                               ~MoreSevere(readings[i].value, breaches[readings[i].sensor].value)
                    /\ \A v \in Measured :
                           /\ IsRed(v) <=> Within(v, ShadedArea(Measured)) /\ v # threshold.critical
                           /\ Within(v, TimelineDomain(Measured))
                           /\ Within(v, OverviewDomain(Measured))
                    /\ CriticalInView(Measured, threshold.critical)
                           => Within(threshold.critical, OverviewDomain(Measured))
  BY Zenon DEF PastIsMarkedAlike, Past, Measured
<1>1. /\ IsFiniteSet(Past) /\ Cardinality(Past) \in Nat
      /\ \A s : IsFiniteSet(PastOf(s)) /\ Cardinality(PastOf(s)) \in Nat
  BY PastFinite DEF ThresholdInv
<1>2. /\ summary.breaching = Cardinality(Past)
      /\ \A s \in Sensors : breaches[s].readings = Cardinality(PastOf(s))
  BY DEF ThresholdInv, PastCounted
<1>3. SaysPast <=> IsPastThreshold(WorstStat)
  <2>1. Past = {} <=> Cardinality(Past) = 0
    BY <1>1, FS_EmptySet
  <2>2. SaysPast <=> Past # {}
    BY <1>1, <1>2, <2>1 DEF SaysPast
  <2> QED
    BY <2>2, WorstIsPast
<1>4. PastCount = Cardinality(Past)
  BY <1>2 DEF PastCount
<1>5. \A s \in Sensors :
          breaches[s].readings = Cardinality({i \in Past : readings[i].sensor = s})
  BY <1>2 DEF PastOf
<1>6. \A i \in Past : i \in DOMAIN readings /\ readings[i].sensor \in Sensors
  BY ReadingsTyped DEF Past, ThresholdInv
<1>7. \A s \in Sensors : breaches[s].readings > 0 <=> PastOf(s) # {}
  <2> SUFFICES ASSUME NEW s \in Sensors PROVE breaches[s].readings > 0 <=> PastOf(s) # {}
    OBVIOUS
  <2>1. PastOf(s) = {} <=> Cardinality(PastOf(s)) = 0
    BY <1>1, FS_EmptySet
  <2> QED
    BY <1>1, <1>2, <2>1
<1>8. Listed = {readings[i].sensor : i \in Past}
  <2>1. \A s \in Sensors : PastOf(s) # {} <=> \E i \in Past : readings[i].sensor = s
    BY DEF PastOf
  <2> QED
    BY <1>6, <1>7, <2>1 DEF Listed
<1>9. ASSUME threshold.normal # threshold.critical, NEW i \in Past
      PROVE  ~MoreSevere(readings[i].value, breaches[readings[i].sensor].value)
  <2>1. PICK s \in Sensors : s = readings[i].sensor
    BY <1>6
  <2>2. i \in PastOf(s)
    BY <2>1 DEF PastOf
  <2>3. breaches[s].readings > 0
    BY <1>7, <2>2
  <2>4. ~MoreSevere(readings[i].value, breaches[s].value)
    BY <1>9, <2>2, <2>3 DEF ThresholdInv, WorstKept
  <2> QED
    BY <2>1, <2>4
<1>10. ASSUME NEW v \in Measured
       PROVE  /\ IsRed(v) <=> Within(v, ShadedArea(Measured)) /\ v # threshold.critical
              /\ Within(v, TimelineDomain(Measured)) /\ Within(v, OverviewDomain(Measured))
  BY ShadedIsPast, ChartsShow DEF IsRed
<1> QED
  BY <1>3, <1>4, <1>5, <1>8, <1>9, <1>10, ChartsShow, Zenon

\* PastIsMarkedAlike: what the pages mark as past the threshold is what the
\* server counted and alerts about, for any sensors, values, thresholds and
\* number of readings.  Code: Severity, SnapshotBuilder, pickStat,
\* isPastThreshold, paddedDomain.
THEOREM MarkedAlike == ThresholdSpec => []PastIsMarkedAlike
BY ThresholdStart, ThresholdStep, AllAlike, PTL DEF ThresholdSpec
=============================================================================
