------------------------------ MODULE LiveViews ------------------------------
(* frontend/src/realtime/LiveConnectionProvider.jsx, the hooks of              *)
(* frontend/src/api and what the pages show of them: the pushes of the hub     *)
(* update or invalidate the query cache, and every mounted page refetches.     *)
(*                                                                             *)
(* The entries of the cache do not act on one another, so Init picks the one   *)
(* entry that is followed, with all the server, hub and page do to it.  The    *)
(* server's state is the number of days it closed and of command changes it    *)
(* made; an answer or a pushed summary holds what it was computed from.  The   *)
(* timers of the connection and of the requests' retries are left out.         *)
EXTENDS QueryCache, Naturals, Sequences

CONSTANTS MaxDays, MaxChanges, \* bounds on days closed and commands that take effect
          MaxWire,             \* bound on pushes under way
          MaxDrops             \* bound on lost connections

ASSUME ViewsAssumption ==
    MaxDays \in Nat /\ MaxChanges \in Nat /\ MaxWire \in Nat /\ MaxDrops \in Nat

VARIABLES key,          \* the entry that is followed, never changed
          server,       \* days closed and command changes made
          wire,         \* pushes on their way to this client, in order
          link,         \* the socket: none, up, or broken and not noticed yet
          phase,        \* what the connection is doing
          hasConnected, \* start() was through with a connection before
          online,       \* the browser says that it is online
          page,         \* the page that is mounted
          query,        \* the entry
          reply,        \* a command of this client that the server has not answered: its reply
          excused,      \* history: a change the entry had no means to hear of, since it was asked for
          drops         \* connections lost so far

hubVars == <<wire, link, phase, hasConnected, drops>>
cacheVars == <<query, excused>>
liveVars == <<key, server, hubVars, online, page, cacheVars, reply>>

\* The entries, by the first part of their key, and the pages that use them.
\* "device" is either of a device's live state and its readings.  Its page
\* mounts their components once it has the list of devices; here they are
\* mounted with the page.
Keys == {"summary", "snapshots", "device", "commands", "search", "insights", "devices"}

Shows ==
    [stream |-> {"summary", "snapshots"}, device |-> {"device", "commands", "devices"},
     history |-> {"commands"}, insights |-> {"insights"}, devices |-> {"devices"},
     results |-> {"devices", "search"}, landing |-> {}]

Pages == DOMAIN Shows
Observed == key \in Shows[page]

\* The options of the hooks: only the list of devices has no staleTime.
StaleAtOnce == key = "devices"

\* What BatchClosed and CommandsChanged invalidate.
RefreshedByBatch == {"snapshots", "device", "commands", "search", "insights"}
RefreshedByCommand == {"commands", "device", "insights"}

\* The part of the server's state that the entry follows: what its answer
\* shows of it, without the changes of commands that the summary, the snapshots
\* and the search are not told of, and nothing for the list of devices.
Pushed(value) ==
    CASE key \in {"device", "commands", "insights"} -> value
      [] key = "devices" -> [days |-> 0, changes |-> 0]
      [] OTHER -> [value EXCEPT !.changes = 0]

Current == \A value \in query.data : Pushed(value) = Pushed(server)

LiveTypeOK ==
    LET values == [days : 0 .. MaxDays, changes : 0 .. MaxChanges]
    IN  /\ key \in Keys
        /\ server \in values
        /\ wire \in Seq([type : {"batch"}, value : values] \cup [type : {"command"}])
        /\ link \in {"none", "up", "broken"}
        /\ phase \in {"starting", "opened", "live", "retrying", "reopened"}
        /\ hasConnected \in BOOLEAN /\ online \in BOOLEAN /\ excused \in BOOLEAN
        /\ page \in Pages
        /\ query \in Entries(values)
        /\ reply \in {"none", "asked", "done"}
        /\ drops \in 0 .. MaxDrops

LiveInit ==
    /\ key \in Keys
    /\ server \in [days : {0}, changes : {0}]
    /\ wire = <<>> /\ link = "none" /\ phase = "starting"
    /\ hasConnected = FALSE /\ drops = 0
    /\ online = TRUE
    /\ page = "landing"
    /\ query = NoEntry
    /\ reply = "none"
    /\ excused = FALSE
-----------------------------------------------------------------------------
(* What happens to the entry.                                                  *)

\* A request that starts now sees every change so far.
Put(q) ==
    /\ query' = q
    /\ excused' = (excused /\ q.fetch \notin {"asked", "paused"})

\* An older answer is under way: when it arrives the entry takes it for fresh.
OlderAnswerUnderWay == \E value \in query.answer : Pushed(value) # Pushed(server)

\* An invalidation asks anew, but for an entry that loads for the first time or
\* that no component observes: those keep the request under way.
Refresh(keys) ==
    IF key \in keys
    THEN /\ query' = Invalidate(query, Observed, online)
         /\ excused' = (OlderAnswerUnderWay /\ (query.data = {} \/ ~Observed))
    ELSE UNCHANGED cacheVars

\* A change reaches a client that is connected as a push; one that has never
\* connected is not told of it.
Announce(push, keys) ==
    IF link = "up"
    THEN /\ Len(wire) < MaxWire
         /\ wire' = Append(wire, push)
         /\ UNCHANGED excused
    ELSE /\ wire' = wire
         /\ excused' = \/ excused
                       \/ /\ ~hasConnected /\ link = "none" /\ key \in keys
                          /\ \/ query.fetch = "answered"
                             \/ query.fetch = "idle" /\ query.data # {}
-----------------------------------------------------------------------------
(* The server.                                                                 *)

\* A day closes: its summary is computed and pushed.
CloseDay ==
    /\ server.days < MaxDays
    /\ server' = [server EXCEPT !.days = @ + 1]
    /\ Announce([type |-> "batch", value |-> server'], RefreshedByBatch \cup {"summary"})
    /\ UNCHANGED <<key, link, phase, hasConnected, drops, online, page, query, reply>>

ChangeCommands ==
    /\ server.changes < MaxChanges
    /\ server' = [server EXCEPT !.changes = @ + 1]
    /\ Announce([type |-> "command"], RefreshedByCommand)

\* A command of another client, or one of this client that is answered later.
OtherCommand ==
    /\ ChangeCommands
    /\ UNCHANGED <<key, link, phase, hasConnected, drops, online, page, query, reply>>

OwnCommand ==
    /\ reply = "asked"
    /\ ChangeCommands
    /\ reply' = "done"
    /\ UNCHANGED <<key, link, phase, hasConnected, drops, online, page, query>>
-----------------------------------------------------------------------------
(* The connection.                                                             *)

\* The socket opens, within connection.start() or the automatic reconnect; the
\* code that waits for it runs later.
Open ==
    /\ phase \in {"starting", "retrying"}
    /\ link' = "up"
    /\ phase' = IF phase = "starting" THEN "opened" ELSE "reopened"
    /\ UNCHANGED <<key, server, wire, hasConnected, drops, online, page, cacheVars, reply>>

\* Mutant: everything is refreshed only by the automatic reconnect.
StartResolves_NoRefresh ==
    /\ phase = "opened"
    /\ phase' = "live"
    /\ UNCHANGED cacheVars
    /\ hasConnected' = TRUE
    /\ UNCHANGED <<key, server, wire, link, drops, online, page, reply>>

\* The rest of start().
StartResolves ==
    /\ phase = "opened"
    /\ phase' = "live"
    /\ IF hasConnected THEN Refresh(Keys) ELSE UNCHANGED cacheVars
    /\ hasConnected' = TRUE
    /\ UNCHANGED <<key, server, wire, link, drops, online, page, reply>>

\* onreconnected.
Reconnected ==
    /\ phase = "reopened"
    /\ phase' = "live"
    /\ Refresh(Keys)
    /\ UNCHANGED <<key, server, wire, link, hasConnected, drops, online, page, reply>>

\* The connection is lost with what was under way; the client notices later.
Break ==
    /\ link = "up"
    /\ drops < MaxDrops
    /\ drops' = drops + 1
    /\ link' = "broken"
    /\ wire' = <<>>
    /\ UNCHANGED <<key, server, phase, hasConnected, online, page, cacheVars, reply>>

\* onreconnecting.
Notice ==
    /\ phase = "live"
    /\ link = "broken"
    /\ link' = "none"
    /\ phase' = "retrying"
    /\ UNCHANGED <<key, server, wire, hasConnected, drops, online, page, cacheVars, reply>>

\* onclose, after the last automatic attempt: start() begins anew.
GiveUp ==
    /\ phase = "retrying"
    /\ phase' = "starting"
    /\ UNCHANGED <<key, server, wire, link, hasConnected, drops, online, page, cacheVars, reply>>

\* The handler of BatchClosed.
HandleBatch ==
    /\ wire # <<>>
    /\ Head(wire).type = "batch"
    /\ wire' = Tail(wire)
    /\ IF key = "summary"
       THEN /\ query' = SetData(query, Head(wire).value)
            /\ excused' = OlderAnswerUnderWay
       ELSE Refresh(RefreshedByBatch)
    /\ UNCHANGED <<key, server, link, phase, hasConnected, drops, online, page, reply>>

\* The handler of CommandsChanged.
HandleCommand ==
    /\ wire # <<>>
    /\ Head(wire).type = "command"
    /\ wire' = Tail(wire)
    /\ Refresh(RefreshedByCommand)
    /\ UNCHANGED <<key, server, link, phase, hasConnected, drops, online, page, reply>>
-----------------------------------------------------------------------------
(* The pages, the user and the requests.                                       *)

\* Another page mounts its components; the router keeps the page's own when
\* only its parameters change.
Visit(p) ==
    /\ p # page
    /\ page' = p
    /\ IF key \in Shows[p] \ (IF {p, page} = {"devices", "results"} THEN Shows[page] ELSE {})
       THEN Put(AskIfDue(query, StaleAtOnce, online)) ELSE UNCHANGED cacheVars
    /\ UNCHANGED <<key, server, hubVars, online, reply>>

\* The window gets the focus.
Focus ==
    /\ Observed
    /\ Put(AskIfDue(query, StaleAtOnce, online))
    /\ UNCHANGED <<key, server, hubVars, online, page, reply>>

\* The Retry button of an ErrorNotice, which the list of devices has not.
Retry ==
    /\ Observed
    /\ key # "devices"
    /\ query.error
    /\ query.fetch = "idle"
    /\ Put(Ask(query, online))
    /\ UNCHANGED <<key, server, hubVars, online, page, reply>>

\* An entry that no component observes is dropped after a while.
Collect ==
    /\ ~Observed
    /\ query.fetch = "idle"
    /\ query # NoEntry
    /\ Put(NoEntry)
    /\ UNCHANGED <<key, server, hubVars, online, page, reply>>

GoOffline ==
    /\ online
    /\ online' = FALSE
    /\ UNCHANGED <<key, server, hubVars, page, cacheVars, reply>>

\* A paused request goes on, and what is mounted and due is asked for.
GoOnline ==
    /\ ~online
    /\ online' = TRUE
    /\ IF query.fetch = "paused" THEN Put(Ask(query, TRUE))
       ELSE IF Observed THEN Put(AskIfDue(query, StaleAtOnce, TRUE))
       ELSE UNCHANGED cacheVars
    /\ UNCHANGED <<key, server, hubVars, page, reply>>

Answer ==
    /\ query.fetch = "asked"
    /\ query' = Compute(query, server)
    /\ UNCHANGED <<key, server, hubVars, online, page, excused, reply>>

Arrive ==
    /\ query.fetch = "answered"
    /\ query' = Settle(query)
    /\ UNCHANGED <<key, server, hubVars, online, page, excused, reply>>

\* An attempt fails and is repeated; offline the repetition waits.
AttemptFails ==
    /\ query.fetch \in {"asked", "answered"}
    /\ Put([query EXCEPT !.fetch = IF online THEN "asked" ELSE "paused", !.answer = {}])
    /\ UNCHANGED <<key, server, hubVars, online, page, reply>>

\* The last attempt fails.
AllAttemptsFail ==
    /\ query.fetch \in {"asked", "answered"}
    /\ Put(Fail(query))
    /\ UNCHANGED <<key, server, hubVars, online, page, reply>>

\* useIssueCommand and useUndoCommand; offline the request would wait.
SendCommand ==
    /\ reply = "none"
    /\ online
    /\ reply' = "asked"
    /\ UNCHANGED <<key, server, hubVars, online, page, cacheVars>>

\* Their onSuccess: refresh().
CommandSucceeds ==
    /\ reply = "done"
    /\ reply' = "none"
    /\ Refresh({"commands", "device", "insights"})
    /\ UNCHANGED <<key, server, hubVars, online, page>>

CommandFails ==
    /\ reply # "none"
    /\ reply' = "none"
    /\ UNCHANGED <<key, server, hubVars, online, page, cacheVars>>

LiveNext ==
    \/ CloseDay \/ OtherCommand \/ OwnCommand
    \/ Open \/ StartResolves \/ Reconnected \/ Break \/ Notice \/ GiveUp
    \/ HandleBatch \/ HandleCommand
    \/ \E p \in Pages : Visit(p)
    \/ Focus \/ Retry \/ Collect \/ GoOffline \/ GoOnline
    \/ Answer \/ Arrive \/ AttemptFails \/ AllAttemptsFail
    \/ SendCommand \/ CommandSucceeds \/ CommandFails
-----------------------------------------------------------------------------
(* Property.                                                                   *)

\* While the client is connected and no push is under way, what the cache holds
\* and takes for fresh is what the server would answer, and a mounted page has
\* it: no push, reconnect, page change or answer in between loses a refresh.
\* Left out are the changes no code of the client can hear of (excused), and
\* those that are not pushed (Pushed).  Code: LiveConnectionProvider, api hooks.
QuietViewsAreCurrent ==
    phase = "live" /\ link = "up" /\ wire = <<>> /\ query.fetch = "idle" =>
        /\ ~query.invalid /\ ~excused => Current
        /\ Observed /\ ~query.error => query.data # {} /\ ~query.invalid
=============================================================================
