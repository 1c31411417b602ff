----------------------------- MODULE MqttSession -----------------------------
(* backend/BackgroundServices/MqttWorker.cs against the MQTT broker: the loop  *)
(* that pings, connects and subscribes, asking for a session that is kept      *)
(* (WithCleanSession(false)), and the delivery of the provisioning messages    *)
(* (at least once, acknowledged when the handler returns) that the provisioner *)
(* publishes once the backend reports Ready.                                   *)
(*                                                                             *)
(* Whether the broker keeps the session of a client whose connection ends      *)
(* depends on the protocol version the client library speaks, which the code   *)
(* leaves to it: version 3.1.1 keeps it, version 5 ends it as no expiry        *)
(* interval is asked for.  sessionsKept stands for either.  The broker keeps   *)
(* sessions in memory, so its restart ends them always.  The 5 seconds between *)
(* two rounds of the loop are left out.  Telemetry is QoS 0: it is not queued  *)
(* and is not modelled here.                                                   *)
EXTENDS Naturals, Sequences, FiniteSets

CONSTANTS Devices,    \* devices that are provisioned
          MaxFaults   \* bound on lost connections and restarts

ASSUME FaultsAssumption == MaxFaults \in Nat

VARIABLES sessionsKept,   \* sessions outlive their connections, never changed
          reachable,      \* the network between backend and broker is up
          connected,      \* the client is connected
          session,        \* the broker's session of the client: none, empty, subscribed
          queue,          \* its messages that are not acknowledged
          worker,         \* where ExecuteAsync is
          isSubscribed,   \* MqttConnectionStatus.IsSubscribed
          handler,        \* the message callback
          provisioning,   \* the provisioner was started
          published,      \* devices whose message was published
          registered,     \* devices in the database and the registry
          lost,           \* history: devices whose message no session held, or whose
                          \* registration failed
          faults          \* faults so far

clientVars == <<connected, worker, isSubscribed>>
brokerVars == <<session, queue, sessionsKept>>
deviceVars == <<provisioning, published, registered, lost>>
sessionVars == <<reachable, clientVars, brokerVars, handler, deviceVars, faults>>

Free == [at |-> "free"]
Queued == {queue[i] : i \in DOMAIN queue}

SessionInit ==
    /\ sessionsKept \in BOOLEAN
    /\ reachable = TRUE /\ connected = FALSE
    /\ session = "none" /\ queue = <<>>
    /\ worker = "ping" /\ isSubscribed = FALSE
    /\ handler = Free
    /\ provisioning = FALSE /\ published = {} /\ registered = {} /\ lost = {}
    /\ faults = 0
-----------------------------------------------------------------------------
(* The worker's loop.                                                          *)

\* TryPingAsync fails; where it succeeds the loop goes round.
PingFails ==
    /\ worker = "ping"
    /\ ~connected
    /\ worker' = "connect"
    /\ UNCHANGED <<reachable, connected, isSubscribed, brokerVars, handler, deviceVars, faults>>

\* ConnectAsync, where the broker has the session.
ConnectToSession ==
    /\ worker = "connect"
    /\ reachable
    /\ session # "none"
    /\ connected' = TRUE
    /\ isSubscribed' = TRUE
    /\ worker' = "ping"
    /\ UNCHANGED <<reachable, brokerVars, handler, deviceVars, faults>>

\* Mutant: subscribes only when the session was found.
ConnectAnew_NoSubscribe ==
    /\ worker = "connect"
    /\ reachable
    /\ session = "none"
    /\ connected' = TRUE
    /\ session' = "empty"
    /\ isSubscribed' = TRUE
    /\ worker' = "ping"
    /\ UNCHANGED <<reachable, queue, sessionsKept, handler, deviceVars, faults>>

\* ConnectAsync, where the broker has none and opens one.
ConnectAnew ==
    /\ worker = "connect"
    /\ reachable
    /\ session = "none"
    /\ connected' = TRUE
    /\ session' = "empty"
    /\ worker' = "subscribe"
    /\ UNCHANGED <<reachable, isSubscribed, queue, sessionsKept, handler, deviceVars, faults>>

\* ConnectAsync throws: logged, and the next round pings again.
ConnectFails ==
    /\ worker = "connect"
    /\ ~reachable
    /\ worker' = "ping"
    /\ UNCHANGED <<reachable, connected, isSubscribed, brokerVars, handler, deviceVars, faults>>

\* SubscribeAsync.
Subscribe ==
    /\ worker = "subscribe"
    /\ connected
    /\ session' = "subscribed"
    /\ isSubscribed' = TRUE
    /\ worker' = "ping"
    /\ UNCHANGED <<reachable, connected, queue, sessionsKept, handler, deviceVars, faults>>

\* SubscribeAsync throws, as the connection is gone.
SubscribeFails ==
    /\ worker = "subscribe"
    /\ ~connected
    /\ worker' = "ping"
    /\ UNCHANGED <<reachable, connected, isSubscribed, brokerVars, handler, deviceVars, faults>>

WorkerStep ==
    PingFails \/ ConnectToSession \/ ConnectAnew \/ ConnectFails \/ Subscribe \/ SubscribeFails
-----------------------------------------------------------------------------
(* The provisioner and the message callback.                                   *)

\* docker-compose starts the provisioner once /health says Ready.
StartProvisioner ==
    /\ ~provisioning
    /\ isSubscribed
    /\ provisioning' = TRUE
    /\ UNCHANGED <<reachable, clientVars, brokerVars, handler, published, registered, lost, faults>>

\* The broker takes a message and queues it for a session that subscribed.
Publish(d) ==
    /\ provisioning
    /\ d \notin published
    /\ published' = published \cup {d}
    /\ IF session = "subscribed"
       THEN queue' = Append(queue, d) /\ lost' = lost
       ELSE queue' = queue /\ lost' = lost \cup {d}
    /\ UNCHANGED <<reachable, clientVars, session, sessionsKept, handler, provisioning, registered, faults>>

\* Mutant: the message is acknowledged before it is handled.
Receive_Acknowledges ==
    /\ connected
    /\ handler = Free
    /\ queue # <<>>
    /\ handler' = [at |-> "provision", device |-> Head(queue), current |-> TRUE]
    /\ queue' = Tail(queue)
    /\ UNCHANGED <<reachable, clientVars, session, sessionsKept, deviceVars, faults>>

\* The callback gets the first message that is not acknowledged.
Receive ==
    /\ connected
    /\ handler = Free
    /\ queue # <<>>
    /\ handler' = [at |-> "provision", device |-> Head(queue), current |-> TRUE]
    /\ UNCHANGED <<reachable, clientVars, brokerVars, deviceVars, faults>>

\* ProcessProvisioning, whose steps are in Provisioning.
Provision ==
    /\ handler.at = "provision"
    /\ registered' = registered \cup {handler.device}
    /\ handler' = [handler EXCEPT !.at = "acknowledge"]
    /\ UNCHANGED <<reachable, clientVars, brokerVars, provisioning, published, lost, faults>>

\* ProcessProvisioning fails, and logs and swallows the exception.
ProvisionFails ==
    /\ handler.at = "provision"
    /\ faults < MaxFaults
    /\ faults' = faults + 1
    /\ lost' = lost \cup {handler.device}
    /\ handler' = [handler EXCEPT !.at = "acknowledge"]
    /\ UNCHANGED <<reachable, clientVars, brokerVars, provisioning, published, registered>>

\* Mutant: the acknowledgement is never sent.
Acknowledge_Missing ==
    /\ handler.at = "acknowledge"
    /\ handler' = Free
    /\ UNCHANGED <<reachable, clientVars, brokerVars, deviceVars, faults>>

\* The acknowledgement reaches the broker on the connection the message came on.
Acknowledge ==
    /\ handler.at = "acknowledge"
    /\ queue' = IF handler.current THEN Tail(queue) ELSE queue
    /\ handler' = Free
    /\ UNCHANGED <<reachable, clientVars, session, sessionsKept, deviceVars, faults>>

HandlerStep == Receive \/ Provision \/ Acknowledge
-----------------------------------------------------------------------------
(* Faults.                                                                     *)

\* The connection on which the callback's message came is gone.
Outdated(h) == IF h = Free THEN h ELSE [h EXCEPT !.current = FALSE]

\* The broker forgets the session and the messages it holds.
SessionEnds ==
    /\ session' = "none"
    /\ queue' = <<>>
    /\ lost' = lost \cup Queued

\* The connection ends: the broker keeps the session or ends it.
ConnectionEnds ==
    /\ connected' = FALSE
    /\ IF sessionsKept \/ ~connected THEN UNCHANGED <<session, queue, lost>> ELSE SessionEnds

\* The connection is lost.  IsSubscribed stays.
LinkDrops ==
    /\ reachable
    /\ faults < MaxFaults
    /\ faults' = faults + 1
    /\ reachable' = FALSE
    /\ ConnectionEnds
    /\ handler' = Outdated(handler)
    /\ UNCHANGED <<worker, isSubscribed, sessionsKept, provisioning, published, registered>>

\* The network comes back.
LinkReturns ==
    /\ ~reachable
    /\ reachable' = TRUE
    /\ UNCHANGED <<clientVars, brokerVars, handler, deviceVars, faults>>

\* The broker restarts: without persistence it forgets its sessions and queues.
BrokerRestarts ==
    /\ faults < MaxFaults
    /\ faults' = faults + 1
    /\ connected' = FALSE
    /\ SessionEnds
    /\ handler' = Outdated(handler)
    /\ UNCHANGED <<reachable, worker, isSubscribed, sessionsKept, provisioning, published, registered>>

\* The backend restarts, and reads the database into the registry.
BackendRestarts ==
    /\ faults < MaxFaults
    /\ faults' = faults + 1
    /\ ConnectionEnds
    /\ isSubscribed' = FALSE
    /\ worker' = "ping"
    /\ handler' = Free
    /\ UNCHANGED <<reachable, sessionsKept, provisioning, published, registered>>

Fault == LinkDrops \/ BrokerRestarts \/ BackendRestarts
-----------------------------------------------------------------------------
SessionNext ==
    \/ WorkerStep
    \/ StartProvisioner
    \/ \E d \in Devices : Publish(d)
    \/ HandlerStep \/ ProvisionFails
    \/ Fault \/ LinkReturns

SessionSpec == SessionInit /\ [][SessionNext]_sessionVars

\* The loop goes round every 5 seconds, the broker delivers what it holds to a
\* connected subscriber, the callback runs, and the network comes back.
FairSession ==
    /\ SessionSpec
    /\ WF_sessionVars(WorkerStep) /\ WF_sessionVars(HandlerStep) /\ WF_sessionVars(LinkReturns)
-----------------------------------------------------------------------------
HandlerType ==
    handler = Free \/ handler \in [at : {"provision", "acknowledge"}, device : Devices,
                                   current : BOOLEAN]

\* Every variable has its type.
SessionTypeOK ==
    /\ sessionsKept \in BOOLEAN
    /\ reachable \in BOOLEAN /\ connected \in BOOLEAN /\ isSubscribed \in BOOLEAN
    /\ session \in {"none", "empty", "subscribed"}
    /\ queue \in Seq(Devices)
    /\ worker \in {"ping", "connect", "subscribe"}
    /\ HandlerType
    /\ provisioning \in BOOLEAN
    /\ published \subseteq Devices /\ registered \subseteq Devices /\ lost \subseteq Devices
    /\ faults \in 0 .. MaxFaults

\* No message disappears silently: a device whose message was published waits in
\* the broker until it is registered, unless no session took the message, the
\* session that held it ended or the registration failed.  Where sessions are
\* kept, lost connections and restarts of the backend lose nothing.
EveryDeviceAccounted == published \subseteq Queued \cup registered \cup lost

\* At-least-once delivery ends: every message the broker queued is handled, and
\* redelivered when its acknowledgement was lost.
EveryMessageHandled ==
    \A d \in Devices : d \in published ~> d \in registered \cup lost

\* Where sessions end with their connection, the backend is subscribed again after
\* the last fault, wherever in the loop the fault met it.  (Where they are kept, a
\* connection lost between ConnectAsync and SubscribeAsync leaves a session without
\* subscription that the next round takes for a subscribed one.)
SubscribedAgain == ~sessionsKept => <>[](session = "subscribed")
=============================================================================
