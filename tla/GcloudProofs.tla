---------------------------- MODULE GcloudProofs ----------------------------
(***************************************************************************)
(* Proofs about Gcloud, for every capacity of gcloud_msgq, every set of    *)
(* publishers and whatever fails: the state is well formed, each           *)
(* established connection has its thread, its timer and its subscription,  *)
(* and, until the application disconnects, the mqtt thread is never        *)
(* started on top of another one.                                          *)
(***************************************************************************)
EXTENDS Gcloud, QueueLemmas, FiniteSetTheorems, TLAPS

-----------------------------------------------------------------------------
(* Type correctness, in parts: the queue, the threads, the connection, what  *)
(* the bounds count.                                                         *)

QueueOK   == msgq \in Seq(Commands) /\ Len(msgq) <= N_MESSAGES
PubOK     == pub \in [Publishers -> {"idle", "checked", "blocked"}]
ThreadsOK ==
  /\ gc \in {"get", "put_connect", "wait_sem"} \cup Commands
  /\ mqtt \in {"none", "poll", "connack", "subscribe"}
  /\ app \in {"start", "wait", "wait_failed", "up", "down", "put_connect", "put_disconnect"}
SessionOK ==
  /\ client \in {"idle", "tcp", "connected"} /\ link \in {"up", "broken"}
  /\ reply \in {"none", "pending", "connack", "refused",
                 "config", "short_config", "unread"}
FlagsOK ==
  /\ connected \in BOOLEAN /\ connecting \in BOOLEAN
  /\ reconnect_timer \in BOOLEAN /\ subscribed \in BOOLEAN
CountsOK ==
  /\ gc_connected_sem \in 0 .. 1 /\ failures \in 0 .. MaxFailures
  /\ drops \in 0 .. MaxDrops /\ disconnects \in 0 .. MaxDisconnects /\ late \in 0 .. MaxLate

\* The parts are the type invariant.
LEMMA TypeParts ==
  TypeOK <=> QueueOK /\ PubOK /\ ThreadsOK /\ SessionOK /\ FlagsOK /\ CountsOK
BY DEF TypeOK, QueueOK, PubOK, ThreadsOK, SessionOK, FlagsOK, CountsOK

\* At power-up the state is well formed.
LEMMA InitType == Init => TypeOK
<1> SUFFICES ASSUME Init PROVE TypeOK
  OBVIOUS
<1>1. QueueOK
  BY QueueAssumption DEF Init, QueueOK
<1>2. PubOK
  BY DEF Init, PubOK
<1>3. ThreadsOK
  BY DEF Init, ThreadsOK
<1>4. SessionOK
  BY DEF Init, SessionOK
<1>5. FlagsOK
  BY DEF Init, FlagsOK
<1>6. CountsOK
  BY EnvAssumption DEF Init, CountsOK
<1> QED
  BY <1>1, <1>2, <1>3, <1>4, <1>5, <1>6, TypeParts

\* What may happen to gcloud_msgq in a step: nothing, the purge, the gc thread
\* takes the first command, or somebody puts one for which there is room.
QueueStep ==
  \/ msgq' = msgq
  \/ msgq' = <<>>
  \/ gc = "get" /\ msgq # <<>> /\ msgq' = Tail(msgq)
  \/ \E cmd \in Commands : Send(cmd)

\* Every action treats the queue in one of these ways.
LEMMA NextQueueStep == [Next]_vars => QueueStep
<1> SUFFICES ASSUME [Next]_vars PROVE QueueStep
  OBVIOUS
<1>1. CASE App \/ AppDisconnect
  BY <1>1 DEF App, AppConnect, AppConnected, AppConnectTimeout, AppPut, AppPutTimeout,
              AppDisconnect, QueueStep, Commands
<1>2. CASE \E p \in Publishers : Publish(p)
  BY <1>2 DEF Publish, PublishCheck, PublishPut, PublishBlock, PublishTimeout,
              QueueStep, Commands
<1>3. CASE ReconnectTimer
  BY <1>3 DEF ReconnectTimer, QueueStep, Commands
<1>4. CASE GcThread
  <2>1. CASE GcGet
    BY <2>1 DEF GcGet, QueueStep
  <2>2. CASE GcConnect \/ GcSend \/ GcDisconnectIgnored \/ GcPutConnect \/ GcWaitSem
    BY <2>2 DEF GcConnect, GcSend, GcDisconnectIgnored, GcPutConnect, GcWaitSem,
                QueueStep, Commands
  <2>3. CASE GcSendFails \/ GcDisconnect
    BY <2>3 DEF GcSendFails, GcDisconnect, DisconnectEvent, Purge, QueueStep
  <2> QED
    BY <1>4, <2>1, <2>2, <2>3 DEF GcThread
<1>5. CASE MqttThread
  BY <1>5 DEF MqttThread, MqttConnack, MqttConnected, MqttSubscribe,
              MqttSubscribeTimeout, MqttRefused, MqttConfig, MqttBusy, MqttClosed,
              MqttExit, DisconnectEvent, Purge, QueueStep, Commands
<1>6. CASE BrokerAnswer \/ BrokerConfig \/ LinkDrop \/ UNCHANGED vars
  BY <1>6 DEF BrokerAnswer, BrokerConfig, LinkDrop, vars, QueueStep
<1> QED
  BY <1>1, <1>2, <1>3, <1>4, <1>5, <1>6 DEF Next

\* The queue holds commands, and never more than its capacity.
LEMMA NextQueue == QueueOK /\ QueueStep => QueueOK'
<1> SUFFICES ASSUME QueueOK, QueueStep PROVE QueueOK'
  OBVIOUS
<1>1. CASE msgq' = msgq
  BY <1>1 DEF QueueOK
<1>2. CASE msgq' = <<>>
  BY <1>2, QueueAssumption DEF QueueOK
<1>3. CASE msgq # <<>> /\ msgq' = Tail(msgq)
  <2>1. msgq' \in Seq(Commands) /\ Len(msgq') = Len(msgq) - 1 /\ Len(msgq) \in Nat
    BY <1>3, TailElements DEF QueueOK
  <2> QED
    BY <2>1, QueueAssumption DEF QueueOK
<1>4. ASSUME NEW cmd \in Commands, Send(cmd) PROVE QueueOK'
  <2>1. msgq' \in Seq(Commands) /\ Len(msgq') = Len(msgq) + 1 /\ Len(msgq) \in Nat
    BY <1>4, AppendElements DEF QueueOK, Send
  <2> QED
    BY <1>4, <2>1, QueueAssumption DEF QueueOK, Send, HasRoom
<1> QED
  BY <1>1, <1>2, <1>3, <1>4 DEF QueueStep

\* The event leaves every thread at one of its places, and the publishers either
\* where they were or done.
LEMMA DisconnectTypes ==
  ASSUME PubOK, ThreadsOK, NEW by, NEW wanted, DisconnectEvent(by, wanted)
  PROVE  /\ PubOK' /\ reconnect_timer' = FALSE /\ msgq' = <<>>
         /\ gc' \in {gc, "put_connect", "get"}
         /\ mqtt' \in {mqtt, "none", "poll"}
         /\ mqtt' # mqtt /\ mqtt' # "none" => mqtt = "subscribe"
         /\ app' \in {app, "wait_failed", "up"}
         /\ app' # app => app \in {"put_connect", "put_disconnect"}
         /\ wanted => mqtt' = "none"
         /\ by = "gc" /\ wanted => gc' = "put_connect"
         /\ by = "gc" /\ ~wanted => gc' = "get"
         /\ by # "gc" => gc' = gc
         /\ by = "mqtt" => mqtt' = "none"
<1>1. PubOK'
  BY DEF DisconnectEvent, Purge, PubOK
<1>2. /\ reconnect_timer' = FALSE /\ msgq' = <<>>
      /\ gc' = IF by = "gc" THEN IF wanted THEN "put_connect" ELSE "get" ELSE gc
  BY DEF DisconnectEvent, Purge
<1>3. mqtt' \in Interrupted(by, wanted)
  BY DEF DisconnectEvent
<1>4. /\ mqtt' \in {mqtt, "none", "poll"}
      /\ mqtt' # mqtt /\ mqtt' # "none" => mqtt = "subscribe"
      /\ wanted \/ by = "mqtt" => mqtt' = "none"
  BY <1>3 DEF Interrupted
<1>5. /\ app' \in {app, "wait_failed", "up"}
      /\ app' # app => app \in {"put_connect", "put_disconnect"}
  BY DEF DisconnectEvent, Purge, AppPutFailed
<1> QED
  BY <1>1, <1>2, <1>4, <1>5

\* The publishers keep to their protocol.
LEMMA NextPub == PubOK /\ ThreadsOK /\ [Next]_vars => PubOK'
<1> SUFFICES ASSUME PubOK, ThreadsOK, [Next]_vars PROVE PubOK'
  OBVIOUS
<1>1. ASSUME NEW p \in Publishers, Publish(p) PROVE PubOK'
  BY <1>1 DEF Publish, PublishCheck, PublishPut, PublishBlock, PublishTimeout, PubOK
<1>2. CASE GcSendFails \/ GcDisconnect
  <2>1. CASE GcSendFails
    BY <2>1, DisconnectTypes DEF GcSendFails
  <2>2. CASE GcDisconnect
    <3>1. CASE client = "connected"
      BY <2>2, <3>1, DisconnectTypes DEF GcDisconnect
    <3>2. CASE client # "connected"
      BY <2>2, <3>2 DEF GcDisconnect, PubOK
    <3> QED
      BY <3>1, <3>2
  <2> QED
    BY <1>2, <2>1, <2>2
<1>3. CASE MqttClosed
  BY <1>3, DisconnectTypes DEF MqttClosed
<1>4. CASE UNCHANGED pub
  BY <1>4 DEF PubOK
<1> QED
  BY <1>1, <1>2, <1>3, <1>4
     DEF Next, App, AppConnect, AppConnected, AppConnectTimeout, AppPut, AppPutTimeout,
         AppDisconnect, ReconnectTimer, GcThread, GcGet, GcConnect, GcSend,
         GcDisconnectIgnored, GcPutConnect, GcWaitSem, MqttThread, MqttConnack,
         MqttConnected, MqttSubscribe, MqttSubscribeTimeout, MqttRefused, MqttConfig,
         MqttBusy, MqttExit, BrokerAnswer, BrokerConfig, LinkDrop, vars

\* The threads are at one of their places.
LEMMA NextThreads == QueueOK /\ PubOK /\ ThreadsOK /\ [Next]_vars => ThreadsOK'
<1> SUFFICES ASSUME QueueOK, PubOK, ThreadsOK, [Next]_vars PROVE ThreadsOK'
  OBVIOUS
<1>1. CASE App \/ AppDisconnect
  BY <1>1 DEF App, AppConnect, AppConnected, AppConnectTimeout, AppPut, AppPutTimeout,
              AppDisconnect, Returned, AppPutFailed, ThreadsOK
<1>2. ASSUME NEW by, NEW wanted, DisconnectEvent(by, wanted) PROVE ThreadsOK'
  BY <1>2, DisconnectTypes DEF ThreadsOK
<1>3. CASE GcSendFails \/ GcDisconnect \/ MqttClosed
  BY <1>2, <1>3 DEF GcSendFails, GcDisconnect, MqttClosed, ThreadsOK
<1>4. CASE UNCHANGED <<gc, mqtt, app>>
  BY <1>4 DEF ThreadsOK
<1>5. CASE GcConnect \/ GcSend \/ GcDisconnectIgnored \/ GcPutConnect \/ GcWaitSem
  BY <1>5 DEF GcConnect, GcSend, GcDisconnectIgnored, GcPutConnect, GcWaitSem, ThreadsOK
<1>6. CASE MqttConnack \/ MqttConnected \/ MqttSubscribe \/ MqttSubscribeTimeout
  BY <1>6 DEF MqttConnack, MqttConnected, MqttSubscribe, MqttSubscribeTimeout, Returned,
              ThreadsOK
<1>7. CASE MqttBusy \/ MqttExit
  BY <1>7 DEF MqttBusy, MqttExit, ThreadsOK
<1>8. CASE GcGet
  <2>1. gc' \in Commands /\ UNCHANGED <<mqtt, app>>
    BY <1>8, TailElements DEF GcGet, QueueOK
  <2> QED
    BY <2>1 DEF ThreadsOK
<1> QED
  BY <1>1, <1>3, <1>4, <1>5, <1>6, <1>7, <1>8
     DEF Next, Publish, PublishCheck, PublishPut, PublishBlock, PublishTimeout,
         ReconnectTimer, GcThread, GcGet, GcSend, GcDisconnectIgnored, MqttThread,
         MqttRefused, MqttConfig, BrokerAnswer, BrokerConfig, LinkDrop, vars

\* The client, its connection and the broker's messages.
LEMMA NextSession == SessionOK /\ [Next]_vars => SessionOK'
<1> SUFFICES ASSUME SessionOK, [Next]_vars PROVE SessionOK'
  OBVIOUS
<1>1. CASE GcConnect
  BY <1>1 DEF GcConnect, SessionOK
<1>2. CASE GcSendFails \/ GcDisconnect
  BY <1>2 DEF GcSendFails, GcDisconnect, SessionOK
<1>3. CASE MqttConnack \/ MqttRefused \/ MqttConfig \/ MqttClosed
  BY <1>3 DEF MqttConnack, MqttRefused, MqttConfig, MqttClosed, SessionOK
<1>4. CASE BrokerAnswer \/ BrokerConfig \/ LinkDrop
  BY <1>4 DEF BrokerAnswer, BrokerConfig, LinkDrop, SessionOK
<1>5. CASE UNCHANGED <<client, link, reply>>
  BY <1>5 DEF SessionOK
<1> QED
  BY <1>1, <1>2, <1>3, <1>4, <1>5
     DEF Next, App, AppConnect, AppConnected, AppConnectTimeout, AppPut, AppPutTimeout,
         AppDisconnect, Publish, PublishCheck, PublishPut, PublishBlock, PublishTimeout,
         ReconnectTimer, GcThread, GcGet, GcSend, GcDisconnectIgnored, GcPutConnect,
         GcWaitSem, MqttThread, MqttConnected, MqttSubscribe, MqttSubscribeTimeout,
         MqttBusy, MqttExit, session, vars

\* The flags, the timer and the record of the subscription.
LEMMA NextFlags == FlagsOK /\ [Next]_vars => FlagsOK'
<1> SUFFICES ASSUME FlagsOK, [Next]_vars PROVE FlagsOK'
  OBVIOUS
<1>1. CASE GcConnect
  BY <1>1 DEF GcConnect, FlagsOK, flags
<1>8. CASE GcGet
  <2>1. connecting' \in BOOLEAN
    <3>1. connecting' = (connecting \/ gc' = "CONNECT")
      BY <1>8 DEF GcGet
    <3> QED
      BY <3>1, Zenon
  <2>2. UNCHANGED <<connected, reconnect_timer, subscribed>>
    BY <1>8 DEF GcGet, session
  <2> QED
    BY <2>1, <2>2 DEF FlagsOK
<1>2. CASE GcSendFails
  BY <1>2 DEF GcSendFails, DisconnectEvent, Purge, FlagsOK, flags
<1>3. CASE GcDisconnect
  <2>1. reconnect_timer' = FALSE
    BY <1>3 DEF GcDisconnect, DisconnectEvent, Purge
  <2>2. connected' = FALSE /\ connecting' \in BOOLEAN /\ subscribed' = subscribed
    BY <1>3 DEF GcDisconnect
  <2> QED
    BY <2>1, <2>2 DEF FlagsOK
<1>4. CASE GcSend
  BY <1>4 DEF GcSend, FlagsOK, flags
<1>5. CASE MqttConnected
  BY <1>5 DEF MqttConnected, FlagsOK, session
<1>6. CASE MqttClosed
  BY <1>6 DEF MqttClosed, DisconnectEvent, Purge, FlagsOK, flags
<1>7. CASE UNCHANGED <<flags, reconnect_timer, subscribed>>
  BY <1>7 DEF FlagsOK, flags
<1> QED
  BY <1>1, <1>2, <1>3, <1>4, <1>5, <1>6, <1>7, <1>8
     DEF Next, App, AppConnect, AppConnected, AppConnectTimeout, AppPut, AppPutTimeout,
         AppDisconnect, Publish, PublishCheck, PublishPut, PublishBlock, PublishTimeout,
         ReconnectTimer, GcThread, GcDisconnectIgnored, GcPutConnect, GcWaitSem,
         MqttThread, MqttConnack, MqttSubscribe, MqttSubscribeTimeout, MqttRefused,
         MqttConfig, MqttBusy, MqttExit, BrokerAnswer, BrokerConfig, LinkDrop, flags,
         session, vars

\* The semaphore and what the bounds count.
LEMMA NextCounts == CountsOK /\ [Next]_vars => CountsOK'
<1> SUFFICES ASSUME CountsOK, [Next]_vars PROVE CountsOK'
  OBVIOUS
<1> USE EnvAssumption
<1>1. CASE App \/ AppDisconnect \/ MqttSubscribeTimeout
  <2>1. late' \in {late} \cup (IF late < MaxLate THEN {late + 1} ELSE {})
    BY <1>1 DEF App, AppConnect, AppConnected, AppConnectTimeout, AppPut, AppPutTimeout,
       AppDisconnect, MqttSubscribeTimeout, PutLasts, SemLasts, Outlasts, bounds
  <2>2. late' \in 0 .. MaxLate
    BY <2>1 DEF CountsOK
  <2> QED
    BY <1>1, <2>2 DEF App, AppConnect, AppConnected, AppConnectTimeout, AppPut,
       AppPutTimeout, AppDisconnect, MqttSubscribeTimeout, CountsOK, bounds
<1>2. CASE GcConnect \/ BrokerAnswer
  BY <1>2 DEF GcConnect, BrokerAnswer, Fails, CountsOK, bounds
<1>3. CASE GcWaitSem \/ MqttConnack
  BY <1>3 DEF GcWaitSem, MqttConnack, CountsOK, bounds
<1>4. CASE LinkDrop
  BY <1>4 DEF LinkDrop, CountsOK, bounds
<1>5. CASE UNCHANGED <<gc_connected_sem, bounds>>
  BY <1>5 DEF CountsOK, bounds
<1>6. ASSUME NEW p \in Publishers, PublishTimeout(p) PROVE CountsOK'
  <2>1. late' \in {late} \cup (IF late < MaxLate THEN {late + 1} ELSE {})
    BY <1>6 DEF PublishTimeout, PutLasts, Outlasts
  <2>2. late' \in 0 .. MaxLate
    BY <2>1 DEF CountsOK
  <2> QED
    BY <1>6, <2>2 DEF PublishTimeout, CountsOK
<1> QED
  BY <1>1, <1>2, <1>3, <1>4, <1>5, <1>6
     DEF Next, Publish, PublishCheck, PublishPut, PublishBlock, ReconnectTimer,
         GcThread, GcGet, GcSend, GcSendFails, GcDisconnect, GcDisconnectIgnored,
         GcPutConnect, MqttThread, MqttConnected, MqttSubscribe, MqttSubscribeTimeout,
         MqttRefused, MqttConfig, MqttBusy, MqttClosed, MqttExit, BrokerConfig, bounds,
         vars

\* Type correctness of gcloud.c's threads, its message queue and its connection:
\* no put, not even the timer's in interrupt context, exceeds N_MESSAGES.
THEOREM TypeCorrect == Spec => []TypeOK
<1>1. TypeOK /\ [Next]_vars => TypeOK'
  <2> SUFFICES ASSUME TypeOK, [Next]_vars PROVE TypeOK'
    OBVIOUS
  <2>1. QueueOK /\ PubOK /\ ThreadsOK /\ SessionOK /\ FlagsOK /\ CountsOK
    BY TypeParts
  <2>2. QueueOK' /\ PubOK' /\ ThreadsOK' /\ SessionOK' /\ FlagsOK' /\ CountsOK'
    BY <2>1, NextQueueStep, NextQueue, NextPub, NextThreads, NextSession, NextFlags,
       NextCounts
  <2> QED
    BY <2>2 DEF TypeOK, QueueOK, PubOK, ThreadsOK, SessionOK, FlagsOK, CountsOK
<1> QED
  BY <1>1, InitType, PTL DEF Spec

-----------------------------------------------------------------------------
(* What an established connection has.  The three invariants are inductive   *)
(* over well-formed states: whoever takes the thread, the timer or the queue *)
(* away closes the client in the same step, and a new connection starts with *)
(* none of the three.                                                        *)

\* The renewal timer is stopped only with the end of the connection it is to
\* renew, and every CONNACK starts it again: whoever delivered DISCONNECT, and
\* whatever gcloud_disconnect did in between.
LEMMA NextRenewalArmed == RenewalArmed /\ [Next]_vars => RenewalArmed'
<1> SUFFICES ASSUME RenewalArmed, [Next]_vars PROVE RenewalArmed'
  OBVIOUS
<1> USE DEF RenewalArmed
<1>1. CASE GcConnect
  BY <1>1 DEF GcConnect
<1>2. CASE GcSendFails \/ GcDisconnect
  BY <1>2 DEF GcSendFails, GcDisconnect
<1>3. CASE MqttConnack \/ MqttConnected \/ MqttClosed
  BY <1>3 DEF MqttConnack, MqttConnected, MqttClosed, session
<1>4. CASE MqttSubscribe \/ MqttSubscribeTimeout \/ MqttBusy \/ MqttExit
  BY <1>4 DEF MqttSubscribe, MqttSubscribeTimeout, MqttBusy, MqttExit, flags, session
<1>5. CASE UNCHANGED <<client, mqtt, connected, reconnect_timer>>
  BY <1>5
<1> QED
  BY <1>1, <1>2, <1>3, <1>4, <1>5
     DEF Next, App, AppConnect, AppConnected, AppConnectTimeout, AppPut, AppPutTimeout,
         AppDisconnect, Publish, PublishCheck, PublishPut, PublishBlock, PublishTimeout,
         ReconnectTimer, GcThread, GcGet, GcSend, GcDisconnectIgnored, GcPutConnect,
         GcWaitSem, MqttThread, MqttRefused, MqttConfig, BrokerAnswer, BrokerConfig,
         LinkDrop, flags, session, vars

\* In every reachable state a connection past its CONNACK is marked connected and
\* its renewal timer runs.
THEOREM RenewalIsArmed == Spec => []RenewalArmed
<1>1. Init => RenewalArmed
  BY DEF Init, RenewalArmed
<1> QED
  BY <1>1, NextRenewalArmed, PTL DEF Spec

\* The mqtt thread is aborted only with the connection closed, and returns by
\* itself only from a connection that is closed or broken, or over a payload it
\* has left unread.
LEMMA NextReceiverRuns == ReceiverRuns /\ [Next]_vars => ReceiverRuns'
<1> SUFFICES ASSUME ReceiverRuns, [Next]_vars PROVE ReceiverRuns'
  OBVIOUS
<1> USE DEF ReceiverRuns
<1>1. CASE GcConnect
  BY <1>1 DEF GcConnect
<1>2. CASE GcSendFails \/ GcDisconnect
  BY <1>2 DEF GcSendFails, GcDisconnect
<1>3. CASE MqttConnack \/ MqttConnected \/ MqttSubscribe \/ MqttSubscribeTimeout
  BY <1>3 DEF MqttConnack, MqttConnected, MqttSubscribe, MqttSubscribeTimeout
<1>4. CASE MqttRefused \/ MqttConfig
  BY <1>4 DEF MqttRefused, MqttConfig
<1>5. CASE MqttBusy \/ MqttExit
  BY <1>5 DEF MqttBusy, MqttExit, session
<1>6. CASE MqttClosed
  BY <1>6 DEF MqttClosed
<1>7. CASE BrokerAnswer \/ BrokerConfig \/ LinkDrop
  BY <1>7 DEF BrokerAnswer, BrokerConfig, LinkDrop
<1>8. CASE UNCHANGED <<client, link, mqtt, reply>>
  BY <1>8
<1> QED
  BY <1>1, <1>2, <1>3, <1>4, <1>5, <1>6, <1>7, <1>8
     DEF Next, App, AppConnect, AppConnected, AppConnectTimeout, AppPut, AppPutTimeout,
         AppDisconnect, Publish, PublishCheck, PublishPut, PublishBlock, PublishTimeout,
         ReconnectTimer, GcThread, GcGet, GcSend, GcDisconnectIgnored, GcPutConnect,
         GcWaitSem, MqttThread, session, vars

\* In every reachable state an established connection is listened to.
THEOREM ReceiverIsRunning == Spec => []ReceiverRuns
<1>1. Init => ReceiverRuns
  BY DEF Init, ReceiverRuns
<1> QED
  BY <1>1, NextReceiverRuns, PTL DEF Spec

-----------------------------------------------------------------------------
(* One mqtt thread at a time, until the application disconnects.             *)

\* While the gc thread reconnects, inside its own event handler, there is no
\* mqtt thread: it has aborted it, and it is itself the thread that starts one.
GcWaitsAlone == gc \in {"put_connect", "wait_sem"} => mqtt = "none"

\* Until then a CONNECT, in the queue or in the hands of the gc thread, means that
\* no mqtt thread runs, and there is one such command at most.  (gcloud_disconnect
\* leaves the mqtt thread alive, and the gcloud_connect after it queues a CONNECT
\* all the same.)
OneConnect ==
  disconnects = 0 =>
    /\ app \in {"start", "wait", "up"}
    /\ "DISCONNECT" \notin Range(msgq) /\ gc # "DISCONNECT"
    /\ AtMostOnce("CONNECT", msgq)
    /\ "CONNECT" \in Range(msgq) \/ gc = "CONNECT" => mqtt = "none"
    /\ gc \in {"CONNECT", "put_connect"} => "CONNECT" \notin Range(msgq)
    /\ app = "start" => /\ "CONNECT" \notin Range(msgq) /\ mqtt = "none" /\ ~connected
                        /\ gc \notin {"CONNECT", "put_connect", "wait_sem"}

\* Only the gc thread's own GcConnect starts an mqtt thread, and it aborts the one
\* there is before it reconnects.
LEMMA NextGcWaitsAlone == TypeOK /\ GcWaitsAlone /\ [Next]_vars => GcWaitsAlone'
<1> SUFFICES ASSUME TypeOK, GcWaitsAlone, [Next]_vars PROVE GcWaitsAlone'
  OBVIOUS
<1>0. QueueOK /\ PubOK /\ ThreadsOK
  BY TypeParts
<1> USE DEF GcWaitsAlone
<1>1. CASE GcConnect \/ GcSend \/ GcDisconnectIgnored
  BY <1>1 DEF GcConnect, GcSend, GcDisconnectIgnored
<1>2. CASE GcSendFails
  BY <1>0, <1>2, DisconnectTypes DEF GcSendFails
<1>3. CASE GcDisconnect
  <2>1. CASE client = "connected"
    <3>1. PICK wanted : DisconnectEvent("gc", wanted)
      BY <1>3, <2>1 DEF GcDisconnect
    <3> QED
      BY <1>0, <3>1, DisconnectTypes
  <2>2. CASE client # "connected"
    BY <1>3, <2>2 DEF GcDisconnect
  <2> QED
    BY <2>1, <2>2
<1>4. CASE MqttClosed
  BY <1>0, <1>4, DisconnectTypes DEF MqttClosed
<1>5. CASE GcPutConnect \/ GcWaitSem
  BY <1>5 DEF GcPutConnect, GcWaitSem
<1>6. CASE MqttConnack \/ MqttConnected \/ MqttSubscribe \/ MqttSubscribeTimeout
            \/ MqttBusy \/ MqttExit
  BY <1>6 DEF MqttConnack, MqttConnected, MqttSubscribe, MqttSubscribeTimeout, MqttBusy,
              MqttExit
<1>7. CASE UNCHANGED <<gc, mqtt>>
  BY <1>7
<1>8. CASE GcGet
  <2>1. gc' \in Commands
    BY <1>0, <1>8, TailElements DEF GcGet, QueueOK
  <2> QED
    BY <2>1 DEF Commands
<1> QED
  BY <1>1, <1>2, <1>3, <1>4, <1>5, <1>6, <1>7, <1>8
     DEF Next, App, AppConnect, AppConnected, AppConnectTimeout, AppPut, AppPutTimeout,
         AppDisconnect, Publish, PublishCheck, PublishPut, PublishBlock, PublishTimeout,
         ReconnectTimer, GcThread, MqttThread, MqttRefused, MqttConfig, BrokerAnswer,
         BrokerConfig, LinkDrop, vars

\* A put of another command than CONNECT or DISCONNECT.
LEMMA PutOther ==
  ASSUME QueueOK, NEW cmd \in Commands \ {"CONNECT", "DISCONNECT"}, Send(cmd)
  PROVE  /\ \A e \in {"CONNECT", "DISCONNECT"} : e \in Range(msgq') => e \in Range(msgq)
         /\ AtMostOnce("CONNECT", msgq) => AtMostOnce("CONNECT", msgq')
BY AppendElements DEF QueueOK, Send

\* The put of the first CONNECT.
LEMMA PutConnect ==
  ASSUME QueueOK, Send("CONNECT"), "CONNECT" \notin Range(msgq)
  PROVE  /\ "DISCONNECT" \in Range(msgq') => "DISCONNECT" \in Range(msgq)
         /\ AtMostOnce("CONNECT", msgq) => AtMostOnce("CONNECT", msgq')
<1>1. "CONNECT" \in Commands
  BY DEF Commands
<1> QED
  BY <1>1, AppendElements DEF QueueOK, Send

\* The application has not disconnected after a step unless it had before, or
\* does so in this step.
LEMMA DisconnectsCount ==
  CountsOK /\ [Next]_vars /\ disconnects' = 0 => disconnects = 0 /\ ~AppDisconnect
<1> SUFFICES ASSUME CountsOK, [Next]_vars, disconnects' = 0
             PROVE  disconnects = 0 /\ ~AppDisconnect
  OBVIOUS
<1>1. disconnects \in Nat
  BY EnvAssumption DEF CountsOK
<1>2. ~AppDisconnect
  BY <1>1 DEF AppDisconnect
<1>3. disconnects' = disconnects
  BY <1>2 DEF Next, App, AppConnect, AppConnected, AppConnectTimeout, AppPut,
              AppPutTimeout, Publish, PublishCheck, PublishPut, PublishBlock,
              PublishTimeout, ReconnectTimer, GcThread, GcGet, GcConnect, GcSend,
              GcSendFails, GcDisconnect, GcDisconnectIgnored, GcPutConnect, GcWaitSem,
              MqttThread, MqttConnack, MqttConnected, MqttSubscribe,
              MqttSubscribeTimeout, MqttRefused, MqttConfig, MqttBusy, MqttClosed,
              MqttExit, BrokerAnswer, BrokerConfig, LinkDrop, bounds, vars
<1> QED
  BY <1>2, <1>3

\* A CONNECT is put only by the application's first connection and by a renewal,
\* each at a moment without an mqtt thread and without another CONNECT.
LEMMA NextOneConnect ==
  TypeOK /\ GcWaitsAlone /\ OneConnect /\ [Next]_vars => OneConnect'
<1> SUFFICES ASSUME TypeOK, GcWaitsAlone, OneConnect, [Next]_vars, disconnects' = 0
             PROVE  OneConnect'
  BY DEF OneConnect
<1>0. /\ QueueOK /\ PubOK /\ ThreadsOK
      /\ disconnects = 0 /\ ~AppDisconnect
  BY TypeParts, DisconnectsCount
<1> USE DEF OneConnect
\* What the rest of a step does to the threads when the queue is left, or a
\* command put that is of no interest here.
<1>1. ASSUME \A e \in {"CONNECT", "DISCONNECT"} : e \in Range(msgq') => e \in Range(msgq),
             AtMostOnce("CONNECT", msgq'),
             mqtt' \in {mqtt, "none"}
               \/ ("CONNECT" \notin Range(msgq') /\ gc # "CONNECT"),
             gc' \in {gc, "get"},
             app' \in {app, "up"},
             app' = "start" => app = "start" /\ UNCHANGED <<mqtt, connected>>
      PROVE  OneConnect'
  BY <1>0, <1>1
<1>2. CASE AppConnect
  <2>1. app = "start" /\ Send("CONNECT") /\ app' = "wait" /\ UNCHANGED <<gc, mqtt>>
    BY <1>0, <1>2 DEF AppConnect
  <2> QED
    BY <1>0, <2>1, PutConnect
<1>3. CASE GcPutConnect
  <2>1. gc = "put_connect" /\ gc' = "wait_sem" /\ app' = app /\ UNCHANGED <<mqtt, connected>>
    BY <1>3 DEF GcPutConnect, flags
  <2>2. mqtt = "none" /\ "CONNECT" \notin Range(msgq) /\ app # "start"
    BY <1>0, <2>1 DEF GcWaitsAlone
  <2>3. CASE Send("CONNECT")
    BY <1>0, <2>1, <2>2, <2>3, PutConnect
  <2>4. CASE UNCHANGED msgq
    BY <1>0, <2>1, <2>2, <2>4
  <2> QED
    BY <1>3, <2>3, <2>4 DEF GcPutConnect
<1>4. CASE GcGet
  <2>1. /\ msgq # <<>> /\ gc' = Head(msgq) /\ msgq' = Tail(msgq)
        /\ UNCHANGED <<mqtt, app, connected>>
    BY <1>4 DEF GcGet
  <2>2. /\ gc' \in Commands /\ gc' \in Range(msgq) /\ Range(msgq') \subseteq Range(msgq)
        /\ AtMostOnce("CONNECT", msgq')
        /\ gc' = "CONNECT" => "CONNECT" \notin Range(msgq')
    BY <1>0, <2>1, TailElements DEF QueueOK
  <2>3. gc' \notin {"put_connect", "wait_sem"}
    BY <2>2 DEF Commands
  <2> QED
    BY <1>0, <2>1, <2>2, <2>3
<1>5. ASSUME msgq' = <<>>, app' = app, app # "start", mqtt' = "none" \/ gc' # "CONNECT",
             gc' # "DISCONNECT"
      PROVE  OneConnect'
  <2>1. AtMostOnce("CONNECT", msgq') /\ Range(msgq') = {}
    BY <1>5, RangeType
  <2> QED
    BY <1>0, <1>5, <2>1
<1>6. CASE GcSendFails \/ GcDisconnect
  <2>1. /\ connected /\ app \in {"wait", "up"}
        /\ gc \notin {"CONNECT", "DISCONNECT"}
    BY <1>0, <1>6 DEF GcSendFails, GcDisconnect
  <2>2. ASSUME NEW wanted, DisconnectEvent("gc", wanted) PROVE OneConnect'
    <3>1. /\ msgq' = <<>> /\ gc' \in {"put_connect", "get"} /\ app' = app
      BY <1>0, <2>1, <2>2 DEF DisconnectEvent, Purge, AppPutFailed
    <3> QED
      BY <1>5, <2>1, <3>1
  <2>3. CASE UNCHANGED <<msgq, mqtt, app>> /\ gc' = "get"
    BY <1>0, <1>1, <2>1, <2>3
  <2> QED
    BY <1>6, <2>2, <2>3 DEF GcSendFails, GcDisconnect
<1>7. CASE MqttClosed
  <2>1. mqtt # "none" /\ DisconnectEvent("mqtt", connected \/ connecting)
    BY <1>7 DEF MqttClosed
  <2>2. mqtt' = "none" /\ msgq' = <<>> /\ gc' = gc /\ app' = app
    BY <1>0, <2>1, DisconnectTypes
  <2> QED
    BY <1>0, <1>5, <2>1, <2>2
<1>8. CASE GcConnect
  <2>1. gc = "CONNECT" /\ gc' = "get" /\ UNCHANGED <<msgq, app>>
    BY <1>8 DEF GcConnect
  <2> QED
    BY <1>0, <2>1
<1>9. CASE MqttSubscribe
  <2>1. mqtt = "subscribe" /\ Send("SUBSCRIBE") /\ UNCHANGED <<gc, app, connected>>
    BY <1>9 DEF MqttSubscribe, flags
  <2>2. "CONNECT" \notin Range(msgq) /\ app # "start" /\ gc # "CONNECT"
    BY <1>0, <2>1
  <2>3. "SUBSCRIBE" \in Commands \ {"CONNECT", "DISCONNECT"}
    BY DEF Commands
  <2> QED
    BY <1>0, <1>1, <2>1, <2>2, <2>3, PutOther
<1>10. ASSUME NEW cmd \in Commands \ {"CONNECT", "DISCONNECT"}, Send(cmd),
              UNCHANGED <<gc, mqtt, app, connected>>
       PROVE  OneConnect'
  BY <1>0, <1>1, <1>10, PutOther
<1>11. CASE UNCHANGED <<msgq, gc, mqtt, app, connected>>
  BY <1>0, <1>1, <1>11
<1>12. CASE ReconnectTimer
  BY <1>10, <1>11, <1>12 DEF ReconnectTimer, Commands, flags
<1>13. ASSUME NEW p \in Publishers, Publish(p) PROVE OneConnect'
  BY <1>10, <1>11, <1>13
     DEF Publish, PublishCheck, PublishPut, PublishBlock, PublishTimeout, Commands, flags
<1>14. CASE AppConnected \/ AppConnectTimeout \/ GcWaitSem \/ GcSend \/ GcDisconnectIgnored
  <2>1. UNCHANGED <<msgq, mqtt, connected>> /\ gc' \in {gc, "get"} /\ app' \in {app, "up"}
    BY <1>0, <1>14 DEF AppConnected, AppConnectTimeout, Waiting, Returned, GcWaitSem,
                       GcSend, GcDisconnectIgnored, flags
  <2> QED
    BY <1>0, <1>1, <2>1
<1>15. CASE MqttConnack \/ MqttConnected \/ MqttSubscribeTimeout \/ MqttBusy \/ MqttExit
  <2>1. mqtt # "none"
    BY <1>15 DEF MqttConnack, MqttConnected, MqttSubscribeTimeout, MqttBusy, MqttExit
  <2>2. "CONNECT" \notin Range(msgq) /\ app # "start" /\ gc # "CONNECT"
    BY <1>0, <2>1
  <2>3. UNCHANGED <<msgq, gc>> /\ app' \in {app, "up"}
    BY <1>0, <1>15 DEF MqttConnack, Waiting, Returned, MqttConnected,
                       MqttSubscribeTimeout, MqttBusy, MqttExit
  <2> QED
    BY <1>0, <1>1, <2>2, <2>3
<1>16. ~AppPut /\ ~AppPutTimeout
  BY <1>0 DEF AppPut, AppPutTimeout
<1> QED
  BY <1>0, <1>2, <1>3, <1>4, <1>6, <1>7, <1>8, <1>9, <1>11, <1>12, <1>13, <1>14, <1>15,
     <1>16
     DEF Next, App, GcThread, MqttThread, MqttRefused, MqttConfig, BrokerAnswer,
         BrokerConfig, LinkDrop, flags, vars

\* The invariant behind the properties below.
ThreadInv == TypeOK /\ GcWaitsAlone /\ OneConnect

\* It holds in every reachable state.
LEMMA ThreadInvariant == Spec => []ThreadInv
<1>1. Init => ThreadInv
  BY InitType, RangeType DEF Init, ThreadInv, GcWaitsAlone, OneConnect
<1>2. Spec => []TypeOK
  BY TypeCorrect
<1>3. TypeOK /\ TypeOK' /\ ThreadInv /\ [Next]_vars => ThreadInv'
  BY NextGcWaitsAlone, NextOneConnect, TypeParts DEF ThreadInv
<1> QED
  BY <1>1, <1>2, <1>3, PTL DEF Spec

\* k_thread_create never reuses the stack of a running mqtt thread, through every
\* renewal, failure and broken connection, until gcloud_disconnect is called.
THEOREM OneMqttThreadAtATime == Spec => OneMqttThread
<1>1. ThreadInv /\ [Next]_vars => [GcConnect => (mqtt = "none" \/ disconnects > 0)]_vars
  <2> SUFFICES ASSUME ThreadInv, GcConnect PROVE mqtt = "none" \/ disconnects > 0
    OBVIOUS
  <2>1. gc = "CONNECT"
    BY DEF GcConnect
  <2>2. disconnects \in Nat
    BY EnvAssumption DEF ThreadInv, TypeOK
  <2> QED
    BY <2>1, <2>2 DEF ThreadInv, OneConnect
<1> QED
  BY <1>1, ThreadInvariant, PTL DEF Spec, OneMqttThread

-----------------------------------------------------------------------------
(* The subscription of a connection: only a gc thread that a network call    *)
(* keeps from the queue for 100 s can cost it.                               *)

\* A put takes no SUBSCRIBE away.
LEMMA SubscribeKept ==
  ASSUME QueueOK, NEW cmd \in Commands, Send(cmd)
  PROVE  /\ "SUBSCRIBE" \in Range(msgq) => "SUBSCRIBE" \in Range(msgq')
         /\ cmd = "SUBSCRIBE" => "SUBSCRIBE" \in Range(msgq')
BY AppendElements DEF QueueOK, Send

\* A wait that ends over a busy network is counted.
LEMMA LateCounts ==
  ASSUME CountsOK, late' = 0
  PROVE  \A busy : ~Outlasts(busy)
BY EnvAssumption DEF CountsOK, Outlasts

\* While its put waits for room there is no gc thread waiting, only one that works.
LEMMA SubscribeOutlasted ==
  ASSUME CountsOK, GcWaitsAlone, late' = 0
  PROVE  ~MqttSubscribeTimeout
BY LateCounts DEF MqttSubscribeTimeout, PutLasts, GcWaitsAlone

\* Unless a wait is counted in it, a step leaves the count.
LEMMA LateBefore ==
  CountsOK /\ [Next]_vars /\ late' = 0 => late = 0
<1> SUFFICES ASSUME CountsOK, [Next]_vars, late' = 0 PROVE late = 0
  OBVIOUS
<1>1. \A busy : ~Outlasts(busy)
  BY LateCounts
<1>2. UNCHANGED late
  BY <1>1 DEF PutLasts, SemLasts, Next, App, AppConnect, AppConnected,
              AppConnectTimeout, AppPut, AppPutTimeout, AppDisconnect, Publish,
              PublishCheck, PublishPut, PublishBlock, PublishTimeout, ReconnectTimer,
              GcThread, GcGet, GcConnect, GcSend, GcSendFails, GcDisconnect,
              GcDisconnectIgnored, GcPutConnect, GcWaitSem, MqttThread, MqttConnack,
              MqttConnected, MqttSubscribe, MqttSubscribeTimeout, MqttRefused,
              MqttConfig, MqttBusy, MqttClosed, MqttExit, BrokerAnswer, BrokerConfig,
              LinkDrop, bounds, vars
<1> QED
  BY <1>2

\* SUBSCRIBE leaves the queue only to be sent, or by the purge that ends the
\* connection it is meant for.
LEMMA NextSubscriptionNotLost ==
  TypeOK /\ GcWaitsAlone /\ SubscriptionNotLost /\ [Next]_vars => SubscriptionNotLost'
<1> SUFFICES ASSUME TypeOK, GcWaitsAlone, SubscriptionNotLost, [Next]_vars, late' = 0
             PROVE  SubscriptionNotLost'
  BY DEF SubscriptionNotLost
<1>0. QueueOK /\ CountsOK /\ late = 0 /\ ~MqttSubscribeTimeout
  BY TypeParts, LateBefore, SubscribeOutlasted
<1> USE DEF SubscriptionNotLost
<1>1. CASE GcConnect
  BY <1>1 DEF GcConnect
<1>2. CASE GcSendFails \/ GcDisconnect \/ GcDisconnectIgnored
  BY <1>2 DEF GcSendFails, GcDisconnect, GcDisconnectIgnored, flags
<1>3. CASE MqttConnack \/ MqttConnected \/ MqttClosed
  BY <1>3 DEF MqttConnack, MqttConnected, MqttClosed
<1>4. CASE MqttSubscribe
  <2>1. "SUBSCRIBE" \in Range(msgq')
    BY <1>0, <1>4, SubscribeKept DEF MqttSubscribe, Commands
  <2> QED
    BY <2>1
<1>5. CASE MqttBusy \/ MqttExit
  BY <1>5 DEF MqttBusy, MqttExit
<1>6. CASE GcSend
  <2>1. UNCHANGED <<client, link, connected, mqtt, msgq>> /\ (subscribed => subscribed')
    BY <1>6 DEF GcSend, flags
  <2>2. gc = "SUBSCRIBE" /\ connected /\ client = "connected" /\ link = "up" => subscribed'
    BY <1>6 DEF GcSend
  <2> QED
    BY <1>0, <2>1, <2>2
<1>7. CASE GcGet
  <2>1. /\ UNCHANGED <<client, link, connected, mqtt, subscribed>> /\ gc # "SUBSCRIBE"
        /\ msgq # <<>> /\ gc' = Head(msgq) /\ msgq' = Tail(msgq)
    BY <1>7 DEF GcGet, session
  <2>2. "SUBSCRIBE" \in Range(msgq) => gc' = "SUBSCRIBE" \/ "SUBSCRIBE" \in Range(msgq')
    BY <1>0, <2>1, TailElements DEF QueueOK
  <2> QED
    BY <1>0, <2>1, <2>2
<1>8. CASE LinkDrop
  BY <1>8 DEF LinkDrop
<1>9. ASSUME NEW cmd \in Commands, Send(cmd),
             UNCHANGED <<client, link, connected, mqtt, subscribed>>,
             gc = "SUBSCRIBE" => gc' = gc
      PROVE  SubscriptionNotLost'
  BY <1>0, <1>9, SubscribeKept
<1>10. ASSUME UNCHANGED <<client, link, connected, mqtt, msgq, subscribed>>,
              gc = "SUBSCRIBE" => gc' = gc
       PROVE  SubscriptionNotLost'
  BY <1>0, <1>10
<1>11. CASE App \/ AppDisconnect \/ ReconnectTimer
  BY <1>9, <1>10, <1>11
     DEF App, AppConnect, AppConnected, AppConnectTimeout, AppPut, AppPutTimeout,
         AppDisconnect, ReconnectTimer, flags, session, Commands
<1>12. ASSUME NEW p \in Publishers, Publish(p) PROVE SubscriptionNotLost'
  BY <1>9, <1>10, <1>12
     DEF Publish, PublishCheck, PublishPut, PublishBlock, PublishTimeout, flags, session,
         Commands
<1>13. CASE GcPutConnect \/ GcWaitSem
  BY <1>9, <1>10, <1>13 DEF GcPutConnect, GcWaitSem, flags, session, Commands
<1>14. CASE MqttRefused \/ MqttConfig \/ BrokerAnswer \/ BrokerConfig \/ UNCHANGED vars
  BY <1>10, <1>14
     DEF MqttRefused, MqttConfig, BrokerAnswer, BrokerConfig, flags, session, vars
<1> QED
  BY <1>0, <1>1, <1>2, <1>3, <1>4, <1>5, <1>6, <1>7, <1>8, <1>11, <1>12, <1>13, <1>14
     DEF Next, GcThread, MqttThread

\* In every reachable state a connection has its subscription, or will have,
\* unless a network call has outlasted 100 s.
THEOREM SubscriptionIsKept == Spec => []SubscriptionNotLost
<1>1. Init => SubscriptionNotLost
  BY DEF Init, SubscriptionNotLost
<1> QED
  BY <1>1, NextSubscriptionNotLost, ThreadInvariant, PTL DEF Spec, ThreadInv

-----------------------------------------------------------------------------
(* The first connection, while nothing fails or outlasts its time.           *)

\* Nothing has failed, and no wait has ended over a slow network.
Calm == Benign /\ late = 0

\* Until the application's first wait has ended nothing but its own connection is
\* under way, and no token is left over; afterwards the device is connected or
\* connecting, and it connects whenever the gc thread waits.
FirstConnection ==
  Calm =>
    /\ link = "up"
    /\ app \in {"start", "wait"} =>
         /\ gc \notin {"put_connect", "wait_sem"} /\ gc_connected_sem = 0
         /\ ~connected /\ mqtt \in {"none", "poll"}
    /\ app = "wait" =>
         \/ "CONNECT" \in Range(msgq)
         \/ gc = "CONNECT"
         \/ /\ client = "tcp" /\ reply \in {"pending", "connack"}
            /\ mqtt = "poll" /\ connecting
    /\ app = "up" => connected \/ connecting
    /\ gc \in {"CONNECT", "put_connect", "wait_sem"} => connecting

\* All was calm before a step after which it is.
LEMMA CalmBefore ==
  ASSUME CountsOK, [Next]_vars, Calm'
  PROVE  Calm /\ ~AppDisconnect /\ ~LinkDrop /\ ~Fails /\ \A busy : ~Outlasts(busy)
<1>1. drops \in Nat /\ failures \in Nat /\ disconnects \in Nat
  BY EnvAssumption DEF CountsOK
<1>2. drops' = 0 /\ failures' = 0 /\ disconnects' = 0 /\ late' = 0
  BY DEF Calm, Benign
<1>3. ~AppDisconnect /\ ~LinkDrop /\ ~Fails /\ \A busy : ~Outlasts(busy)
  BY <1>1, <1>2, LateCounts DEF AppDisconnect, LinkDrop, Fails
<1>4. UNCHANGED <<drops, failures, disconnects>>
  BY <1>3 DEF Next, App, AppConnect, AppConnected, AppConnectTimeout, AppPut,
              AppPutTimeout, AppDisconnect, Publish, PublishCheck, PublishPut,
              PublishBlock, PublishTimeout, ReconnectTimer, GcThread, GcGet, GcConnect,
              GcSend, GcSendFails, GcDisconnect, GcDisconnectIgnored, GcPutConnect,
              GcWaitSem, MqttThread, MqttConnack, MqttConnected, MqttSubscribe,
              MqttSubscribeTimeout, MqttRefused, MqttConfig, MqttBusy, MqttClosed,
              MqttExit, BrokerAnswer, BrokerConfig, LinkDrop, bounds, vars
<1> QED
  BY <1>2, <1>3, <1>4, LateBefore DEF Calm, Benign

\* A CONNECT stays in the queue while other commands are put.
LEMMA ConnectStays ==
  ASSUME QueueOK, "CONNECT" \in Range(msgq),
         msgq' = msgq \/ \E cmd \in Commands : Send(cmd)
  PROVE  "CONNECT" \in Range(msgq')
<1>1. CASE msgq' = msgq
  BY <1>1
<1>2. CASE \E cmd \in Commands : Send(cmd)
  BY <1>2, AppendElements DEF QueueOK, Send
<1> QED
  BY <1>1, <1>2

\* While all is calm, the CONNECT, the CONNACK and the token follow each other
\* with no chance for another to come between.
LEMMA NextFirstConnection ==
  ThreadInv /\ FirstConnection /\ [Next]_vars => FirstConnection'
<1> SUFFICES ASSUME ThreadInv, FirstConnection, [Next]_vars, Calm'
             PROVE  FirstConnection'
  BY DEF FirstConnection
<1>0. /\ QueueOK /\ ThreadsOK /\ SessionOK /\ CountsOK
      /\ Calm /\ ~AppDisconnect /\ ~LinkDrop /\ ~Fails /\ \A busy : ~Outlasts(busy)
  BY CalmBefore, TypeParts DEF ThreadInv
<1>a. /\ link = "up"
      /\ app \in {"start", "wait"} =>
           /\ gc \notin {"put_connect", "wait_sem"} /\ gc_connected_sem = 0
           /\ ~connected /\ mqtt \in {"none", "poll"}
      /\ app = "wait" =>
           \/ "CONNECT" \in Range(msgq)
           \/ gc = "CONNECT"
           \/ /\ client = "tcp" /\ reply \in {"pending", "connack"}
              /\ mqtt = "poll" /\ connecting
      /\ app = "up" => connected \/ connecting
      /\ gc \in {"CONNECT", "put_connect", "wait_sem"} => connecting
  BY <1>0 DEF FirstConnection
<1>b. /\ app \in {"start", "wait", "up"} /\ gc # "DISCONNECT"
      /\ "CONNECT" \in Range(msgq) \/ gc = "CONNECT" => mqtt = "none"
      /\ app = "start" => mqtt = "none"
      /\ gc \in {"put_connect", "wait_sem"} => mqtt = "none"
  BY <1>0 DEF ThreadInv, OneConnect, GcWaitsAlone, Calm, Benign
<1> USE DEF FirstConnection
<1>1. CASE AppConnect
  <2>1. Send("CONNECT") /\ "CONNECT" \in Commands
    BY <1>b, <1>1 DEF AppConnect, Commands
  <2>2. app = "start" /\ "CONNECT" \in Range(msgq')
    BY <1>0, <1>b, <1>1, <2>1, AppendElements DEF AppConnect, Send, QueueOK
  <2> QED
    BY <1>1, <1>a, <2>2 DEF AppConnect, flags, session
<1>2. ~AppConnected /\ ~AppPut /\ ~AppPutTimeout
  BY <1>a, <1>b DEF AppConnected, Waiting, AppPut, AppPutTimeout
<1>3. ~AppConnectTimeout
  BY <1>0, <1>a, <1>b DEF AppConnectTimeout, Waiting, SemLasts
<1>4. CASE GcGet
  <2>1. /\ msgq # <<>> /\ gc' = Head(msgq) /\ msgq' = Tail(msgq)
        /\ connecting' = (connecting \/ gc' = "CONNECT")
        /\ UNCHANGED <<mqtt, app, connected, gc_connected_sem, client, link, reply>>
    BY <1>4 DEF GcGet, session
  <2>2. gc' \in Commands /\ ("CONNECT" \in Range(msgq) =>
                               gc' = "CONNECT" \/ "CONNECT" \in Range(msgq'))
    BY <1>0, <2>1, TailElements DEF QueueOK
  <2>3. gc' \notin {"put_connect", "wait_sem"}
    BY <2>2 DEF Commands
  <2>4. app = "wait" /\ gc = "CONNECT" => FALSE
    BY <1>4 DEF GcGet
  <2> QED
    BY <1>a, <2>1, <2>2, <2>3, <2>4
<1>5. CASE GcConnect
  <2>1. gc = "CONNECT" /\ gc' = "get" /\ client' = "tcp" /\ reply' = "pending"
    BY <1>0, <1>5 DEF GcConnect
  <2>2. link' = "up" /\ mqtt' = "poll" /\ UNCHANGED <<app, connected, connecting, gc_connected_sem>>
    BY <1>5 DEF GcConnect, flags
  <2> QED
    BY <1>a, <2>1, <2>2
<1>6. CASE GcDisconnect
  <2>1. /\ connected /\ app = "up" /\ gc = "RECONNECT_TIMEOUT"
        /\ connecting' /\ link' = link
    BY <1>a, <1>b, <1>6 DEF GcDisconnect
  <2>2. app' = "up"
    BY <1>6, <2>1 DEF GcDisconnect, DisconnectEvent, Purge, AppPutFailed
  <2> QED
    BY <1>a, <2>1, <2>2
<1>7. CASE GcPutConnect \/ GcWaitSem
  <2>1. gc \in {"put_connect", "wait_sem"} /\ UNCHANGED <<app, link, connecting>>
    BY <1>7 DEF GcPutConnect, GcWaitSem, flags, session
  <2> QED
    BY <1>a, <1>b, <2>1
<1>8. CASE MqttConnack
  <2>1. mqtt = "poll" /\ gc # "CONNECT" /\ app \in {"wait", "up"}
    BY <1>0, <1>8, <1>b DEF MqttConnack
  <2>2. connected \/ connecting
    BY <1>a, <1>b, <2>1
  <2>3. app' = "up" /\ UNCHANGED <<link, gc, connected, connecting>>
    BY <1>8, <2>1 DEF MqttConnack, Waiting, Returned, flags
  <2> QED
    BY <1>a, <2>1, <2>2, <2>3
<1>9. CASE MqttConnected \/ MqttSubscribe \/ MqttSubscribeTimeout
  <2>1. /\ mqtt \in {"connack", "subscribe"} /\ app = "up"
        /\ gc \notin {"CONNECT", "put_connect", "wait_sem"}
    BY <1>0, <1>9, <1>a, <1>b DEF MqttConnected, MqttSubscribe, MqttSubscribeTimeout
  <2>2. UNCHANGED <<app, gc, link>> /\ (connected' \/ connecting')
    BY <1>9, <1>a, <2>1
       DEF MqttConnected, MqttSubscribe, MqttSubscribeTimeout, session, flags
  <2> QED
    BY <1>a, <2>1, <2>2
<1>10. CASE MqttRefused \/ MqttConfig \/ MqttBusy \/ MqttExit
  <2>1. app = "wait" => "CONNECT" \in Range(msgq) \/ gc = "CONNECT"
    BY <1>10, <1>a DEF MqttRefused, MqttConfig, MqttBusy, MqttExit
  <2>2. /\ UNCHANGED <<msgq, gc, app, connected, connecting, gc_connected_sem, link>>
        /\ mqtt' \in {mqtt, "none"}
    BY <1>10 DEF MqttRefused, MqttConfig, MqttBusy, MqttExit, flags, session
  <2> QED
    BY <1>a, <2>1, <2>2
<1>11. ~MqttClosed /\ ~GcSendFails
  BY <1>a DEF MqttClosed, GcSendFails
<1>12. CASE BrokerAnswer \/ BrokerConfig
  <2>1. app = "wait" => \/ "CONNECT" \in Range(msgq)
                        \/ gc = "CONNECT"
                        \/ reply' = "connack" /\ reply = "pending"
    BY <1>0, <1>12, <1>a DEF BrokerAnswer, BrokerConfig
  <2>2. UNCHANGED <<msgq, gc, mqtt, app, connected, connecting, gc_connected_sem, client,
                    link>>
    BY <1>12 DEF BrokerAnswer, BrokerConfig, flags
  <2> QED
    BY <1>a, <2>1, <2>2
<1>13. ASSUME UNCHANGED <<mqtt, app, connected, connecting, gc_connected_sem, client,
                          link, reply>>,
              gc' = gc \/ (gc # "CONNECT" /\ gc' = "get"),
              msgq' = msgq \/ \E cmd \in Commands : Send(cmd)
       PROVE  FirstConnection'
  BY <1>0, <1>13, <1>a, ConnectStays
<1>14. CASE GcSend \/ GcDisconnectIgnored
  BY <1>13, <1>14 DEF GcSend, GcDisconnectIgnored, flags, session
<1>15. ASSUME NEW p \in Publishers, Publish(p) PROVE FirstConnection'
  BY <1>13, <1>15
     DEF Publish, PublishCheck, PublishPut, PublishBlock, PublishTimeout, Commands, flags,
         session
<1>16. CASE ReconnectTimer
  BY <1>13, <1>16 DEF ReconnectTimer, Commands, flags, session
<1>17. CASE UNCHANGED vars
  BY <1>13, <1>17 DEF vars
<1> QED
  BY <1>0, <1>1, <1>2, <1>3, <1>4, <1>5, <1>6, <1>7, <1>8, <1>9, <1>10, <1>11, <1>12,
     <1>14, <1>15, <1>16, <1>17
     DEF Next, App, GcThread, MqttThread

\* The invariant of the first connection.
ConnectInv == ThreadInv /\ FirstConnection

\* It holds in every reachable state.
LEMMA ConnectInvariant == Spec => []ConnectInv
<1>1. Init => FirstConnection
  BY DEF Init, FirstConnection
<1>2. Spec => []FirstConnection
  BY <1>1, NextFirstConnection, ThreadInvariant, PTL DEF Spec
<1> QED
  BY <1>2, ThreadInvariant, PTL DEF ConnectInv

-----------------------------------------------------------------------------
(* Room for the CONNECT of a renewal.  The bound on the queue while the gc   *)
(* thread is about to put it is a count of publishers: the purge has emptied *)
(* the queue, the timer is stopped, the mqtt thread is gone, and as long as  *)
(* the device is not connected nobody begins a publish.                      *)

\* The publishers past their check, each of which may put one message.
Busy == {p \in Publishers : pub[p] # "idle"}

\* Before a renewal's CONNECT is put, each message in the queue and each publisher
\* that may still put one is another publisher, or a CONNECT or DISCONNECT is there.
RoomInv ==
  (gc = "put_connect" /\ ~connected) =>
    /\ reconnect_timer = FALSE
    /\ \/ {"CONNECT", "DISCONNECT"} \cap Range(msgq) # {}
       \/ Len(msgq) + Cardinality(Busy) <= Cardinality(Publishers)

\* A publisher is counted once.
LEMMA BusyCount ==
  ASSUME IsFiniteSet(Publishers)
  PROVE  /\ IsFiniteSet(Busy) /\ Cardinality(Busy) \in Nat
         /\ Cardinality(Publishers) \in Nat
         /\ Cardinality(Busy) <= Cardinality(Publishers)
         /\ \A p \in Busy : /\ IsFiniteSet(Busy \ {p})
                            /\ Cardinality(Busy \ {p}) = Cardinality(Busy) - 1
<1>1. Busy \subseteq Publishers
  BY DEF Busy
<1>2. IsFiniteSet(Busy) /\ Cardinality(Busy) <= Cardinality(Publishers)
  BY <1>1, FS_Subset
<1>3. Cardinality(Busy) \in Nat /\ Cardinality(Publishers) \in Nat
  BY <1>2, FS_CardinalityType
<1> QED
  BY <1>2, <1>3, FS_RemoveElement

\* A CONNECT or DISCONNECT stays in the queue while the gc thread takes nothing.
LEMMA ControlStays ==
  ASSUME QueueOK, NEW cmd \in Commands, Send(cmd)
  PROVE  /\ {"CONNECT", "DISCONNECT"} \cap Range(msgq) # {}
              => {"CONNECT", "DISCONNECT"} \cap Range(msgq') # {}
         /\ cmd \in {"CONNECT", "DISCONNECT"}
              => {"CONNECT", "DISCONNECT"} \cap Range(msgq') # {}
         /\ Len(msgq') = Len(msgq) + 1 /\ Len(msgq) \in Nat
BY AppendElements DEF QueueOK, Send

\* A publisher that puts is no longer busy, and none becomes busy while the device is
\* not connected.
LEMMA NextRoomInv ==
  ASSUME IsFiniteSet(Publishers)
  PROVE  TypeOK /\ GcWaitsAlone /\ RoomInv /\ [Next]_vars => RoomInv'
<1> SUFFICES ASSUME TypeOK, GcWaitsAlone, RoomInv, [Next]_vars,
                    gc' = "put_connect", connected' = FALSE
             PROVE  RoomInv'
  BY NextFlags, TypeParts DEF RoomInv, FlagsOK
<1>0. QueueOK /\ PubOK /\ ThreadsOK /\ FlagsOK
  BY TypeParts
<1> USE DEF RoomInv
<1>1. ASSUME NEW by, NEW wanted, DisconnectEvent(by, wanted) PROVE RoomInv'
  <2>1. reconnect_timer' = FALSE /\ msgq' = <<>>
    BY <1>1 DEF DisconnectEvent, Purge
  <2>2. Busy' \subseteq Publishers
    BY DEF Busy
  <2>3. Cardinality(Busy') <= Cardinality(Publishers) /\ Cardinality(Busy') \in Nat
    BY <2>2, FS_Subset, FS_CardinalityType
  <2> QED
    BY <2>1, <2>3
<1>2. ASSUME gc \notin {"put_connect", "wait_sem"} PROVE RoomInv'
  <2>1. GcSendFails \/ GcDisconnect \/ gc' \in {gc, "get", "wait_sem"} \cup Commands
    <3>1. CASE GcGet
      BY <1>0, <3>1, TailElements DEF GcGet, QueueOK
    <3>2. CASE MqttClosed
      BY <3>2 DEF MqttClosed, DisconnectEvent
    <3> QED
      BY <3>1, <3>2 DEF Next, App, AppConnect, AppConnected, AppConnectTimeout, AppPut,
         AppPutTimeout, AppDisconnect, Publish, PublishCheck, PublishPut, PublishBlock,
         PublishTimeout, ReconnectTimer, GcThread, GcConnect, GcSend,
         GcDisconnectIgnored, GcPutConnect, GcWaitSem, MqttThread, MqttConnack,
         MqttConnected, MqttSubscribe, MqttSubscribeTimeout, MqttRefused, MqttConfig,
         MqttBusy, MqttExit, BrokerAnswer, BrokerConfig, LinkDrop, vars
  <2>2. GcSendFails \/ GcDisconnect
    BY <1>2, <2>1 DEF Commands
  <2>3. \E by, wanted : DisconnectEvent(by, wanted)
    BY <1>2, <2>2 DEF GcSendFails, GcDisconnect
  <2> QED
    BY <1>1, <2>3
<1>3. ASSUME gc \in {"put_connect", "wait_sem"} PROVE RoomInv'
  <2>1. mqtt = "none" /\ ~MqttThread
    BY <1>3 DEF GcWaitsAlone, MqttThread, MqttConnack, MqttConnected, MqttSubscribe,
        MqttSubscribeTimeout, MqttRefused, MqttConfig, MqttBusy, MqttClosed, MqttExit
  <2>2. ~GcThread
    BY <1>3 DEF GcThread, GcGet, GcConnect, GcSend, GcSendFails, GcDisconnect,
        GcDisconnectIgnored, GcPutConnect, GcWaitSem
  <2>3. UNCHANGED <<gc, connected, reconnect_timer>>
    BY <2>1, <2>2
       DEF Next, App, AppConnect, AppConnected, AppConnectTimeout, AppPut,
           AppPutTimeout, AppDisconnect, Publish, PublishCheck, PublishPut,
           PublishBlock, PublishTimeout, ReconnectTimer, BrokerAnswer, BrokerConfig,
           LinkDrop, flags, vars
  <2>4. /\ gc = "put_connect" /\ connected = FALSE /\ reconnect_timer' = FALSE
        /\ \/ {"CONNECT", "DISCONNECT"} \cap Range(msgq) # {}
           \/ Len(msgq) + Cardinality(Busy) <= Cardinality(Publishers)
    BY <2>3
  <2>5. CASE AppPut \/ (AppConnect /\ msgq' # msgq) \/ (AppDisconnect /\ msgq' # msgq)
    <3>1. \E cmd \in {"CONNECT", "DISCONNECT"} : Send(cmd)
      BY <2>5 DEF AppConnect, AppDisconnect, AppPut
    <3>2. {"CONNECT", "DISCONNECT"} \subseteq Commands
      BY DEF Commands
    <3> QED
      BY <1>0, <2>4, <3>1, <3>2, ControlStays
  <2>6. CASE UNCHANGED <<msgq, pub>>
    BY <2>4, <2>6 DEF Busy
  <2>7. ASSUME NEW p \in Publishers, PublishBlock(p) PROVE RoomInv'
    <3>1. Busy' = Busy /\ msgq' = msgq
      BY <1>0, <2>7 DEF PublishBlock, Busy, PubOK
    <3> QED
      BY <2>4, <3>1
  <2>8. ASSUME NEW p \in Publishers, PublishPut(p) PROVE RoomInv'
    <3>1. p \in Busy /\ Busy' = Busy \ {p}
      BY <1>0, <2>8 DEF PublishPut, Busy, PubOK
    <3>2. Send("PUBLISH") /\ "PUBLISH" \in Commands
      BY <2>8 DEF PublishPut, Commands
    <3>3. Cardinality(Busy') = Cardinality(Busy) - 1 /\ Cardinality(Busy) \in Nat
      BY <3>1, BusyCount
    <3>4. Cardinality(Publishers) \in Nat
      BY BusyCount
    <3> HIDE DEF Busy
    <3>5. CASE {"CONNECT", "DISCONNECT"} \cap Range(msgq) # {}
      BY <1>0, <2>4, <3>2, <3>5, ControlStays
    <3>6. CASE Len(msgq) + Cardinality(Busy) <= Cardinality(Publishers)
      <4>1. Len(msgq') = Len(msgq) + 1 /\ Len(msgq) \in Nat
        BY <1>0, <3>2, ControlStays
      <4> QED
        BY <2>4, <3>3, <3>4, <3>6, <4>1
    <3> QED
      BY <2>4, <3>5, <3>6
  <2>9. \A p \in Publishers : ~PublishCheck(p) /\ ~PublishTimeout(p)
    BY <2>4 DEF PublishCheck, PublishTimeout, PutLasts, Outlasts, Commands
  <2>10. ~ReconnectTimer
    BY <2>3, <2>4 DEF ReconnectTimer
  <2> QED
    BY <2>1, <2>2, <2>5, <2>6, <2>7, <2>8, <2>9, <2>10
       DEF Next, App, AppConnect, AppConnected, AppConnectTimeout, AppPutTimeout,
           AppDisconnect, Publish, BrokerAnswer, BrokerConfig, LinkDrop, vars
<1> QED
  BY <1>2, <1>3

\* The purge makes room for the CONNECT of a renewal, which is put without a wait
\* by the queue's only reader: it is not lost, provided fewer threads publish than
\* the queue has entries (one does in the shipped main.c, and N_MESSAGES is 3).
THEOREM RenewalCommandHasRoom ==
  ASSUME IsFiniteSet(Publishers), Cardinality(Publishers) < N_MESSAGES
  PROVE  Spec => []RenewalHasRoom
<1>1. Init => RoomInv
  BY DEF Init, RoomInv
<1>2. TypeOK /\ GcWaitsAlone /\ RoomInv /\ [Next]_vars => RoomInv'
  BY NextRoomInv
<1>3. TypeOK /\ RoomInv => RenewalHasRoom
  <2> SUFFICES ASSUME TypeOK, RoomInv, gc = "put_connect", ~connected,
                      {"CONNECT", "DISCONNECT"} \cap Range(msgq) = {}
               PROVE  HasRoom
    BY DEF RenewalHasRoom
  <2>1. Len(msgq) + Cardinality(Busy) <= Cardinality(Publishers)
    BY DEF RoomInv
  <2>2. /\ Cardinality(Busy) \in Nat /\ Cardinality(Publishers) \in Nat
        /\ Len(msgq) \in Nat /\ N_MESSAGES \in Nat
    BY BusyCount, QueueAssumption DEF TypeOK
  <2> QED
    BY <2>1, <2>2 DEF HasRoom
<1> QED
  BY <1>1, <1>2, <1>3, ThreadInvariant, PTL DEF Spec, ThreadInv
=============================================================================
