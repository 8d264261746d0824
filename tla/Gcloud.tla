------------------------------- MODULE Gcloud -------------------------------
(***************************************************************************)
(* The Google Cloud connection of cellular/nrf_to_gcloud_with_ble          *)
(* (src/gcloud.c, and the main thread of src/main.c that uses it).         *)
(*                                                                         *)
(* Commands travel through the bounded message queue gcloud_msgq to the    *)
(* thread "gc" (gcloud_thread), which owns the MQTT client.  A second      *)
(* thread "mqtt" (mqtt_thread_func), created anew for every connection,    *)
(* polls the socket and delivers events to mqtt_event_handler.  The        *)
(* DISCONNECT event is delivered by whichever thread met the failure, and  *)
(* both kills the mqtt thread and requests a reconnection.  A kernel timer *)
(* renews the connection before its token expires.                         *)
(*                                                                         *)
(* The MQTT library, the network and the broker are external.  Publishers  *)
(* are the callers of gcloud_publish and gcloud_publish_state.  An action  *)
(* is what a thread does up to where another one can see a difference.     *)
(***************************************************************************)
EXTENDS Integers, Sequences, Functions

CONSTANTS
  Publishers,      \* threads that publish
  N_MESSAGES,      \* capacity of gcloud_msgq
  MaxDrops,        \* bound on connections broken by the network
  MaxFailures,     \* bound on connections that fail or are refused
  MaxDisconnects,  \* bound on the application's calls of gcloud_disconnect
  MaxLate,         \* bound on waits that end because the network is slow
  MaxTrouble       \* bound on these four together

ASSUME QueueAssumption == N_MESSAGES \in Nat \ {0}
ASSUME EnvAssumption ==
  {MaxDrops, MaxFailures, MaxDisconnects, MaxLate, MaxTrouble} \subseteq Nat

VARIABLES
  msgq,               \* gcloud_msgq
  gc, mqtt, app, pub, \* where each thread is (pub: one entry per publisher)
  connected, connecting,
  gc_connected_sem,
  reconnect_timer,    \* is the timer running?
  client,             \* state of the MQTT client: "idle", "tcp", "connected"
  link,               \* state of its connection: "up", "broken"
  reply,              \* what the broker has sent: the answer to CONNECT, or a
                      \* configuration; "unread" if its payload is left unread
  subscribed,         \* has this connection's SUBSCRIBE been sent?
  drops, failures, disconnects, late  \* what the bounds count

vars == <<msgq, gc, mqtt, app, pub, connected, connecting, gc_connected_sem,
          reconnect_timer, client, link, reply, subscribed, drops, failures, disconnects, late>>

flags   == <<connected, connecting>>
session == <<client, link, reply, subscribed>>
bounds  == <<drops, failures, disconnects, late>>

Commands == {"CONNECT", "PUBLISH", "RECONNECT_TIMEOUT", "DISCONNECT", "SUBSCRIBE"}

Init ==
  /\ msgq = <<>> /\ gc = "get" /\ mqtt = "none" /\ app = "start"
  /\ pub = [p \in Publishers |-> "idle"]
  /\ connected = FALSE /\ connecting = FALSE
  /\ gc_connected_sem = 0 /\ reconnect_timer = FALSE
  /\ client = "idle" /\ link = "up" /\ reply = "none" /\ subscribed = FALSE
  /\ drops = 0 /\ failures = 0 /\ disconnects = 0 /\ late = 0

\* One more of what the bounds count.
MoreTrouble == drops + failures + disconnects + late < MaxTrouble

HasRoom == Len(msgq) < N_MESSAGES
Send(cmd) == HasRoom /\ msgq' = Append(msgq, cmd)

-----------------------------------------------------------------------------
(* Waits of DEFAULT_MSGQ_TIMEOUT, 100 s: long enough unless the network is    *)
(* slow, or the gc thread waits as long itself.                               *)

\* A wait ends while the network still keeps busy what it waits for.
Outlasts(busy) == busy /\ late < MaxLate /\ MoreTrouble /\ late' = late + 1

\* A put gives up: the queue stays full, because the gc thread, its reader, is in a
\* network call or in a wait of its own.
PutLasts ==
  /\ ~HasRoom
  /\ (gc = "wait_sem" /\ UNCHANGED late) \/ Outlasts(gc \in Commands)

\* A wait for gc_connected_sem gives up: the network call or the CONNACK takes too
\* long, the gc thread waits too, or no connection is being made at all.
SemLasts ==
  /\ gc_connected_sem = 0
  /\ \/ UNCHANGED late /\ gc = "wait_sem"
     \/ /\ UNCHANGED late /\ gc = "get" /\ "CONNECT" \notin Range(msgq)
        /\ reply \notin {"pending", "connack"}
     \/ Outlasts(gc \in Commands \/ reply = "pending")

-----------------------------------------------------------------------------
(* The application: main.c and the public functions. *)

\* gcloud_connect: queue CONNECT, at once (always so the first time, when nobody
\* else has begun) or when there is room...
AppConnect ==
  /\ app \in {"start", "down"}
  /\ \/ Send("CONNECT") /\ app' = "wait"
     \/ app = "down" /\ ~HasRoom /\ app' = "put_connect" /\ UNCHANGED msgq
  /\ UNCHANGED <<gc, mqtt, pub, flags, gc_connected_sem, reconnect_timer, session, bounds>>

\* ... then take gc_connected_sem, after a failed put too.  What is returned is the
\* result of the put; that of k_sem_take is ignored.
Waiting == app \in {"wait", "wait_failed"}
Returned == IF app = "wait" THEN "up" ELSE "down"

\* A token left from an earlier connection, or that of the next one (MqttConnack),
AppConnected ==
  /\ Waiting /\ gc_connected_sem = 1
  /\ gc_connected_sem' = 0
  /\ app' = Returned
  /\ UNCHANGED <<msgq, gc, mqtt, pub, flags, reconnect_timer, session, bounds>>

\* or 100 s.
AppConnectTimeout ==
  /\ Waiting /\ SemLasts
  /\ app' = Returned
  /\ UNCHANGED <<msgq, gc, mqtt, pub, flags, gc_connected_sem, reconnect_timer, session,
                 drops, failures, disconnects>>

\* gcloud_disconnect (the shipped main.c does not call it).
AppDisconnect ==
  /\ app = "up" /\ disconnects < MaxDisconnects /\ MoreTrouble
  /\ \/ Send("DISCONNECT") /\ app' = "down"
     \/ ~HasRoom /\ app' = "put_disconnect" /\ UNCHANGED msgq
  /\ disconnects' = disconnects + 1
  /\ UNCHANGED <<gc, mqtt, pub, flags, gc_connected_sem, reconnect_timer, session,
                 drops, failures, late>>

\* There is room for the put that gcloud_connect or gcloud_disconnect waits with.
AppPut ==
  /\ \/ app = "put_connect" /\ Send("CONNECT") /\ app' = "wait"
     \/ app = "put_disconnect" /\ Send("DISCONNECT") /\ app' = "down"
  /\ UNCHANGED <<gc, mqtt, pub, flags, gc_connected_sem, reconnect_timer, session, bounds>>

\* Where the application goes on when that put fails: gcloud_connect logs the error
\* and waits all the same, gcloud_disconnect returns it.
AppPutFailed ==
  CASE app = "put_connect"    -> "wait_failed"
    [] app = "put_disconnect" -> "up"
    [] OTHER                  -> app

AppPutTimeout ==
  /\ app \in {"put_connect", "put_disconnect"} /\ PutLasts
  /\ app' = AppPutFailed
  /\ UNCHANGED <<msgq, gc, mqtt, pub, flags, gc_connected_sem, reconnect_timer, session,
                 drops, failures, disconnects>>

\* gcloud_publish and gcloud_publish_state: refused unless connected.
PublishCheck(p) ==
  /\ pub[p] = "idle" /\ connected
  /\ pub' = [pub EXCEPT ![p] = "checked"]
  /\ UNCHANGED <<msgq, gc, mqtt, app, flags, gc_connected_sem, reconnect_timer, session, bounds>>

\* Their k_msgq_put_atomic: queued at once, or when room is made.
PublishPut(p) ==
  /\ pub[p] \in {"checked", "blocked"}
  /\ Send("PUBLISH")
  /\ pub' = [pub EXCEPT ![p] = "idle"]
  /\ UNCHANGED <<gc, mqtt, app, flags, gc_connected_sem, reconnect_timer, session, bounds>>

PublishBlock(p) ==
  /\ pub[p] = "checked" /\ ~HasRoom
  /\ pub' = [pub EXCEPT ![p] = "blocked"]
  /\ UNCHANGED <<msgq, gc, mqtt, app, flags, gc_connected_sem, reconnect_timer, session, bounds>>

\* The put gives up after 100 s.
PublishTimeout(p) ==
  /\ pub[p] = "blocked" /\ PutLasts
  /\ pub' = [pub EXCEPT ![p] = "idle"]
  /\ UNCHANGED <<msgq, gc, mqtt, app, flags, gc_connected_sem, reconnect_timer, session,
                 drops, failures, disconnects>>

\* Mutant: the handler puts without regard to the queue's capacity.
MutTimerOverfills ==
  /\ reconnect_timer
  /\ msgq' = Append(msgq, "RECONNECT_TIMEOUT")
  /\ UNCHANGED <<gc, mqtt, app, pub, flags, gc_connected_sem, reconnect_timer, session, bounds>>

\* reconnect_timer_handler, in interrupt context: dropped if the queue is full,
\* until the timer's next period.
ReconnectTimer ==
  /\ reconnect_timer
  /\ Send("RECONNECT_TIMEOUT") \/ (~HasRoom /\ UNCHANGED msgq)
  /\ UNCHANGED <<gc, mqtt, app, pub, flags, gc_connected_sem, reconnect_timer, session, bounds>>

-----------------------------------------------------------------------------
(* mqtt_event_handler, MQTT_EVT_DISCONNECT: stop the timer and purge the      *)
(* queue, which fails the puts that wait on it; when the connection was       *)
(* wanted, abort the mqtt thread and reconnect.  `by' is the thread that      *)
(* delivers the event, `wanted' is connected || connecting.  Aborting itself  *)
(* the mqtt thread does not get as far as gcloud_connect.                     *)

Purge ==
  /\ reconnect_timer' = FALSE
  /\ msgq' = <<>>
  /\ pub' = [p \in Publishers |-> IF pub[p] = "blocked" THEN "idle" ELSE pub[p]]
  /\ app' = AppPutFailed

\* Where the event leaves the mqtt thread: ended, or running on, its put of
\* SUBSCRIBE failed by the purge or still to come.
Interrupted(by, wanted) ==
  IF wanted \/ by = "mqtt" THEN {"none"}
  ELSE IF mqtt = "subscribe" THEN {"poll", "subscribe"} ELSE {mqtt}

\* Mutant: k_msgq_purge is left out.
MutNoPurge(by, wanted) ==
  /\ reconnect_timer' = FALSE /\ UNCHANGED <<msgq, pub, app>>
  /\ mqtt' \in Interrupted(by, wanted)
  /\ gc' = IF by = "gc" THEN IF wanted THEN "put_connect" ELSE "get" ELSE gc

\* Mutant: k_thread_abort is left out.
MutNoThreadAbort(by, wanted) ==
  /\ Purge
  /\ mqtt' \in Interrupted(by, FALSE)
  /\ gc' = IF by = "gc" THEN IF wanted THEN "put_connect" ELSE "get" ELSE gc

\* Mutant: the timer is left running, and the reconnection left to it.
MutLeaveToTimer(by, wanted) ==
  /\ msgq' = <<>>
  /\ mqtt' \in Interrupted(by, wanted)
  /\ gc' = IF by = "gc" THEN "get" ELSE gc
  /\ UNCHANGED <<pub, app, reconnect_timer>>

DisconnectEvent(by, wanted) ==
  /\ Purge
  /\ mqtt' \in Interrupted(by, wanted)
  /\ gc' = IF by = "gc" THEN IF wanted THEN "put_connect" ELSE "get" ELSE gc

-----------------------------------------------------------------------------
(* The gc thread. *)

\* Take the next command and begin to carry it out.  For CONNECT a flag is set
\* before the network is used.
GcGet ==
  /\ gc = "get" /\ msgq # <<>>
  /\ gc' = Head(msgq) /\ msgq' = Tail(msgq)
  /\ connecting' = (connecting \/ gc' = "CONNECT")
  /\ UNCHANGED <<mqtt, app, pub, connected, gc_connected_sem, reconnect_timer, session, bounds>>

Fails == failures < MaxFailures /\ MoreTrouble /\ failures' = failures + 1

\* CONNECT: initialise the client, open a connection (a failure is logged) and
\* start an mqtt thread.
GcConnect ==
  /\ gc = "CONNECT"
  /\ \/ client' = "tcp" /\ reply' = "pending" /\ UNCHANGED failures
     \/ Fails /\ client' = "idle" /\ reply' = "none"
  /\ link' = "up" /\ subscribed' = FALSE
  /\ mqtt' = "poll"
  /\ gc' = "get"
  /\ UNCHANGED <<msgq, app, pub, flags, gc_connected_sem, reconnect_timer,
                 drops, disconnects, late>>

\* PUBLISH, PUBLISH_STATE and SUBSCRIBE: a packet is sent, or refused by the
\* client, or lost on a broken connection.
GcSend ==
  /\ gc \in {"PUBLISH", "SUBSCRIBE"}
  /\ gc' = "get"
  /\ subscribed' = (subscribed \/ (/\ gc = "SUBSCRIBE" /\ connected
                                   /\ client = "connected" /\ link = "up"))
  /\ UNCHANGED <<msgq, mqtt, app, pub, flags, gc_connected_sem, reconnect_timer,
                 client, link, reply, bounds>>

\* The send finds the connection broken: the library closes the client and
\* delivers DISCONNECT in the gc thread.
GcSendFails ==
  /\ gc \in {"PUBLISH", "SUBSCRIBE"} /\ connected
  /\ client = "connected" /\ link = "broken"
  /\ client' = "idle" /\ reply' = "none"
  /\ DisconnectEvent("gc", TRUE)
  /\ UNCHANGED <<flags, gc_connected_sem, link, subscribed, bounds>>

\* RECONNECT_TIMEOUT and DISCONNECT: mqtt_disconnect, which delivers DISCONNECT
\* in the gc thread; only the first wants a new connection.
GcDisconnect ==
  /\ gc \in {"RECONNECT_TIMEOUT", "DISCONNECT"} /\ connected
  /\ connected' = FALSE /\ connecting' = (gc = "RECONNECT_TIMEOUT")
  /\ IF client = "connected"
     THEN client' = "idle" /\ reply' = "none" /\ DisconnectEvent("gc", connecting')
     ELSE /\ reconnect_timer' = FALSE /\ gc' = "get"
          /\ UNCHANGED <<msgq, mqtt, app, pub, client, reply>>
  /\ UNCHANGED <<gc_connected_sem, link, subscribed, bounds>>

GcDisconnectIgnored ==
  /\ gc \in {"RECONNECT_TIMEOUT", "DISCONNECT"} /\ ~connected
  /\ gc' = "get"
  /\ UNCHANGED <<msgq, mqtt, app, pub, flags, gc_connected_sem, reconnect_timer, session, bounds>>

\* gcloud_connect called by the event handler in the gc thread.  This thread
\* is the queue's only reader: on a full queue CONNECT is lost.
GcPutConnect ==
  /\ gc = "put_connect"
  /\ Send("CONNECT") \/ (~HasRoom /\ UNCHANGED msgq)
  /\ gc' = "wait_sem"
  /\ UNCHANGED <<mqtt, app, pub, flags, gc_connected_sem, reconnect_timer, session, bounds>>

\* It then waits for a connection that it would itself have to make: a token
\* left from an earlier CONNACK, or 100 s.
GcWaitSem ==
  /\ gc = "wait_sem"
  /\ gc_connected_sem' = 0
  /\ gc' = "get"
  /\ UNCHANGED <<msgq, mqtt, app, pub, flags, reconnect_timer, session, bounds>>

-----------------------------------------------------------------------------
(* The mqtt thread. *)

\* MQTT_EVT_CONNACK: the semaphore is given first, which starts a waiting
\* application, of higher priority, at once...
MqttConnack ==
  /\ mqtt = "poll" /\ reply = "connack"
  /\ reply' = "none" /\ client' = "connected"
  /\ IF Waiting THEN app' = Returned /\ UNCHANGED gc_connected_sem
                ELSE gc_connected_sem' = 1 /\ UNCHANGED app
  /\ mqtt' = "connack"
  /\ UNCHANGED <<msgq, gc, pub, flags, reconnect_timer, link, subscribed, bounds>>

\* Mutant: the flags are set but the timer is started only for the first
\* connection, that of a device that was not connected before.
MutTimerOnlyFirst ==
  /\ mqtt = "connack"
  /\ connected' = TRUE /\ connecting' = FALSE
  /\ reconnect_timer' = ~connected
  /\ mqtt' = "subscribe"
  /\ UNCHANGED <<msgq, gc, app, pub, gc_connected_sem, session, bounds>>

\* ... then the flags and the timer are set,
MqttConnected ==
  /\ mqtt = "connack"
  /\ connected' = TRUE /\ connecting' = FALSE
  /\ reconnect_timer' = TRUE
  /\ mqtt' = "subscribe"
  /\ UNCHANGED <<msgq, gc, app, pub, gc_connected_sem, session, bounds>>

\* Mutant: SUBSCRIBE is put with K_NO_WAIT.
MutSubscribeNoWait ==
  /\ mqtt = "subscribe"
  /\ Send("SUBSCRIBE") \/ (~HasRoom /\ UNCHANGED msgq)
  /\ mqtt' = "poll"
  /\ UNCHANGED <<gc, app, pub, flags, gc_connected_sem, reconnect_timer, session, bounds>>

\* and SUBSCRIBE is queued as soon as there is room.
MqttSubscribe ==
  /\ mqtt = "subscribe"
  /\ Send("SUBSCRIBE")
  /\ mqtt' = "poll"
  /\ UNCHANGED <<gc, app, pub, flags, gc_connected_sem, reconnect_timer, session, bounds>>

\* Its put gives up after 100 s, which is logged.
MqttSubscribeTimeout ==
  /\ mqtt = "subscribe" /\ PutLasts
  /\ mqtt' = "poll"
  /\ UNCHANGED <<msgq, gc, app, pub, flags, gc_connected_sem, reconnect_timer, session,
                 drops, failures, disconnects>>

\* A refused connection is only logged.
MqttRefused ==
  /\ mqtt = "poll" /\ reply = "refused"
  /\ reply' = "none"
  /\ UNCHANGED <<msgq, gc, mqtt, app, pub, flags, gc_connected_sem, reconnect_timer,
                 client, link, subscribed, bounds>>

\* MQTT_EVT_PUBLISH, a configuration: it is read and handed to the callback;
\* of one of two bytes or less the payload is left unread.
MqttConfig ==
  /\ mqtt = "poll" /\ reply \in {"config", "short_config"}
  /\ reply' = IF reply = "config" THEN "none" ELSE "unread"
  /\ UNCHANGED <<msgq, gc, mqtt, app, pub, flags, gc_connected_sem, reconnect_timer,
                 client, link, subscribed, bounds>>

\* Whatever comes next, if only the answer to a ping, mqtt_input returns -EBUSY
\* over an unread payload, and the thread ends.
MqttBusy ==
  /\ mqtt = "poll" /\ reply = "unread"
  /\ mqtt' = "none"
  /\ UNCHANGED <<msgq, gc, app, pub, flags, gc_connected_sem, reconnect_timer, session, bounds>>

\* mqtt_input or mqtt_live finds the connection closed: the library closes the
\* client and delivers DISCONNECT in the mqtt thread.
MqttClosed ==
  /\ mqtt = "poll" /\ client # "idle" /\ link = "broken" /\ reply \in {"none", "unread"}
  /\ client' = "idle" /\ reply' = "none"
  /\ DisconnectEvent("mqtt", connected \/ connecting)
  /\ UNCHANGED <<flags, gc_connected_sem, link, subscribed, bounds>>

\* Mutant: the -EAGAIN of mqtt_live, "nothing to do", is taken for an error.
MutEagainIsError ==
  /\ mqtt = "poll"
  /\ mqtt' = "none"
  /\ UNCHANGED <<msgq, gc, app, pub, flags, gc_connected_sem, reconnect_timer, session, bounds>>

\* POLLNVAL on a closed socket, POLLERR or a poll error: the thread ends.
MqttExit ==
  /\ mqtt = "poll"
  /\ client = "idle" \/ (link = "broken" /\ reply \in {"none", "unread"})
  /\ mqtt' = "none"
  /\ UNCHANGED <<msgq, gc, app, pub, flags, gc_connected_sem, reconnect_timer, session, bounds>>

-----------------------------------------------------------------------------
(* The broker and the network. *)

BrokerAnswer ==
  /\ reply = "pending"
  /\ \/ reply' = "connack" /\ UNCHANGED failures
     \/ reply' = "refused" /\ Fails
  /\ UNCHANGED <<msgq, gc, mqtt, app, pub, flags, gc_connected_sem, reconnect_timer,
                 client, link, subscribed, drops, disconnects, late>>

\* A new configuration, on the subscribed topic.
BrokerConfig ==
  /\ subscribed /\ client = "connected" /\ link = "up" /\ reply = "none"
  /\ reply' \in {"config", "short_config"}
  /\ UNCHANGED <<msgq, gc, mqtt, app, pub, flags, gc_connected_sem, reconnect_timer,
                 client, link, subscribed, bounds>>

LinkDrop ==
  /\ client # "idle" /\ link = "up" /\ drops < MaxDrops /\ MoreTrouble
  /\ link' = "broken"
  /\ reply' = IF reply = "pending" THEN "none" ELSE reply
  /\ drops' = drops + 1
  /\ UNCHANGED <<msgq, gc, mqtt, app, pub, flags, gc_connected_sem, reconnect_timer,
                 client, subscribed, failures, disconnects, late>>

-----------------------------------------------------------------------------
Publish(p) == PublishCheck(p) \/ PublishPut(p) \/ PublishBlock(p) \/ PublishTimeout(p)
GcThread ==
  GcGet \/ GcConnect \/ GcSend \/ GcSendFails \/ GcDisconnect \/ GcDisconnectIgnored
    \/ GcPutConnect \/ GcWaitSem
MqttThread == \/ MqttConnack \/ MqttConnected \/ MqttSubscribe \/ MqttSubscribeTimeout
              \/ MqttRefused \/ MqttConfig \/ MqttBusy \/ MqttClosed \/ MqttExit
App == AppConnect \/ AppConnected \/ AppConnectTimeout \/ AppPut \/ AppPutTimeout

Next ==
  \/ App \/ AppDisconnect
  \/ \E p \in Publishers : Publish(p)
  \/ ReconnectTimer
  \/ GcThread \/ MqttThread
  \/ BrokerAnswer \/ BrokerConfig \/ LinkDrop

Spec == Init /\ [][Next]_vars

\* The threads are not starved (a publisher need not publish, nor the
\* application reconnect, but each completes what it has begun), the broker answers,
\* the timer fires.  MqttSubscribe waits in the queue's list of writers, so it gets
\* its turn among publishers.
Fairness ==
  /\ WF_vars(app # "down" /\ App) /\ WF_vars(GcThread) /\ WF_vars(MqttThread)
  /\ SF_vars(MqttSubscribe)
  /\ \A p \in Publishers : WF_vars(PublishPut(p) \/ PublishBlock(p) \/ PublishTimeout(p))
  /\ WF_vars(BrokerAnswer) /\ WF_vars(ReconnectTimer)

FairSpec == Spec /\ Fairness

-----------------------------------------------------------------------------
(* Properties. *)

Benign == drops = 0 /\ failures = 0 /\ disconnects = 0

\* Every variable has its type, and the queue keeps to its capacity.
TypeOK ==
  /\ msgq \in Seq(Commands) /\ Len(msgq) <= N_MESSAGES
  /\ gc \in {"get", "put_connect", "wait_sem"} \cup Commands
  /\ mqtt \in {"none", "poll", "connack", "subscribe"}
  /\ app \in {"start", "wait", "wait_failed", "up", "down", "put_connect", "put_disconnect"}
  /\ pub \in [Publishers -> {"idle", "checked", "blocked"}]
  /\ connected \in BOOLEAN /\ connecting \in BOOLEAN
  /\ gc_connected_sem \in 0 .. 1 /\ reconnect_timer \in BOOLEAN
  /\ client \in {"idle", "tcp", "connected"} /\ link \in {"up", "broken"}
  /\ reply \in {"none", "pending", "connack", "refused",
                 "config", "short_config", "unread"}
  /\ failures \in 0 .. MaxFailures /\ subscribed \in BOOLEAN
  /\ drops \in 0 .. MaxDrops /\ disconnects \in 0 .. MaxDisconnects /\ late \in 0 .. MaxLate

\* The one struct k_thread and stack of the mqtt thread are never given to
\* k_thread_create while the previous mqtt thread still runs on them.
\* (Not so once the application has disconnected and connects again.)
OneMqttThread == [][GcConnect => (mqtt = "none" \/ disconnects > 0)]_vars

\* The CONNECT of a renewal is never lost to a full queue: the purge before it
\* makes room, and with connected cleared only publishers already past their
\* check can use it up (so there must be fewer of them than entries).
\* (The application's own commands may take that room: they decide then.)
RenewalHasRoom ==
  (gc = "put_connect" /\ ~connected)
    => HasRoom \/ {"CONNECT", "DISCONNECT"} \cap Range(msgq) # {}

\* Every established connection is marked as such and has its renewal timer
\* running, whichever thread met the end of the connection before and whatever the
\* application asked for in between.  (How long after the token was made the timer
\* fires, and whether the command it puts finds room, is another matter.)
RenewalArmed ==
  (client = "connected" /\ mqtt # "connack") => (connected /\ reconnect_timer)

\* gcloud_disconnect "Disconnects the device from Google Cloud" (gcloud.h:71):
\* a device disconnected for good ends up without a connection.
DisconnectHonoured == <>[](app = "down") => <>[](client = "idle")

\* gcloud_connect returns "an error code indicating reason for failure"
\* (gcloud.h:50), and after a 0 main logs "Connected to Google Cloud" (main.c:426):
\* when it reports success the device is connected.
ConnectReturnsConnected == [][(app = "wait" /\ app' = "up") => client' = "connected"]_vars

\* The device is connected again and again, through every renewal, and (so
\* gcloud.c:488) also when "something has gone wrong".
KeepsReconnecting == []<>(client = "connected" /\ link = "up")

\* An established connection has its mqtt thread, which hands configurations to
\* the application and keeps the connection alive, through every renewal and
\* reconnection; only a payload left unread ends it before the connection.
ReceiverRuns ==
  (client = "connected" /\ link = "up") => (mqtt # "none" \/ reply = "unread")

\* Each connection gets its subscription (gcloud.h:41: "and subscribes to
\* Google Cloud's configuration topic"): however full the queue was, SUBSCRIBE
\* has been sent, is being sent, or waits in the queue once the CONNACK has been
\* handled.  (Only a network call that outlasts the put's 100 s can cost it.)
SubscriptionNotLost ==
  (client = "connected" /\ link = "up" /\ connected /\ mqtt = "poll" /\ late = 0)
    => (subscribed \/ gc = "SUBSCRIBE" \/ "SUBSCRIBE" \in Range(msgq))
=============================================================================
