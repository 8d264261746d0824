------------------------------ MODULE MqttWork ------------------------------
(***************************************************************************)
(* cellular/mqtt_work (src/main.c): a sensor that wakes up for periodic    *)
(* samples and for alarms, brings up LTE and an MQTT session, publishes    *)
(* with QoS 1, and goes back to flight mode.                               *)
(*                                                                         *)
(* Two threads share one MQTT client.  The worker of app_work_q runs the   *)
(* work items publish_alarm and publish_samples: it sends, and waits on    *)
(* semaphores.  The main thread polls the socket and runs                  *)
(* mqtt_evt_handler, which gives those semaphores.  Main has priority 0,   *)
(* the worker WORK_PRIORITY 5: the worker runs only while main is blocked, *)
(* so one pass of main's loop is one action, and a main that spins starves *)
(* the worker.  Kernel timeouts and the button come from interrupts.       *)
(*                                                                         *)
(* The modem, the MQTT library and the broker are external; they are       *)
(* modelled from how main.c uses them.                                     *)
(***************************************************************************)
EXTENDS Integers, Sequences, Functions

CONSTANTS
  TransmissionInterval,  \* timer ticks between two periodic uploads
  SlowAnswers,           \* may an answer take longer than MQTT_TIMEOUT?
  MaxDrops,              \* bound on connections broken by the network
  ConnectMayFail,        \* may lte_lc_connect, mqtt_connect or the broker refuse?
  OfflineMayFail,        \* may lte_lc_offline fail?
  Memory                 \* messages the heap lasts for

ASSUME IntervalAssumption == TransmissionInterval \in Nat \ {0}
ASSUME EnvAssumption == /\ {MaxDrops, Memory} \subseteq Nat
                        /\ {SlowAnswers, ConnectMayFail, OfflineMayFail} \subseteq BOOLEAN

VARIABLES
  main,             \* where the main thread is
  worker,           \* where the worker is
  cur,              \* the work item it is running
  workq,            \* items submitted to app_work_q and not yet started
  minutes,          \* the timer's counter, modulo TransmissionInterval
  app_connected,
  mqtt_connect_ok, mqtt_puback_ok,   \* binary semaphores
  modem,            \* "online", or "offline": flight mode
  client,           \* state of the MQTT client: "idle", "tcp", "connected"
  requests,         \* packets sent that the broker has not answered
  wire,             \* what can be read from the socket
  drops,            \* connections broken so far
  stale_poll,       \* is main polling a socket that is no longer the client's?
  delivered,        \* has the broker got this session's message?
  heap              \* messages there is still memory for

vars == <<main, worker, cur, workq, minutes, app_connected, mqtt_connect_ok,
          mqtt_puback_ok, modem, client, requests, wire, drops, stale_poll, delivered, heap>>

sems    == <<mqtt_connect_ok, mqtt_puback_ok>>
session == <<client, requests, wire, delivered>>
net     == <<drops, stale_poll, heap>>

Items   == {"alarm", "samples"}
Packets == {"connack", "refused", "puback", "closed", "error"}
\* Where the worker is between mqtt_connect and app_disconnect.
InSession == {"wait_connack", "connack_timeout", "publish", "wait_puback",
              "puback_timeout", "acked"}

Init ==
  /\ main = "boot" /\ worker = "idle" /\ cur = "samples"
  /\ workq = <<>> /\ minutes = 0
  /\ app_connected = FALSE
  /\ mqtt_connect_ok = 0 /\ mqtt_puback_ok = 0
  /\ modem = "offline" /\ client = "idle" /\ requests = {} /\ wire = <<>>
  /\ drops = 0 /\ stale_poll = FALSE /\ delivered = FALSE /\ heap = Memory

-----------------------------------------------------------------------------
(* Interrupts: work submission, and the timeouts of k_sem_take. *)

\* How far main has come with its initialisations.
ButtonsOn    == main \notin {"boot", "date_time"}
TimerOn      == ButtonsOn /\ main # "timer"
WorkQStarted == TimerOn /\ main # "work"

\* Mutant: an item that is already queued is queued again.
MutSubmitAlways(item) == workq' = Append(workq, item)

\* k_work_submit_to_queue does nothing for an item that is still queued.  What is
\* submitted before init_work is lost: k_work_q_start initialises the queue and
\* k_work_init the items, whatever they held.
Submit(item) ==
  workq' = IF item \in Range(workq) \/ ~WorkQStarted THEN workq ELSE Append(workq, item)

ButtonHandler ==
  /\ ButtonsOn
  /\ Submit("alarm")
  /\ UNCHANGED <<main, worker, cur, minutes, app_connected, sems, modem, session, net>>

\* Mutant: the counter is compared with the interval, not taken modulo it.
MutTimerNeverDue ==
  /\ TimerOn
  /\ minutes' = (minutes + 1) % TransmissionInterval
  /\ IF minutes' = TransmissionInterval THEN Submit("samples") ELSE UNCHANGED workq
  /\ UNCHANGED <<main, worker, cur, app_connected, sems, modem, session, net>>

AppTimerHandler ==
  /\ TimerOn
  /\ minutes' = (minutes + 1) % TransmissionInterval
  /\ IF minutes' = 0 THEN Submit("samples") ELSE UNCHANGED workq
  /\ UNCHANGED <<main, worker, cur, app_connected, sems, modem, session, net>>

\* No answer can come any more, or nobody will read it, or it may come too late.
AnswerLate(request) ==
  SlowAnswers \/ main = "done" \/ (request \notin requests /\ wire = <<>>)

\* MQTT_TIMEOUT expires on a waiting worker, which is made ready and will see
\* the error when it next gets the CPU.
ConnackTimeout ==
  /\ worker = "wait_connack" /\ mqtt_connect_ok = 0 /\ AnswerLate("connect")
  /\ worker' = "connack_timeout"
  /\ UNCHANGED <<main, cur, workq, minutes, app_connected, sems, modem, session, net>>

\* Mutant: publish_alarm waits K_FOREVER.
MutAlarmWaitsForever ==
  /\ worker = "wait_puback" /\ cur = "samples" /\ mqtt_puback_ok = 0
  /\ AnswerLate("publish")
  /\ worker' = "puback_timeout"
  /\ UNCHANGED <<main, cur, workq, minutes, app_connected, sems, modem, session, net>>

\* Only publish_alarm has a timeout here: publish_samples waits K_FOREVER.
PubackTimeout ==
  /\ worker = "wait_puback" /\ cur = "alarm" /\ mqtt_puback_ok = 0
  /\ AnswerLate("publish")
  /\ worker' = "puback_timeout"
  /\ UNCHANGED <<main, cur, workq, minutes, app_connected, sems, modem, session, net>>

-----------------------------------------------------------------------------
(* The broker and the network. *)

BrokerConnack ==
  /\ "connect" \in requests
  /\ requests' = requests \ {"connect"}
  /\ \/ wire' = Append(wire, "connack")
     \/ ConnectMayFail /\ wire' = Append(wire, "refused")
  /\ UNCHANGED <<main, worker, cur, workq, minutes, app_connected, sems, modem,
                 client, net, delivered>>

BrokerPuback ==
  /\ "publish" \in requests
  /\ requests' = requests \ {"publish"}
  /\ wire' = Append(wire, "puback")
  /\ delivered' = TRUE
  /\ UNCHANGED <<main, worker, cur, workq, minutes, app_connected, sems, modem,
                 client, net>>

\* The connection breaks: nothing is answered any more, and after what has
\* arrived already the socket reports a close or an error.
NetworkDrop(how) ==
  /\ client # "idle" /\ drops < MaxDrops
  /\ drops' = drops + 1
  /\ requests' = {}
  /\ wire' = Append(wire, how)
  /\ UNCHANGED <<main, worker, cur, workq, minutes, app_connected, sems, modem,
                 client, delivered, stale_poll, heap>>

-----------------------------------------------------------------------------
(* The main thread. *)

\* modem_configure, retried until the link is up.
MainModemConfigure ==
  /\ main = "boot"
  /\ main' = "date_time"
  /\ modem' = "online"
  /\ UNCHANGED <<worker, cur, workq, minutes, app_connected, sems, session, net>>

\* Every outcome of the time update gives date_time_ok; then client_init,
\* buttons_leds_init, timer_init and init_work.
MainInit ==
  /\ \/ main = "date_time" /\ main' = "timer"
     \/ main = "timer" /\ main' = "work"
     \/ main = "work" /\ main' = "offline"
  /\ UNCHANGED <<worker, cur, workq, minutes, app_connected, sems, modem, session, net>>

Loop == IF app_connected THEN "poll" ELSE "sleep"

\* lte_lc_offline, with the worker already started.
MainOffline ==
  /\ main = "offline"
  /\ \/ modem' = "offline"
     \/ OfflineMayFail /\ UNCHANGED modem
  /\ main' = Loop
  /\ UNCHANGED <<worker, cur, workq, minutes, app_connected, sems, session, net>>

MainSleep ==
  /\ main = "sleep"
  /\ main' = Loop
  /\ UNCHANGED <<worker, cur, workq, minutes, app_connected, sems, modem, session, net>>

\* poll returns for data, for an error and for a socket that was closed.
PollReturns == main = "poll" /\ ~stale_poll /\ (wire # <<>> \/ client = "idle")

\* Disconnected during poll.
MainPollStale ==
  /\ PollReturns /\ ~app_connected
  /\ main' = Loop
  /\ UNCHANGED <<worker, cur, workq, minutes, app_connected, sems, modem, session, net>>

\* poll was entered for a socket that the client has since abandoned: it
\* returns when the keep-alive time is over.
MainPollTimeout ==
  /\ main = "poll" /\ stale_poll
  /\ stale_poll' = FALSE
  /\ main' = Loop
  /\ UNCHANGED <<worker, cur, workq, minutes, app_connected, sems, modem, session, drops, heap>>

\* Mutant: a PUBACK does not give mqtt_puback_ok.
MutPubackNotGiven ==
  /\ PollReturns /\ app_connected /\ wire # <<>> /\ Head(wire) # "error"
  /\ client' = IF Head(wire) = "connack" THEN "connected"
               ELSE IF Head(wire) = "closed" THEN "idle" ELSE client
  /\ wire' = IF Head(wire) = "closed" THEN <<>> ELSE Tail(wire)
  /\ mqtt_connect_ok' = IF Head(wire) = "connack" THEN 1 ELSE mqtt_connect_ok
  /\ UNCHANGED <<main, worker, cur, workq, minutes, app_connected,
                 mqtt_puback_ok, modem, requests, net, delivered>>

\* POLLIN: mqtt_input reads one packet and calls mqtt_evt_handler, which gives
\* a semaphore for an accepted connection and for a PUBACK.  A refusal is only
\* logged, and so is a closed connection: it idles the client, but
\* app_connected stays.
MainInput ==
  /\ PollReturns /\ app_connected /\ wire # <<>> /\ Head(wire) # "error"
  /\ client' = IF Head(wire) = "connack" THEN "connected"
               ELSE IF Head(wire) = "closed" THEN "idle" ELSE client
  /\ wire' = IF Head(wire) = "closed" THEN <<>> ELSE Tail(wire)
  /\ mqtt_connect_ok' = IF Head(wire) = "connack" THEN 1 ELSE mqtt_connect_ok
  /\ mqtt_puback_ok' = IF Head(wire) = "puback" THEN 1 ELSE mqtt_puback_ok
  /\ UNCHANGED <<main, worker, cur, workq, minutes, app_connected, modem,
                 requests, net, delivered>>

\* POLLNVAL on the closed socket while mqtt_live has no ping to send: main
\* goes round its loop without ever blocking.
MainSpin ==
  /\ PollReturns /\ app_connected /\ client = "idle"
  /\ UNCHANGED vars

\* break: a poll error, or a ping that is due with the client not connected
\* (its last activity reset, this is so as soon as the keep-alive time has
\* passed since boot).  Main disconnects the client and ends.
MainBreak ==
  /\ PollReturns /\ app_connected
  /\ client = "idle" \/ (wire # <<>> /\ Head(wire) = "error")
  /\ main' = "done"
  /\ IF client = "connected"
     THEN client' = "idle" /\ wire' = <<>> /\ requests' = {}
     ELSE UNCHANGED <<client, wire, requests>>
  /\ UNCHANGED <<worker, cur, workq, minutes, app_connected, sems, modem, net, delivered>>

-----------------------------------------------------------------------------
(* The worker: publish_alarm and publish_samples. *)

\* Main, of higher priority, is blocked or has ended.
MainBlocked == main \in {"offline", "sleep", "poll", "done"} /\ ~PollReturns

WorkStart ==
  /\ MainBlocked
  /\ worker = "idle" /\ workq # <<>>
  /\ cur' = Head(workq) /\ workq' = Tail(workq)
  /\ worker' = "lte"
  /\ UNCHANGED <<main, minutes, app_connected, sems, modem, session, net>>

\* app_connect: lte_lc_connect, retried without limit.
LteConnect ==
  /\ MainBlocked
  /\ worker = "lte"
  /\ modem' = "online" /\ worker' = "connect"
  /\ UNCHANGED <<main, cur, workq, minutes, app_connected, sems, session, net>>

LteConnectFails ==
  /\ MainBlocked /\ ConnectMayFail
  /\ worker = "lte"
  /\ UNCHANGED vars

\* mqtt_connect opens a new connection, whatever the client's state, and
\* sends CONNECT; fds_init cannot fail without TLS.  It takes a network round
\* trip, by which time main, of higher priority, has done its AT command.
MqttConnect ==
  /\ MainBlocked
  /\ worker = "connect" /\ modem = "online" /\ main # "offline"
  /\ client' = "tcp" /\ requests' = {"connect"} /\ wire' = <<>> /\ delivered' = FALSE
  /\ app_connected' = TRUE
  /\ worker' = "wait_connack"
  /\ stale_poll' = (main = "poll")
  /\ UNCHANGED <<main, cur, workq, minutes, sems, modem, drops, heap>>

MqttConnectFails ==
  /\ MainBlocked
  /\ worker = "connect" /\ (modem = "offline" \/ ConnectMayFail) /\ main # "offline"
  /\ client' = "idle" /\ requests' = {} /\ wire' = <<>> /\ delivered' = FALSE
  /\ worker' = "connect_failed"
  /\ stale_poll' = (main = "poll")
  /\ UNCHANGED <<main, cur, workq, minutes, app_connected, sems, modem, drops, heap>>

\* Mutant: the wait for mqtt_connect_ok does not wait.
MutNoConnackWait ==
  /\ MainBlocked
  /\ worker = "wait_connack"
  /\ mqtt_connect_ok' = 0
  /\ worker' = "publish"
  /\ UNCHANGED <<main, cur, workq, minutes, app_connected, mqtt_puback_ok, modem,
                 session, net>>

\* k_sem_take(&mqtt_connect_ok, MQTT_TIMEOUT) succeeds...
TakeConnectOk ==
  /\ MainBlocked
  /\ worker = "wait_connack" /\ mqtt_connect_ok = 1
  /\ mqtt_connect_ok' = 0
  /\ worker' = "publish"
  /\ UNCHANGED <<main, cur, workq, minutes, app_connected, mqtt_puback_ok, modem,
                 session, net>>

\* ... or has timed out.
ConnectTimedOut ==
  /\ MainBlocked
  /\ worker = "connack_timeout"
  /\ app_connected' = FALSE
  /\ worker' = "connect_failed"
  /\ UNCHANGED <<main, cur, workq, minutes, sems, modem, session, net>>

Broken == {"closed", "error"} \cap Range(wire) # {}
CloseSession == client' = "idle" /\ requests' = {} /\ wire' = <<>>

\* create_message, which frees neither of the two texts it prints, and
\* data_publish, its result ignored: mqtt_publish sends only when connected;
\* on a broken connection the message is lost, or the error idles the client.
Publish ==
  /\ MainBlocked
  /\ worker = "publish" /\ heap > 0
  /\ heap' = heap - 1
  /\ worker' = "wait_puback"
  /\ \/ /\ client = "connected" /\ ~Broken
        /\ requests' = requests \cup {"publish"}
        /\ UNCHANGED <<client, wire>>
     \/ client = "connected" /\ Broken /\ CloseSession
     \/ (client = "connected" => Broken) /\ UNCHANGED <<client, wire, requests>>
  /\ UNCHANGED <<main, cur, workq, minutes, app_connected, sems, modem, drops, stale_poll,
                 delivered>>

\* Mutant: a message without memory is not sent, but waited for.
MutSkipMessage ==
  /\ MainBlocked
  /\ worker = "publish" /\ heap = 0
  /\ worker' = "wait_puback"
  /\ UNCHANGED <<main, cur, workq, minutes, app_connected, sems, modem, session, net>>

\* Without memory create_message takes the length of a null pointer, and the
\* fatal error handler reboots the device.
OutOfMemory ==
  /\ MainBlocked
  /\ worker = "publish" /\ heap = 0
  /\ main' = "boot" /\ worker' = "idle" /\ cur' = "samples"
  /\ workq' = <<>> /\ minutes' = 0
  /\ app_connected' = FALSE
  /\ mqtt_connect_ok' = 0 /\ mqtt_puback_ok' = 0
  /\ modem' = "offline" /\ client' = "idle" /\ requests' = {} /\ wire' = <<>>
  /\ stale_poll' = FALSE /\ delivered' = FALSE /\ heap' = Memory
  /\ UNCHANGED drops

\* Mutant: the wait for mqtt_puback_ok does not wait.
MutNoAckWait ==
  /\ MainBlocked
  /\ worker = "wait_puback"
  /\ mqtt_puback_ok' = 0
  /\ worker' = "acked"
  /\ UNCHANGED <<main, cur, workq, minutes, app_connected, mqtt_connect_ok, modem,
                 session, net>>

TakePubackOk ==
  /\ MainBlocked
  /\ worker = "wait_puback" /\ mqtt_puback_ok = 1
  /\ mqtt_puback_ok' = 0
  /\ worker' = "acked"
  /\ UNCHANGED <<main, cur, workq, minutes, app_connected, mqtt_connect_ok, modem,
                 session, net>>

\* Mutant: the aborted session is left open.
MutNoAbort ==
  /\ MainBlocked
  /\ worker = "connect_failed" /\ ~app_connected
  /\ worker' = "go_offline"
  /\ UNCHANGED <<main, cur, workq, minutes, app_connected, sems, modem, session, net>>

\* app_disconnect when app_connect failed: mqtt_abort.
AppAbort ==
  /\ MainBlocked
  /\ worker = "connect_failed" /\ ~app_connected
  /\ CloseSession
  /\ worker' = "go_offline"
  /\ UNCHANGED <<main, cur, workq, minutes, app_connected, sems, modem, net, delivered>>

\* Mutant: app_connected is not cleared.
MutFlagKept ==
  /\ MainBlocked
  /\ worker \in {"acked", "puback_timeout"}
  /\ \/ client = "connected" /\ CloseSession /\ worker' = "go_offline"
     \/ client = "connected" /\ Broken /\ CloseSession /\ worker' = "idle"
     \/ /\ client # "connected" /\ worker' = "idle"
        /\ UNCHANGED <<client, requests, wire>>
  /\ UNCHANGED <<main, cur, workq, minutes, app_connected, sems, modem, net, delivered>>

\* app_disconnect after a session.  When mqtt_disconnect fails (the client is
\* not connected, or DISCONNECT cannot be sent, which closes it) the function
\* returns, and the modem is not switched off.
AppDisconnect ==
  /\ MainBlocked
  /\ worker \in {"acked", "puback_timeout"}
  /\ app_connected' = FALSE
  /\ \/ client = "connected" /\ CloseSession /\ worker' = "go_offline"
     \/ client = "connected" /\ Broken /\ CloseSession /\ worker' = "idle"
     \/ /\ client # "connected" /\ worker' = "idle"
        /\ UNCHANGED <<client, requests, wire>>
  /\ UNCHANGED <<main, cur, workq, minutes, sems, modem, net, delivered>>

\* Mutant: app_disconnect leaves out lte_lc_offline.
MutStayOnline ==
  /\ MainBlocked
  /\ worker = "go_offline"
  /\ worker' = "idle"
  /\ UNCHANGED <<main, cur, workq, minutes, app_connected, sems, modem, session, net>>

\* The end of app_disconnect: a second's sleep and lte_lc_offline.
AppOffline ==
  /\ MainBlocked
  /\ worker = "go_offline"
  /\ \/ modem' = "offline"
     \/ OfflineMayFail /\ UNCHANGED modem
  /\ worker' = "idle"
  /\ UNCHANGED <<main, cur, workq, minutes, app_connected, sems, session, net>>

-----------------------------------------------------------------------------
Boot     == MainModemConfigure \/ MainInit \/ MainOffline
MainLoop == MainSleep \/ MainPollStale \/ MainPollTimeout \/ MainInput
Work == \/ WorkStart \/ MqttConnect \/ MqttConnectFails \/ TakeConnectOk
        \/ ConnectTimedOut \/ Publish \/ OutOfMemory \/ TakePubackOk \/ AppAbort
        \/ AppDisconnect \/ AppOffline

Next ==
  \/ ButtonHandler \/ AppTimerHandler \/ ConnackTimeout \/ PubackTimeout
  \/ BrokerConnack \/ BrokerPuback
  \/ \E how \in {"closed", "error"} : NetworkDrop(how)
  \/ Boot \/ MainLoop \/ MainSpin \/ MainBreak
  \/ LteConnect \/ LteConnectFails \/ Work

Spec == Init /\ [][Next]_vars

\* Neither thread is starved by the other contexts (a spinning main leaves the
\* worker disabled); the timer ticks, kernel timeouts expire and the uptime
\* passes the keep-alive time; LTE is found in the end; the broker answers.
Fairness ==
  /\ WF_vars(Boot) /\ WF_vars(MainLoop) /\ WF_vars(MainBreak)
  /\ SF_vars(LteConnect) /\ SF_vars(Work)
  /\ WF_vars(AppTimerHandler)
  /\ WF_vars(ConnackTimeout) /\ WF_vars(PubackTimeout)
  /\ WF_vars(BrokerConnack) /\ WF_vars(BrokerPuback)

FairSpec == Spec /\ Fairness

-----------------------------------------------------------------------------
(* Properties. *)

\* Every variable has its type; no work item is queued twice.
TypeOK ==
  /\ main \in {"boot", "date_time", "timer", "work", "offline", "sleep", "poll", "done"}
  /\ worker \in InSession \cup {"idle", "lte", "connect", "connect_failed", "go_offline"}
  /\ cur \in Items
  /\ workq \in Seq(Items) /\ IsInjective(workq)
  /\ minutes \in 0 .. TransmissionInterval - 1
  /\ app_connected \in BOOLEAN /\ delivered \in BOOLEAN
  /\ mqtt_connect_ok \in 0 .. 1 /\ mqtt_puback_ok \in 0 .. 1
  /\ modem \in {"online", "offline"} /\ client \in {"idle", "tcp", "connected"}
  /\ requests \subseteq {"connect", "publish"}
  /\ wire \in Seq(Packets)
  /\ drops \in 0 .. MaxDrops /\ stale_poll \in BOOLEAN /\ heap \in 0 .. Memory

\* The unprotected flag app_connected ("should be mutex protected?") tells
\* main about a session exactly while the worker is in one.
FlagMatchesSession == app_connected <=> worker \in InSession

\* No connection outlives its session: a worker that is not in one has left no
\* open socket behind (the client is closed before the modem goes offline).
NoSocketLeft ==
  worker \in {"idle", "go_offline", "lte", "connect"} => client = "idle"

\* app_connect returns success only once the broker has accepted the
\* connection it opened ("Wait for connection to finish", main.c:589).
ConnectMeansConnected == worker = "publish" => client = "connected"

\* A publish that is taken for acknowledged has reached the broker ("Wait for
\* publish acknowledgement", main.c:509 and 550).
AckMeansDelivered == worker = "acked" => delivered

\* Between uploads the modem is in flight mode (README.rst:7).
FlightModeBetweenUploads ==
  (worker = "idle" /\ workq = <<>> /\ main \in {"sleep", "poll", "done"}) => modem = "offline"

\* The work done and not yet handed to app_disconnect, seen as an upload.
UplinkStage ==
  CASE worker \in {"idle", "go_offline"} -> "none"
    [] worker = "publish" -> "connected"
    [] worker \in {"wait_puback", "puback_timeout", "acked"} ->
         IF delivered THEN "delivered" ELSE "sending"
    [] OTHER -> "connecting"

UL == INSTANCE Uplink WITH
        Requests <- Items,
        Memory   <- Memory,
        heap     <- heap,
        queue    <- workq,
        item     <- (IF UplinkStage = "none" THEN "none" ELSE cur),
        stage    <- UplinkStage

\* The two threads, the two semaphores and the interrupts together implement
\* the service: one message per request, in order, each acknowledged for real.
ImplementsUplink == UL!Spec

\* Work on an item ends with its message at the broker, or with a connection
\* that could not be made (which the code logs, and gives the item up).
Served(item) == /\ cur = item
                /\ \/ worker = "acked" /\ delivered
                   \/ worker = "connect_failed"

\* A queued alarm is delivered to the broker unless connecting fails, be it
\* because main's boot switches the modem off under it (main.c:729), or the
\* memory create_message leaks is used up: then a reboot loses it.
AlarmDelivered == "alarm" \in Range(workq) ~> (Served("alarm") \/ heap = 0)

\* Samples go on being delivered for ever ("periodic uploads", README.rst:6),
\* or attempted as often while connecting fails, until the memory is used up.
PeriodicUploads == []<>(Served("samples") \/ heap = 0)

\* The leak of create_message does not end the uploads for good: the message
\* that finds no memory makes the device start over, unless connecting fails.
MemoryRecovered == heap = 0 ~> (heap > 0 \/ worker = "connect_failed")

\* Whatever the network does, work on an alarm ends: each of its waits is
\* bounded, also after main's loop has ended or has spun on a dead socket.
AlarmWorkEnds == (cur = "alarm" /\ worker # "idle") ~> worker = "idle"
=============================================================================
