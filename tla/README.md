# Verification of ncs_projects

TLA+ models, TLC runs and TLAPS proofs for the firmware samples of this
repository, which target Nordic's nRF Connect SDK (Zephyr). Each sample is a
program of its own; they do not talk to each other. What they share is a style:
a few threads and interrupts joined by Zephyr queues and semaphores, a remote
peer that may be slow or gone, and error paths that mostly log. That is where
they can go wrong, and what the models are about.

Zephyr, the MQTT library, the modem library, the USB and Bluetooth stacks, the
hosts and the brokers are not part of the repository. They are modelled only as
far as the code in `src/` uses them, and marked external.

## 1. Inventory

| Part | State | Operations | Interaction | What is hard |
|---|---|---|---|---|
| **hid_locker pipeline** `bluetooth/hid_locker/src/main.c` | block pool, `evt_fifo`, `evt_sem`, `usb_sem`, reports at the host | `btn0`, `ble_event_handler`, `app_evt_alloc/put/get/free/flush`, `clear_kbd_report`, main's loop, `in_ready_cb` | interrupt, work queue thread and main share pool, queue and semaphores; the USB stack calls back | interleaving in the pool; wake-ups merged by a binary semaphore; an exhausted pool; keys left pressed; a write whose failure nobody sees |
| **hid_locker Bluetooth** `ble.c`, `event_thingy_btn.*` | scanner, connection, discovery, subscription | `ble_init`, `ble_ready`, `scan_start`, `scan_filter_match`, `connected`, `discovery_completed`, `on_received` | called back by the Bluetooth library; submits events to the pipeline | every call may fail and is only printed; no way back after a lost connection |
| **mqtt_work** `cellular/mqtt_work/src/main.c` | MQTT client, modem mode, `app_connected`, two semaphores, work queue | work items `publish_alarm` and `publish_samples` (`app_connect`, `data_publish`, `app_disconnect`), main's poll loop, `mqtt_evt_handler`, timer, button; `create_message` on a heap it leaks | the worker sends and waits; main receives and gives the semaphores; a bare flag tells main about the session | late answers and stale semaphores; half-failed connects and disconnects; starvation; waiting for ever |
| **gcloud client** `cellular/nrf_to_gcloud_with_ble/src/gcloud.c` | `gcloud_msgq` (3 entries), `connected`, `connecting`, semaphore, timer, client, the mqtt thread | `gcloud_connect/disconnect/publish/publish_state`, `gcloud_thread`, `mqtt_thread_func`, `mqtt_event_handler`, `reconnect_timer_handler` | commands through the queue; events in whichever thread met them; the handler kills one thread and calls back into the API | self-abort; the queue's only reader writing to it; a full queue; commands purged with it |
| **gcloud application** `.../src/main.c` | boot semaphores, the scanner | boot, `bt_ready`, `scan_start`, `scan_filter_match` (`WITH_BLE`) | main and the scan callback call the client | main and the Bluetooth thread wait for each other; a refused publish stops the scanner; a pointer into a dead stack frame |
| **spis** `peripheral_nrfx/spis` | two SPI buffers, one semaphore | transfer handler, main's loop | interrupt, main and the DMA share `tx_buffer` | torn frames, merged events, a buffer given back too early |
| **spim**, **timestamp_demo**, **adc**, **i2c**, **i2c_ns**, **spi**, **spm_demo**, **include_demo** | - | one sequential loop or call each | drivers | nothing concurrent; not modelled |

What makes each part correct:

* pipeline: an event is never lost, duplicated or overwritten; main never sleeps
  over one; reports reach the host one at a time; every lock is followed by its
  release; the Bluetooth side finds its Thingy unless a call fails, and its
  presses lock the host;
* mqtt_work: an accepted connection is a connection, an acknowledged message was
  delivered; a session leaves neither socket nor radio on; alarms and samples
  keep going out, in order and once each, and whatever the network or the heap
  does the worker comes back;
* gcloud: the device comes back from each renewal and each loss; commands it
  accepted are carried out; the mqtt thread exists once, and as long as the
  connection; the queue's limit never costs a connection or a subscription; the
  boot does not block itself, and the scanner is lost only where the code gives
  up on it;
* spis: the master can tell how torn a frame may be and how to get whole ones,
  and no transfer is left without a refresh.

`PROJECT.json` lists every hazard at its line with the properties that cover it.

## 2. Modules

| Module | Models | State and actions |
|---|---|---|
| `HidLocker` | the pipeline, with `on_received` | `free`, `evt_fifo`, `event_type`, `evt_sem`, `usb_sem` are the C objects; `pc` tells where each thread is, `ev` and `new` what it holds. The interrupt `btn0` cannot be interrupted by a thread and is one action (two: block left, pool empty). Threads interleave at each access to shared state: `Alloc`, `FlushGet`, `FlushFree`, `Retry`, `NullDeref`, `Put`, `Give` are the steps of `app_evt_alloc`, `app_evt_put` and `k_sem_give`, for either thread. `Main...` are the steps of the loop, `InReadyCb` the host's poll with the callback, `Reset` the reboot after a fault. |
| `KeyLock` | what hid_locker promises | abstract: presses not yet locked, locks not yet released, what the host was told, overload. `HidLocker!KL` maps the pipeline to it: a press is a block of type button anywhere between `btn0`/`ble_event_handler` and the report, an owed release a block of type clear or the one main is about to allocate. |
| `HidSystem` | ble.c around `HidLocker` | `bt`, `scanning`, `conn`, `dm`, `subscribed`; one action per callback, since callbacks run one after the other. `Pipeline` are the steps of `HidLocker`; `ThingyButton` is its `OnReceived`, enabled by a subscription. So what `HidLocker` promises holds here by construction, and only the central's own properties are new. `trouble` records that a call failed or the link was lost. |
| `MC_HidLocker` | - | button values and the symmetry of blocks for TLC |
| `HidLockerProofs`, `KeyLockProofs`, `HidSystemProofs` | - | theorems about `HidLocker`, its refinement of `KeyLock`, and `HidSystem` |
| `MqttWork` | mqtt_work | `worker` and `main` are the two threads, `workq` the submitted items, `client`, `requests`, `wire` the MQTT client, what the broker has yet to answer and what the socket holds. Main has priority 0 and the worker 5, so each action of the worker needs `MainBlocked`, and one pass of main's loop is one action. Boot is not: button, timer and work queue start one after the other (`MainInit`), and an item submitted before `init_work` is lost. `ConnackTimeout`/`PubackTimeout` (the kernel) and `ConnectTimedOut`/`AppDisconnect` (the worker, once it runs again) are apart: between the two main may still handle the late answer. |
| `Uplink` | what mqtt_work's uploads promise | abstract: a queue of requests, the one being served, how far it has got, memory. `MqttWork!UL` maps the two threads, the semaphores and the socket to it. |
| `MqttWorkProofs` | - | theorems about `MqttWork` |
| `Gcloud` | the client, and main's use of it | `gc`, `mqtt`, `app`, `pub` are the threads, `msgq` the queue. `DisconnectEvent(by, wanted)` is the branch of `mqtt_event_handler` as run in thread `by`; `GcPutConnect` and `GcWaitSem` are the `gcloud_connect` it calls there. `GcGet` takes a command and is apart from carrying it out, which may use the network. A put that finds the queue full is a place of its own (`put_connect`, `put_disconnect`, `blocked`, `subscribe`), left when there is room, when the purge fails it, or after 100 s. PUBLISH_STATE is handled as PUBLISH is and is not told apart. |
| `GcloudSystem` | the application around `Gcloud`, built `WITH_BLE` | `boot` is main before and after `gcloud_connect`, `bt` the Bluetooth thread until `scan_start`, with their semaphores `ble_ready` and `connected_to_cloud`. The scan callback is the publisher `Scanner`: `ScanFilterMatch` is its check, `ScannerPut` its put, and `StopIfPutFails` the `scan_stop` when a blocked put fails. Every other step is one of `Gcloud`'s. |
| `GcloudProofs`, `GcloudSystemProofs` | - | theorems about `Gcloud` and `GcloudSystem` |
| `Spis` | the SPI slave | `main` and `handler` are the thread and the interrupt, `armed` who owns the buffers, `pos`, `miso`, `mosi` the transfer the DMA is at. Main writes and the DMA reads byte by byte. |
| `SpisProofs` | - | theorems about `Spis` |
| `QueueLemmas` | - | lemmas on queues, for the proofs about the three programs that have one |

Abstractions, everywhere: payloads, topics, addresses and log lines are left out;
time is a choice of when a timer or time-out fires. A time-out fires only when the
wait can really last so long. `AnswerLate` in `MqttWork` needs `SlowAnswers`, an
answer that cannot come any more, or a main thread that has ended and reads none. In
`Gcloud` a wait of 100 s ends when what it waits for cannot come (the gc thread waits
as long itself, or no connection is being made), or when the network is slow: then the
wait outlasts a network call of the gc thread or the broker's CONNACK (`Outlasts`, up
to `MaxLate` times). This goes for every wait of the client: `gcloud_connect`'s put
and its semaphore, the puts of DISCONNECT, PUBLISH and SUBSCRIBE.

`MqttWork` leaves out the payload of incoming messages (subscribing is commented
out in the code) and the RSRP value, which is written under its mutex and never
read. Of `create_message` it keeps what it costs: memory for one message, never
given back; without any, `strlen` gets a null pointer and the device reboots
(`OutOfMemory`). `Gcloud` leaves out name resolution, TLS and the token; a
failure in them is one of `MaxFailures`. The waits of the handler's `gcloud_connect`
in the mqtt thread do not exist: that thread has aborted itself before. A configuration is handed to the
callback; of a payload of two bytes or less nothing is read, and the next input
ends the mqtt thread (`MqttConfig`, `MqttBusy`). The address test of
`scan_filter_match` is inverted in the code, so nearly every device matches: the
model publishes for each. The text of the message and the stack it lies on are
left out. A `bt_enable` that fails leaves main waiting for `ble_ready`, as in the
code. In `Spis` the master always clocks a whole frame: the handler ignores how many
bytes a transfer brought and would print old ones after a shorter one, so
`PrintedAsSent` is about whole frames only.

## 3. Runs

| Run | Instance | Shows |
|---|---|---|
| `HidLockerSafety` | 4 blocks (symmetric), 1 pending Bluetooth event, button bytes 0, 1, 255, failing writes | types, `BlockOwnership`, `NoLostWakeup`, `UsbToken`, `ReleasePending`, `ImplementsKeyLock` |
| `HidLockerNull` | 3 blocks, fair | violated: NULL from `app_evt_alloc` though the retry succeeded |
| `HidSystem` | 2 blocks, 1 pending event, writes succeed, every Bluetooth call may fail and the link be lost, fair | types, `FindsThingy`, `ThingyPressLocks`, `KeysReleased`, `EventServed` |
| `Spis` | buffers of 4 bytes of 8 values, one frame besides the blank one, fair | types, `TornByThreeAtMost`, `SettledFrameWhole`, `PrintedAsSent`, `RefreshedAfterTransfer` |
| `MqttWorkService` | answers in time, no drops, connects may fail, memory for 3 messages, fair | types, `NoSocketLeft`, `ConnectMeansConnected`, `AckMeansDelivered`, `FlightModeBetweenUploads`, `ImplementsUplink`, `AlarmDelivered`, `PeriodicUploads`, `MemoryRecovered` |
| `MqttWorkFaults` | slow answers, 2 drops, connects and offline may fail, memory for 2 messages, fair | `FlagMatchesSession`, `AlarmWorkEnds` |
| `MqttWorkStalePuback`, `MqttWorkFlightMode` | slow answers | each violated: see findings |
| `GcloudSafety` | the whole application: a scanner and another publisher, queue of 3, any two of: a drop, a failure, a `gcloud_disconnect` and what follows it, a wait that outlasts a slow network; fair | types of both modules, `RenewalHasRoom`, `SubscriptionNotLost`, `RenewalArmed`, `ReceiverRuns`, `OneMqttThread`, `RenewsForEver`, `ScanLostOnlyInRenewal` |
| `GcloudDrop`, `GcloudDisconnectLost`, `GcloudConnectLate` | `Gcloud` alone: 1 drop; 1 `gcloud_disconnect`; 1 slow wait | each violated: see findings |

What the less obvious ones say:

* `ImplementsKeyLock`: a press is turned into one lock and a lock into one
  release, none of them twice; nothing is dropped before presses and releases
  have filled the pool but for one block. Only safety: that a press is served at
  all is `EventServed`.
* `ImplementsUplink`: an item's message reaches the broker once, after an accepted
  connection and before the item is done with; items in the order submitted.
* `RenewsForEver`: without failures (and with Bluetooth working) main and the
  Bluetooth thread get past their waits for each other, and the device is connected
  again and again, also over a slow network.
* `ScanLostOnlyInRenewal`: the scanner is lost when a device is heard while a
  connection is being made, and for no other reason where nothing failed or took
  over 100 s. That it *is* lost then is the code's behaviour, and no text promises
  otherwise. On a slow network it may also be started without a connection
  (`GcloudConnectLate`) or stopped by a put that timed out; both are in the model.
* `RenewalArmed`: a connection past its CONNACK is marked and its timer runs. No more:
  the timer's command may find the queue full, and there is no clock to say whether
  the token is still valid when it fires.
* `RenewalHasRoom`: the CONNECT of a *renewal* finds room. After a send that failed,
  `connected` stays TRUE, publishers may fill the queue again, and the CONNECT of
  that reconnection can be lost.
* `SubscriptionNotLost`: only a network call that keeps the gc thread from the queue
  for 100 s can cost a connection its subscription (the code logs it and goes on).
* `ReceiverRuns`: a live connection has its mqtt thread, but for the unread payload.
* `TornByThreeAtMost`: a transfer may overlap the round main is in, the one owed,
  and bytes older than both, and no more, because `SPI_EVENT` counts to one.

**Bounds.** Four blocks let the interrupt, the listener and main each hold one
with one more queued, and still run out (255 in the code; the proofs hold for any
pool). Two blocks in `HidSystem` run out at once, and they are enough for what is
claimed there: two events can be queued, so that one wake-up may have to do for both
(taking one event per wake-up breaks `EventServed` on this instance), and main can
hold an event and its clear while another is refused. The pending Bluetooth event
arrives while another is handled; the event manager's queue plays no other part.
`TransmissionInterval` is the code's 5. `Memory` counts messages; on the device it
is what the heap has room for, and two or three let it run out in the middle of
either work item. `N_MESSAGES` is the code's 3. Two publishers and the timer are as
many writers as the queue has entries, so it fills at every point of the protocol.
More publishers matter for one property: with as many as the queue has entries,
`RenewalHasRoom` fails, since all of them may have passed their check of
`connected` before the purge (the shipped application has one, the scanner). In
`GcloudSafety` each kind of trouble is bounded by one and all together by two
(`MaxTrouble`), so that each of them meets each other, a failure the recovery from a
drop, a slow wait a disconnection or a renewal (which is no trouble and not
bounded); the theorems hold for any number. One `gcloud_disconnect` lets the
application's commands meet a renewal and a pending subscription, and lets it connect
again afterwards. Two drops of `MqttWorkFaults` let the second hit the session after
the first. In `Spis` a byte of
`Width` values tells `Width` rounds apart; with 8 values against 4 bytes no two
rounds within reach of each other look alike (256 in the code; the proofs hold for
any width). Exceeding a bound only disables the
environment's action (`OnReceived`, `NetworkDrop`, `LinkDrop`, the failing branch
of `GcConnect`, `AppDisconnect`, the time-outs of a slow network).

**Deadlock** is checked except where the program really may stop: in the runs of
`Gcloud` and `GcloudSystem` (after a failed `mqtt_connect`, a refusal or a drop
nothing retries, and a failed `bt_enable` leaves main waiting), in `HidSystem`
(without a link and without presses on the board nothing need happen once main has
ended) and in `Spis` (a driver that could not be initialised, or a missing LED).

**Fairness.** Weak fairness of each thread: the kernel runs what is ready and
nothing in these programs occupies it for ever, except that a main of
`MqttWork` that spins disables the worker, which is modelled. The worker has
strong fairness there, because main's passes, of higher priority, disable it for
a moment each time. `LteConnect` is strong: the network is found in the end, as
the endless retry supposes. In `Gcloud` alone `MqttSubscribe` is strong because the kernel
serves a message queue's waiting writers in order; `GcloudSystem` needs less for what
it claims, the threads of boot, connection and receiver and a broker that answers:
not that the timer fires, nor that a publisher gets its turn. Timers tick, time-outs expire, the
broker answers (where the run says it is up), the USB host polls and a faulted
chip resets. In `HidSystem` the Bluetooth library calls back what was asked of it,
and a Thingy is near. In `Spis` a transfer that has begun ends; main has strong
fairness, since interrupts stop it again and again but not for ever.  Presses,
transfers, devices heard, publishers' requests, drops and the application's calls of
`gcloud_disconnect` are never fair: they need not happen.

Every property of a passing run has a mutant: a changed definition in the same
module (marked `Mutant`) that makes TLC refute it.

## 4. Findings

* `HidLockerNull`: `app_evt_alloc` (main.c:114) returns NULL also when its second
  allocation succeeded; the block is lost and the callers write through NULL.
* `MqttWorkStalePuback`: the semaphore is not reset before a wait; a PUBACK that
  came just after MQTT_TIMEOUT acknowledges the next message, which never reached
  the broker. The same happens to `mqtt_connect_ok` and a late CONNACK
  (`ConnectMeansConnected` with `SlowAnswers = TRUE`).
* `MqttWorkFlightMode`: `app_disconnect` returns before `lte_lc_offline` when
  `mqtt_disconnect` fails; the README promises flight mode between uploads.
* `GcloudDrop`: a connection lost before its CONNACK, or found closed by the mqtt
  thread, is never made again: that thread gets the DISCONNECT event, stops the timer,
  purges the queue and aborts itself before it asks for the reconnection its comment
  announces. (A thread that ends on POLLERR tells nobody, but leaves an established
  connection's timer running, and the timer or the next publish recovers it.)
* `GcloudDisconnectLost`: a DISCONNECT accepted into the queue is purged, or
  ignored, when it meets a renewal; the device stays connected.
* `GcloudConnectLate`: `gcloud_connect` does not look at how its wait ended. A
  connection that takes longer than 100 s, with nothing failed, is reported with a 0;
  main logs "Connected to Google Cloud" and lets the scanner start.

Not a contradiction of any text, and so not a run: `publish_samples` waits
K_FOREVER, and one lost connection ends the periodic uploads (`PeriodicUploads`
fails with `MaxDrops = 1`). After `gcloud_disconnect` a new `gcloud_connect` may
start an mqtt thread on the stack of one that still runs (`OneMqttThread` excuses
that case). `gcloud_connect` returns 0 in the same way after a failed or refused
connection, and with the token of an earlier CONNACK still in the semaphore. A lost link, or one failed Bluetooth call, is final for hid_locker
(`FindsThingy` excuses it). The heap of mqtt_work lasts for a bounded number of
messages, after which it reboots.

## 5. Proofs

Every invariant, action property and refinement that a passing run checks is also a
theorem, for every value of the constants but for the hypotheses named here. The
assumptions on constants are those the modules declare: `QueueAssumption`,
`IntervalAssumption`, `SizeAssumption`, bounds that are natural numbers. A further
hypothesis is stated in the theorem itself.

`QueueLemmas` holds what the others need of queues and sets of items: what an
`Append` and a `Tail` do to the elements and to their number.

`HidLockerProofs`, for every pool, every set of button bytes, every bound and
whether or not writes fail:

* `TypeCorrect`: `TypeOK`, inductive by itself. It ties program counters to the
  blocks in hand, which everything else needs.
* `PoolIsSound`: `BlockOwnership`, inductive with `TypeOK`. Lemmas on the queue as
  a set (`AppendRange`, `TailRange`) carry each put, get and free.
* `WakeupsAreKept`: `NoLostWakeup` is not inductive: it speaks of main asleep only,
  and main may reach its wait with events queued during boot. `WakeInv` extends it
  to the boot states.
* `OneReportInFlight`: `UsbToken`, inductive with `TypeOK`.
* `KeysNeverStuck`: `ReleasePending`. Its step needs `BlockOwnership`: writing the
  type of a new event must not turn a queued clear into something else.

The inductive invariant is `PipelineInv`, the conjunction of these. The theorem
has one lemma per conjunct, and in each one step per action.

`KeyLockProofs`, for every finite pool (the pool is an array in the code):

* `PipelineImplementsKeyLock`: `ImplementsKeyLock`. The mapping counts the blocks of
  each kind in the queue, so a step is known by what it does to two cardinalities.
  `OneMore` and `OneLess` say what one block put or taken does to them,
  `PoolUsedUp` that an allocation that fails finds all blocks but one counted. One
  lemma per context (`InterruptStep`, `ListenerStep`, `MainStep`, and `ProduceStep`
  for what the threads share) shows each action to be a step of `KeyLock` or a
  stutter. `BlockOwnership` and `TypeOK` are what makes the counts exact: a block
  that was in two places would be counted twice.

`HidSystemProofs`, for every pool and whatever fails:

* `SystemPoolIsSound`, `SystemKeysNeverStuck`, `SystemImplementsKeyLock`: what is
  proved of `HidLocker`, in the whole program. They rest on `PipelineBehaviour`, a
  lemma and no result: `HidSystem` is composed of the pipeline's own actions.
* `CentralIsSound`: `BleTypeOK` is not inductive: a match while connected would
  reset a connection that is subscribed. `OneConnection` adds that the scanner runs
  only without a connection, and neither before Bluetooth is ready.

`MqttWorkProofs`, for every interval and amount of memory:

* `TypeCorrect` and `FlagIsTrue`, whatever is slow, breaks or fails. The types are
  in three parts, the work queue (no item twice), the socket and the rest, since
  only a few actions touch the first two; `FlagMatchesSession` is inductive with
  them.
* `SessionsSurviveDrops`: `NoSocketLeft` and `AckMeansDelivered`, for any number of
  broken connections, if answers come in time (`SlowAnswers = FALSE`; with late
  ones `MqttWorkStalePuback` refutes the second). Neither is inductive. `SocketInv`
  adds what a socket holds: one answer at most, nothing owed once it holds
  anything, and after the answer only the marks of a broken connection.
  `ExchangeInv` adds what each place of the worker may find of tokens and answers:
  those of its own exchange, or some that main, its loop ended, will not read.
* `SessionsAreSound`: `ConnectMeansConnected` too, if moreover no connection breaks
  (`MaxDrops = 0`): one that breaks between CONNACK and the semaphore's taker
  refutes it. `SessionInv` gives the worker's every place the one state of the
  session that belongs to it.
* `FlightMode`: `FlightModeBetweenUploads`, in the same environment and with a modem
  that obeys (`OfflineMayFail = FALSE`); connects may fail. `OfflineInv` extends it
  to an idle worker with work queued.
* `MqttWorkImplementsUplink`: `ImplementsUplink`, in the environment of
  `SessionsAreSound`, from the same invariant.

The hypotheses are the environment of the run `MqttWorkService`; outside it the
properties are false, as the findings and section 4 say.

`GcloudProofs`, for every set of publishers, queue length, and bounds on drops,
failures, disconnections and slow waits:

* `TypeCorrect`: `TypeOK`, in parts as above; that no put exceeds the queue is a
  part of it, and puts come from threads, the handler, the timer and the callback.
* `RenewalIsArmed`, `ReceiverIsRunning`: each inductive by itself. The interesting
  step is the same in both, `DisconnectEvent`, which purges, aborts and reconnects at
  once.
* `OneMqttThreadAtATime`: `OneMqttThread`, from `ThreadInv`. `GcWaitsAlone` says that
  the gc thread, in the handler's waits, has no mqtt thread beside it; `OneConnect`
  that, before any `gcloud_disconnect`, a CONNECT in the queue is alone and means
  that no mqtt thread runs.
* `SubscriptionIsKept`: `SubscriptionNotLost`, with `GcWaitsAlone`: the put of
  SUBSCRIBE never waits for a gc thread that waits itself, so only a network call can
  make it give up.
* `RenewalCommandHasRoom`: `RenewalHasRoom`, if fewer threads publish than the queue
  has entries (the program has one, the queue three; with three publishers TLC
  finds the queue full). After the purge each entry is a publisher's that had
  passed its check, so entries and busy publishers together are no more than the
  publishers: `RoomInv`.

`GcloudSystemProofs`, for every queue and every set of publishers:

* `CloudInSystem` and `RoomInSystem`: what is proved of `Gcloud`, in the whole
  application, again by a mere lemma (`CloudBehaviour`).
* `BootIsSound`: `SysTypeOK`. `Rendezvous` ties main's position to that of
  `bt_ready`: main is past its wait only while the other waits for the cloud.
* `ScanLostInRenewal`: `ScanLostOnlyInRenewal`. `ScannerInv` says that the scanner
  runs only once `gcloud_connect` has returned; `FirstConnection` (in `GcloudProofs`)
  follows the first connection from the put of its CONNECT to the token, and says
  that, while nothing fails or outlasts 100 s, the device is then connected or
  connecting.

`SpisProofs`, for every buffer length, byte width and set of frames:

* `TypeCorrect`: `TypeOK`: neither the DMA nor main leaves its buffer.
* `ReceivedIsPrinted`: `PrintedAsSent`, from `RxInv`: what the DMA has received stays
  until the handler has printed it, because the buffers are armed only after that.
* `SettledIsWhole`: `SettledFrameWhole`, from `TxInv` (what the buffer holds of which
  round) and `SettledInv` (a transfer that finds main asleep finds it so to its end).
* `TornByThree`: `TornByThreeAtMost`, from `MisoInv`: each byte sent in a transfer was
  written so many rounds ago, by `Ages` three at the most, and one less while a
  round is owed. A byte is a number modulo `Width`; a few lemmas on remainders
  (`ModType`, `SmallMultiple` and those after them) lead from ages to bytes.

Only model-checked: liveness, which the prover cannot do (`KeysReleased`,
`EventServed`, `FindsThingy`, `ThingyPressLocks`, `RefreshedAfterTransfer`,
`AlarmDelivered`, `PeriodicUploads`, `MemoryRecovered`, `AlarmWorkEnds`,
`RenewsForEver`), and with it what the refinements leave out, that
`KeyLock` and `Uplink` serve a request at all. `Width` is the number of values of a
byte and not its bits because 2^bits would need an induction, which the prover
cannot do either.

## 6. Plan

Done: the pipeline and its Bluetooth side, mqtt_work, the gcloud client and its
application, the SPI slave; abstract specifications of the first two; the
compositions; the proofs of all safety properties and refinements.

Left, should the code or the interest change:

1. An abstract specification of the cloud client (a connection that is renewed, a
   subscription, publications in order), with `Gcloud` as its refinement.
2. `ImplementsUplink` with broken connections: `Uplink` would have to allow a message
   lost with its connection, and `publish_samples` waiting for it for ever.
3. Proofs that bound the damage of late answers, which now is only shown by the
   findings: a stale token serves one exchange and no more.

## 7. Not modelled

`spim`, `timestamp_demo`, `adc`, `i2c`, `i2c_ns`, `spi`, `spm_demo` and
`include_demo` are one sequential loop, or one call, over drivers: they hold no
state that two steps could disagree on. (`timestamp_demo` waits for the time as
mqtt_work does at its boot.) The key generation scripts convert files at build time.
Most C in the repository by size is generated: build directories with device tree
headers, configuration and system call tables, none of it the programs' own logic.
Of the modelled programs, message texts, logging, the modem information helpers, TLS
and the token are left out; so is time as a quantity, and with it that the token
(12 h from before the connection) expires just before the renewal timer fires. SPI
transfers shorter than a frame are left out of `Spis`.
