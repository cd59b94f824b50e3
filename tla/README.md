# Prismo in TLA+

Prismo admits NFC cards to doors and machines. Administrators edit keys and
grants in a web application; a backend stores them in PostgreSQL and pushes each
device the list of card hashes it may admit, over an MQTT broker; an ESP32 with
a card reader decides scans from its own copy of that list, so that it keeps
working offline, and reports scans and a checksum of its list. This directory
holds the specifications of that system, the TLC configurations that check them
on small instances, and theorems about them checked by TLAPS.

## 1. Inventory

| Component | State | Operations | Speaks to |
| --- | --- | --- | --- |
| Device allowlist (`firmware/src/config.py`) | `allowed_users` on flash, `_allowed_uids`, `_keys_checksum` | `set_uids`, `is_user_allowed`, `get_keys_checksum` | called by the reader thread and the MQTT worker thread, without a lock |
| MQTT connection (`mqtt_client.py`, `state.py`) | `_client`, `_next_reconnect_ms`, `_reconnect_backoff_ms`, `is_connected` | `maintain`, `_establish`, `publish_*`, `check_msg` | broker; the worker thread owns it, the reader thread reads the flag |
| Scan queue and worker (`mqtt_worker.py`) | `ScanQueue._items` | `put`, `pop`, `run` | reader thread puts, worker pops, under a lock |
| WiFi manager (`wifi_manager.py`) | association in flight, backoff, failures, radio reset | `connect`, `maintain` | the ESP-IDF task, asynchronously |
| Reader and its UI (`prismo_main.py`, `reader.py`, `reader_ui.py`) | `machine_active`, held card, lights, relay, watchdog | `on_key_read`, `on_trigger`, main loop | both threads, under `ui_lock` |
| Settings and serial protocol (`config.py`, `serial_cfg.py`) | `_values`, NVS, migration from `config.json` | `set_many`, `init`, request dispatch | the browser, over USB |
| Health log (`health_log.py`) | log files, uptime accumulator | `write_*`, rotation, `uptime_s` | everything on the device |
| Rows (`backend/src/db`, `entities`) | `entities` rows with `updated_rev` and `deleted`, `workspace.seq` | `mutate`, `insertEntity`, `softDelete` | hooks, broadcast |
| Pushes and heartbeats (`backend/src/devices`) | none of their own | `pushDeviceSync`, `handleHeartbeat`, `forceSyncDevice`, reactions to row changes | rows, broker |
| Broker (`mosquitto`) | retained message per topic, sessions, accounts | publish, subscribe, dynamic security | backend, devices |
| Credentials (`mqtt-admin.ts`) | accounts and roles at the broker | `provisionDeviceMqttUser`, `deleteDeviceMqttUser` | broker, over a connection per call |
| Replication (`mutate.ts`, `snapshot.ts`, `index.ts`, `client/src/store`) | client records, `lastSeq`, queue of batches | broadcast, `sync:resync`, `applyBatch`, `loadSnapshot` | backend to every browser of a workspace |
| Outbox (`sync-outbox.ts`) | pending changes | `enqueue`, `flush` | browser to backend |
| Login and membership (`auth.ts`, `workspace-service.ts`) | sessions, users, workspaces | OAuth callback, first login | browser, Google |
| Serial session (`device-serial.ts`, `device-hardware.tsx`) | port, pending requests | handshake, request, reset, reconnect | device, over USB |
| Activity and Discord hook (`device-service.ts`, `scan-listener.ts`, `discord-hook.ts`) | `deviceActivity` rows, hooks, `modeParams.isOn` | `triggerDevice`, `handleScan`, `recordAction`, `notifyDoorOpened` | rows, broker, Discord |
| MQTT viewer (`MqttPage.tsx`) | the client, topics, messages, the payload being written | connect, resubscribe, publish, mqtt.js's events | broker, over a WebSocket |
| Device page and keys page (`DeviceDetailPage.tsx`, `KeysPage.tsx`, `device-danger-zone.tsx`) | the name being typed, the device chosen, the deletion being confirmed | add key, grant, revoke, delete | the browser's store and outbox |

What is hard in it, and what must hold:

* **Two threads on the allowlist.** MicroPython may switch threads between two
  statements. The three copies of the list must agree whenever no call is under
  way, and the reported checksum must be that of the list that is enforced,
  since it is all the server knows.
* **Pushes that overtake each other.** Every change of an access row and every
  heartbeat with a wrong checksum starts a `pushDeviceSync`, which reads in
  three queries and publishes over its own connection. Whatever order they end
  in, no card may be listed that was never granted, and the device must arrive
  at the current list.
* **Losses.** The broker forgets everything on a restart, deliveries to devices
  are QoS 0, a device may reboot or fail to write its flash at any point. The
  heartbeat loop is what heals all of these, so it must converge, and it must
  also stop.
* **A connection that dies at any step.** Scans must not leave the queue of an
  offline device, must arrive in order and once, and the device must come back
  with a fresh backoff.
* **Copies in browsers.** A browser keeps the rows and asks, after a reconnect,
  only for what changed since its `lastSeq`. Batches race the answer to that
  question, the answer is read in two statements, the server may stop between a
  commit and its broadcast. `lastSeq` must never claim more than is shown.
* **Two threads on the UI.** Reader and worker thread share lights, buzzer,
  output pin and `machine_active` under `ui_lock`, and a signal sleeps for
  seconds while it holds the lock. The pin must be what machine and signals made
  it, a signal must not be cut into, and nobody may wait so long that the watchdog
  bites.
* **Tasks that outlive their timeout.** The chip goes on associating after
  `WifiManager` has given up, the broker runs a batch of commands after the
  backend stopped waiting, a device answers a serial request after the page's
  time limit, or into the next session. What is late must not undo, and must not be
  taken for, what came after it.
* **Writes without a transaction**: settings key by key with the power failing in
  between, rotation of the log, a first login in three statements, an activity
  recorded after its command was sent.
* **Pages that hold on to what they were told**: the workspace of an account that
  shares its cookie with another tab, a topic captured by a listener, the scan a
  name is being typed for, the device chosen for a key before its list changed.

## 2. The modules

| Module | Models | Notes |
| --- | --- | --- |
| `CardUids` | card hashes, lists of them | a list is a set: `config.py` builds a set from it |
| `Allowlist` | the device allowlist | one action per statement that touches a global or the file |
| `KeyServer` | key, access and device rows; `pushDeviceSync` | one action per request and per query |
| `AccessControl` | *abstract*: what administrators and the device promise each other | four actions, one fairness condition |
| `KeySync` | `KeyServer` + broker + `Allowlist` | heartbeat loop, faults; implements `AccessControl` |
| `DeviceLink` | scan queue, worker loop, reconnects, `is_connected` | reader and worker interleave between any two steps |
| `Workspace` | rows by `seq`, `mutate()` and its callers, commits waiting for their broadcast | one action per caller |
| `ReplicaSync` | `Workspace` + sockets, resync, the browser's store and outbox | messages race the two-statement resync; reloads, dropped sockets, restarts |
| `ReaderUi` | both threads of the reader around `ui_lock`, machine and door mode, watchdog, boot | a thread holds the statements it has left to run |
| `WifiManager` | `maintain()` against the chip's association task | steps of five seconds |
| `SettingsStore` | settings in NVS, RAM and `config.json` | power cuts between any two writes, writes that raise |
| `HealthLog` | time stamps, rotation, two files | a tick counter that wraps |
| `SignIn` | the login, sessions, workspaces, tabs of one browser | one action per query |
| `Activity` | triggers, scans, their record, Discord hooks | one action per await |
| `Credentials` | the broker account of a device | sessions, batches under way, answers |
| `SerialSetup` | the settings page over USB, the session, the device's answers | timers, resets, pulled cables, late answers, lines that outlive their session |
| `MqttViewer` | the MQTT viewer page | listeners of clients that are gone |
| `DevicePage` | adding, granting, revoking keys on the page of a device and the keys page | scans and other administrators in between |
| `Device` | `DeviceLink`, `WifiManager`, `SettingsStore`, `HealthLog` side by side | see below |
| `Backend` | `SignIn`, `Activity`, `Credentials` side by side | |
| `Pages` | `SerialSetup`, `MqttViewer`, `DevicePage` side by side | |
| `MCAllowlist`, `MCKeySync`, `MCDeviceLink`, `MCReaderUi`, `MCReplicaSync`, `MCDevicePage`, `MCDevice`, `MCBackend`, `MCPages` | instances for TLC | |
| `KeySyncProofs`, `DeviceLinkProofs`, `DeviceProofs`, `SignInProofs`, `BackendProofs`, `ReaderUiProofs`, `PagesProofs`, `ReplicaSyncProofs` | theorems, each about the module it is named after | |

`Device`, `Backend` and `Pages` put components side by side and do not compose
them: those components share no state, so a behaviour chooses one of them (`part`)
and the others rest in one state. One run then checks all of them, with each
component's states explored once and not multiplied by the others'. Their liveness
properties are guarded by `part`. That a behaviour of the whole is a behaviour of
each part, so that what is proved of a part holds of what the run checks, is itself
a theorem (`DeviceParts`, `BackendParts`, `PagesParts`).

### Allowlist

`flash`, `ram` and `checksum` are `allowed_users` in `config.json`,
`_allowed_uids` and `_keys_checksum`. `wpc` and `rpc` are where the worker and
the reader thread are; `wlist` and `rlist` are what they hold in local
variables. `set_uids` is `SyncKeys`, then `SaveList` (or `SaveFails`: the
exception ends the call in `on_sync_keys`; a truncated file is read as `{}`),
`SwapRam`, `DropChecksum`. `get_keys_checksum` is `BeginHeartbeat`, which goes
to loading, to hashing or straight to sending, then `WorkerLoads`,
`WorkerAssigns`, `HashList`. `is_user_allowed` is `ReaderFindsUnset`,
`ReaderLoads`, `ReaderAssigns`; a lookup that finds the list in RAM changes
nothing and has no action. A sha256 digest is modelled as the set it is computed
from: equal digests, equal sets.

`OfflineBoot` says whether the connection attempts at boot may all fail. If one
succeeds, its heartbeat has loaded the list and computed the checksum before
`_thread.start_new_thread`, and the lazy load can never race.

### KeyServer and KeySync

Rows are `absent`, `live` or `deleted` (deleted rows stay as tombstones and are
never revived: `insertEntity` updates only where `deleted = false`). One device
is modelled: nothing the server or the broker keeps is shared between devices.
Two unique indexes keep one live key per card and one live
access row per key. A push is a record with its program counter and what it has
read. `granted` is a
history variable: every uid the rows have ever admitted.

`KeySync` adds the retained message, the account, the session, the messages on
their way to the device (`inbox`) and the checksums on their way to the server
(`beat`). Faults are `Disconnect`, `BrokerRestart`, `DeviceReboot`,
`LoseHeartbeat`, `FailPush`, `FailSave`. A heartbeat handler that finds a
mismatch starts a push, which reads the device row again itself.

### DeviceLink

`linked` is `_client is not None`, `alive` whether that connection still reaches
the broker, `online` is `state.is_connected`. `wait` is the time left until
`_next_reconnect_ms`, `backoff` is `_reconnect_backoff_ms`, both in units of
five seconds. `maintain()` is one action per outcome; it is a single step because
the only other thread sees nothing of it but the flag. Pop and publish are
separate steps, with scans and network failures between them.
`_consecutive_failures` is left out: every failure drops the client at once, so
its limit of three is never reached. Scans are numbered in the order they were
read, which makes order and gaps visible.

### Workspace and ReplicaSync

The content of a row is named by the `seq` that wrote it, so `records[b][i]` is
the `seq` of the change a browser shows, `Gone`, or `Draft` for a row it created
and shows before the server has it. A message mentions rows; `Same` stands for
one it does not mention. `mutate()` locks the workspace row with its first
statement, so transactions do not overlap and each is one step; the reply to
COMMIT is another (`Broadcast`), which also answers the request. `SelectRow` and
`UpdateRow` are the two statements of `handleHeartbeat` and of `triggerDevice`:
the second writes a row that may have been deleted in between.

A resync is four steps: `Connect` (the request leaves), `ReadSeq`, `ReadRows`
(READ COMMITTED: each statement sees what is committed by then), `SendResult`.
`ReceiveResult` is the whole handler: snapshot or delta, the batches set aside,
filtered and sorted, `ready`, `flush()`. Batches set aside are a set, since they
are sorted before they are applied. `post` is where the request of `flush()`
is: sent, committed and waiting for its reply, answered, failed.

Messages that arrive between joining the room and `connect` are dropped by the
`connect` handler and covered by the resync that follows, so a connection begins
with `connect`. A lost reply to COMMIT means a lost database connection: the
pool's client has no error listener, the process ends, and that is `ServerCrash`.

### ReaderUi

`todo[t]` is what thread `t` has left to run: a method of `ReaderUI` is the sequence
of its statements (`SuccessSignal`, `ErrorSignal`, `MachineOn`, `MachineOff`),
between any two of which the other thread may act unless it needs `ui_lock`.
`Command` takes any of the four actions of the contract in either mode, as
`on_trigger` does. Statements that sleep (`Duration`) take time, in units of 500 ms
rounded up; the others take none, and `Tick` is enabled only when no thread can run.
`starved` is the time since `wdt.feed()`, `fed` says that the main loop has come to
it since boot, `WatchdogBites` boots the device again. `released` remembers that a
success signal has switched the pin off under a machine that is on; the next scan or
command that switches the machine clears it. `heldUid` and `age` are `_held_uid` and
the time since `_held_seen_ms`; `scanned` counts the scans taken since the card was
put there. The PN532 is a choice of outcomes: `ReadsNothing`, a card, `ReaderDies`;
at boot `ReaderComesUp`, or an attempt that fails, of which `init()` makes ten
before it gives up.

### WifiManager

`radio` is the chip's task, which acts between any two steps of `maintain()`,
also between its `isconnected()` and what it does with the answer (`pc`). The
outcomes of `maintain()` are `FoundUp`, `InFlight`, `AttemptEnds`, `BacksOff`,
`RadioOff`, `Connects`, `ConnectRaises`.

### SettingsStore and HealthLog

`nvs` is what reads return, `stored` what is certain to survive a power failure;
they differ between a write and its `commit()`. Boot migrates `config.json` key
by key (`MigrateKey`, `Commit`, `MigrationSaved`) and then loads. `SetMany`
validates the whole request, `WriteKey` writes one, `Committed` changes RAM.
`goal` remembers the settings before and after the last request.

An entry of the health log takes its `Stamp` under the lock and is appended
later, under the lock again, so two threads may write in the other order; the
log's size is counted in units of half a short line. Rotation removes the backup,
then renames, and deletes the log if that raises; each of the three may raise, and
each may be the last thing before the power fails. `stuck` counts the rotations
that could neither rename nor delete the log, after which the line is appended to
it all the same.

### SignIn, Activity, Credentials

`login[t]` is where `POST /google` of tab `t` is: `LooksUp`,
`InsertsWorkspace`, `AddsMembership`, `SignedIn`, each a statement that commits
alone, and `SignInFails` after any of them (Express 5 turns a rejection into a
500). React's StrictMode runs the effect of `GoogleCallback` twice; that is
covered by two tabs of one user. A page keeps `shown`, the workspace `/me` told
it; its socket (`SocketJoins`) and its requests (`Writes`) carry the cookie the
browser has by then.

An event of `Activity` is a scan or a command of one device. `Records` writes the
row and calls the handlers in one step, as `mutate` does; `ReadsHooks` and
`Posts` follow when the database and Discord answer. A fetch that throws ends
the loop (`PostThrows`), a restart of the backend drops what is under way.

`Credentials` names a password by the request that made it. `wire` holds batches
that were published and not yet run; the session that sent one may be over by
then, and requests may overlap. `calm` is about the request, or deletion, that began
last: it began when nothing else was under way, batches of earlier ones included,
and has not itself given up on a batch that still was. What went before it may have
overlapped, failed or been late. `StaysRevoked` and `DoneMeansMade` do without it.

### SerialSetup, MqttViewer, DevicePage

The hardware page runs one task at a time: `task` is the promise its `run()`
waits for, `got` the answers it has. `pending` are requests with an id and a
timer; `TimesOut` may come before an answer that is already under way, which is
one of the `faults`. A task whose answer is an error or comes too late is over,
and its other requests stay pending until they are answered or time out. An answer
to "set" says whether the device kept what it had. `Crashes` restarts the device or
hangs it, `Unplug` closes the port. Continuations of a promise run before other
events of the page; the device is powered over the cable. Leaving the page closes
the session and is not modelled.

When the page closes a session, what it wrote is flushed (`Closes`): what the device
has not read yet goes to `oldToDev`, ahead of anything a later session sends. The
device reads it when it gets there (`DeviceReadsOld`) and answers into the session
that is open by then, in `oldToPage`, with numbers that session uses again;
`PageReadsOld` is `onLine()` for such an answer, and `late` marks what a task took
from one. Opening a session over such lines counts as a fault. Three things about
USB and the chip are assumed: the device's input buffer survives the closing of the
port and is lost with a reset or the cable, what it writes while no session is open
is lost, and a device that hangs reads nothing any more.

`MqttViewer` follows mqtt.js as an external library: a client that was not ended
reconnects by itself and renews its subscriptions, and the "close" event of an
ended one may come at any later time.

`DevicePage` works on the browser's store; rows reach the backend in order
(`OutboxPosted`; one the unique index refuses stays at the head), and a scan names
the key the backend knew its card by when it was recorded. The keys page is the
choice of a device for a key (`SelectDevice`, from the list as it is then) and its
attachment (`AttachDevice`, which looks at nothing but the choice); `access` counts
the rows of a key, since there may be two. Two administrators who make one key at
the same time meet at the unique indexes, which `KeySync` has.

## 3. What the runs check

| Run | Question | Result |
| --- | --- | --- |
| `key_sync_safety` | Can any list name a card that was never granted, or a withdrawn card come back into RAM, after a boot with or without a broker? | no: `NeverGrantedNeverListed`, `GainsOnlyFromFlash`, `TypeOK` hold |
| `key_sync_live` | Do file, RAM and checksum agree with both threads interleaved? Does the device arrive at the list the rows admit, and does pushing stop, also if a card is granted twice? Is `AccessControl` implemented? | yes: `CopiesAgree`, `Settles`, `KeepsPromise` |
| `allowlist_stale_checksum` | After a boot without a broker, is the reported checksum that of the enforced list? | **no**, see findings |
| `device` | `DeviceLink`: order and gaps of scans, backoff, what leaves the queue of an offline device | `ScansInOrder`, `BackoffFresh`, `OfflineScansKept` hold |
| | `WifiManager`: is an abandoned attempt really over, is every radio reset earned by this outage? | `RadioLeftAlone` holds |
| | `SettingsStore`: what survives power cuts and writes that raise? | `SettingsHold` holds |
| | `HealthLog`: is the uptime true, what does a rotation lose, how long do files get when it fails? | `LogHolds` holds |
| | Do WiFi and the connection come back? | yes: `DeviceReturns` |
| `device_link_flag` | Is `is_connected` true only while there is a link? | **no**, see findings |
| `reader_ui` | Any command in any mode: pin and signals; one scan per visit; the watchdog, once the main loop has come round | `OutputIsRight`, `OneScanPerVisit`, `FedInTime`, `TypeOK` hold |
| `reader_ui_live` | Does a reader that died, or does not come up, poll again? | yes: `ReaderReturns` |
| `replica` | Does a browser's `lastSeq` claim too much? Can a page without the banner be stale? Are rows posted in order? Does every browser catch up, and its outbox come to rest? | `DeltaSuffices`, `BannerIsTheOnlySignal`, `PostedInOrder`, `Converges`, `UploadsEnd`, `TypeOK` hold if commits are answered in order |
| `replica_overtaken` | And if the answers to two commits change places? | **stale without a banner**, see findings |
| `backend` | `SignIn`: does a raced or broken first login leave somebody without a workspace, or with two? May a page show or write another workspace's rows? Does it always settle? | `HomeIsOne`, `RowsStayHome`, `PagesSettle` hold |
| | `Activity`: who is told of an opening, how often, and of what? | `HooksHearRight`, `Told` hold |
| | `Credentials`: does the password shown open the broker, is one handed out that was never accepted, does a deletion clean up, does an old password ever work again? | `AccountAsTold`, `StaysRevoked` hold |
| `pages` | `SerialSetup`: does the page show what the device has, say when to reboot, notice a closed session, take a late answer for another, hang? | `PageIsTrue`, `ConnectedIsTrue`, `Matched`, `Settles` hold; `Matched` of answers to the session's own requests |
| | `MqttViewer`: status, leftover clients, subscriptions, the list, the payload | `ViewerIsTrue` holds |
| | `DevicePage`: keys made from stale scans, the callout; what adds a second access row | `AccessIsRight` holds |
| `device_page_named` | Does the name typed for a card go to that card? | **no**, see findings |

The three runs of several parts also check the type invariants of all of them
(`AllTypesOK`). Where a property is a conjunction, its parts are named and
commented in the module of the component; `OutputIsRight`, for instance, is
`OutputFollows` and `SignalUndisturbed`.

Every property of a passing run has a seeded fault, an operator next to the
definition it replaces and marked as such, which breaks it; `PROJECT.json` lists
them.

### Findings

* **A checksum of another list** (`allowlist_stale_checksum`). After a boot
  without a broker the reader's first lookup tests, reads the file and assigns
  in three steps. If a pushed list is stored between the read and the
  assignment, RAM holds the old list again, and if the checksum was computed
  before the assignment it stays that of the new one. The server sees a matching
  checksum and never repairs it. The window is narrow: it takes a scan within
  the moment the first list arrives.
* **Online without a link** (`device_link_flag`). A scan whose publish raises
  drops the client without clearing `state.is_connected`. The next `maintain()`
  sees no client and goes to `_try_reconnect`, which does not clear it either:
  the reader shows the online colour during the whole outage.
* **A batch that was overtaken** (`replica_overtaken`). PostgreSQL releases the
  workspace row before it answers the COMMIT, so a second transaction, on another
  connection of the pool, may be answered first and be broadcast first. A browser
  that is ready applies batches as they come; only those set aside during a
  resync are sorted. It ends with the older content and an older or newer
  `lastSeq`, and shows it without the reconnect banner until the row changes
  again. The window is narrow: the reply must be late by the round trips of a
  whole transaction.
* **The name of another card** (`device_page_named`). "Grant access" makes a key
  of the latest scan when the button is pressed, with the name in the field. If
  another unknown card is scanned after the name was typed, it takes the first
  one's place in the callout, the field stays as it is, and that card is granted
  under the first one's name.
* **A refused head of the outbox** is no divergence from anything written down,
  but worth knowing: a row that the server refuses for good (deleted meanwhile,
  or a unique index) stays at the head, and what the page creates after it is
  shown there and never posted. `UploadsEnd` states exactly this much.

Read in the code while modelling, and not shown by a run:

* `on_trigger` plays any action whatever the device's mode (`prismo_main.py:75-87`),
  and `success()` ends by switching the pin off without a look at `machine_active`
  (`reader_ui.py:34`). A success command to a machine that is on, from `POST /trigger`
  or the MQTT page, whose preset it is (`MqttPage.tsx:33`), stops the machine; the
  next scan reports it as latched on and switches off what is off. The model takes
  this command like any other: `released` says when it has happened.
* `_is_card_held` compares with `ticks_diff`, which is negative after half a
  period of the counter: a reader idle for about six days takes the card it saw
  then for one still held (`prismo_main.py:47`).
* The idle light is painted when a signal ends, not when `is_connected` changes
  (`reader_ui.py:25`).
* An attempt of `reader.init()` takes 3.6 to 4.1 s and ten are made, with the watchdog
  armed before them and never fed (`reader.py:37`): the board resets in the fifth or
  sixth. A device without a working PN532 restarts for ever all the same, but never
  reaches the end `prismo_main.py:139-142` describes, nor the log entry of it. The
  model has the ten attempts and that reset.
* An attempt whose `connect()` raises is not counted as a failure
  (`wifi_manager.py:165`): if all of them raise, the radio is never reset.
* `provisionDeviceMqttUser` ignores the outcome of its deletion, a time-out included,
  and creates the account (`mqtt-admin.ts:107`). If the broker runs the deletion after
  that, the password just handed out opens nothing. Two requests at once do the same
  to each other, or leave the earlier one's password in force, though the comment on
  the function promises exactly one valid credential (`mqtt-admin.ts:101-103`). That a
  password revoked never works again holds all the same (`StaysRevoked`).
* Every `DeviceSerial` numbers its requests from 1, `close()` flushes what it wrote
  (`device-serial.ts:55`, `196`), and the device keeps its input while the port is
  closed. An `info` of a connection attempt that got no answer, read late, is answered
  into the next session, where `onLine()` takes it for the answer to the request with
  that number: a `schema`, `get` or `status`. `Matched` makes an exception of it.
* The keys page offers a key only devices it does not open yet, but keeps the one
  chosen and attaches it without looking again (`KeysPage.tsx:58`). If the key got
  access meanwhile, a second row of it is made, which the backend's unique index
  refuses; it blocks the outbox of that page. `AccessIsRight` says that no other step
  makes such a row.
* `set_many` is all or nothing in RAM only: a write to NVS that raises after
  another one leaves that one for the next commit (`config.py:208`).
* A log that is full is renamed, and deleted if that raises; when that raises too,
  nothing is said and the line is appended (`health_log.py:115-118`). Such a file grows
  by a line with every entry, past the "64 KB max" of `health_log.py:43`; `LogHolds`
  counts the rotations to which it happened (`stuck`). Otherwise each of the two files
  may exceed its limit by a line (`health_log.py:106`).
* A trigger switches a machine's row before it publishes the command, and a failed
  publish leaves it switched: a heartbeat writes `lastSeenAt` and nothing else
  (`device-service.ts:62-77`, `scan-listener.ts:84-92`).
* `_abort_attempt` swallows a `disconnect()` that raises (`wifi_manager.py:49-52`) and
  `_nvs_erase` an erase that does (`config.py:123-127`). The models take the attempt to
  have ended, and the entry to be gone.
* The form for hooks accepts `canary.discordapp.com` and `ptb.discordapp.com`,
  which the backend then never posts to (`device-hooks.tsx:9`,
  `discord-hook.ts:5`); and every recorded trigger is told as an opening,
  "error" and "off" included (`discord-hook.ts:26`).

### Bounds

* Two cards, a key and an access row for each. One card can be granted, withdrawn
  and compared with another one; the properties relate lists as sets, and a third
  card adds no new relation. In the liveness run the first card may have two keys
  and one of these two access rows, which is what the unique indexes forbid: the
  server digests a list of rows and the device a set, and pushing would never stop.
  A key that is deleted and added again, with access to both, takes five edits and
  is beyond the bound.
* Pushes at once: two, enough for one to overtake another; they are
  interchangeable, which is the symmetry of the safety run (never used with
  liveness).
* `MaxEdits` (four in the safety run, three in the liveness run): create key,
  grant, and one or two of withdraw, delete, re-grant, force sync.
* `MaxInbox` and the heartbeats under way: one. A second message could only be
  handled later than it is published; `Publish` waits instead.
* `MaxFaults`: one in `KeySync`, two in `DeviceLink` (an outage while
  recovering from another).
* `DeviceLink`: a queue of three flushed two at a time, five scans, so that the
  queue overflows, a batch ends with scans left, and a flush is cut short; the
  backoff has the firmware's steps of 5, 10, 20, 30 seconds.

* `ReaderUi`: the firmware's own durations and ten attempts, rounded up to 500 ms,
  two cards, both modes, every command. Two cards are enough for one to take
  another's place while a signal runs. The liveness run has one card and machine
  mode, where the reader has more to do: what a poll finds does not decide whether
  there is another.
* `WifiManager`: the firmware's times in steps of five seconds, three losses or
  refused calls: enough for a reset to be scheduled, overtaken by a link and
  scheduled again.
* `SettingsStore`: one plain setting and one secret, two power cuts, so that a
  boot after a failed boot is covered; requests are not bounded.
* `HealthLog`: a counter that wraps at 8, ten units of time, gaps of at most
  three between entries (the worker writes one a minute), a file of four units.
  Power cuts are not bounded; `MaxStuck`, the rotations that can neither rename nor
  delete the log, is one: further ones add a line each.
* `SignIn`: two tabs of one browser, two accounts, two workspaces: tabs of two
  browsers only have fewer cookies in common. `Activity`: two events and two
  hooks of any hosts. `Credentials`: two requests, one device.
* `SerialSetup`: two contents the device accepts, one it refuses, one too long to
  send; two crashes, late answers or sessions over lines of an earlier one, one new
  plug, five requests of a session beyond those a task goes on with. `ShowsDevice`
  and `RebootIsAsked` are stated for behaviours without a crash or a late answer: a
  page whose request was answered too late knows nothing of it until it is
  refreshed.
* `MqttViewer`: two clients, so that one is replaced, a list of two and three
  messages. `DevicePage`: two cards and two keys, so that a card can get a second
  key, and a second card take the first one's place; three keys in the run of this
  page alone.
* `ReplicaSync`: two rows and one browser. Browsers share nothing but the rows,
  and what other browsers write are requests to this one's server; two rows are
  enough for a change that hides another and for an outbox with a tail. Three
  edits and two faults: created, deleted, and a lost answer, then a reconnect.

### Fairness

`KeySync`: weak fairness of the server's steps (an await is resumed), of the
worker's and the reader's steps (threads are scheduled), of connecting
(retried for ever with a capped backoff) and of heartbeats (every five seconds).
Strong fairness only of `DeliverSync`: `check_msg` runs in every iteration of
the worker's loop, fifty milliseconds apart, and heartbeats only every five
seconds, so a message that waits is handled although heartbeats keep the worker
busy again and again. None of edits or faults: they may stop, and the liveness
properties speak of what happens when they do.

`DeviceLink`: weak fairness of the worker's loop, of time, and of the return of
WiFi and broker; strong fairness of `FindsLinkDead`, since a connection that is
dead is written to at every heartbeat and TCP gives up retransmitting.

`WifiManager`: weak fairness of `maintain` and of time; strong fairness of
`Associates`: the network is there in the end, and an attempt that is tried again
and again gets through. `ReaderUi`: weak fairness of both threads, of time and of
the watchdog, which is hardware; strong fairness of `ReaderComesUp`: a PN532 that
is tried again and again answers once. `SignIn`: the backend's awaits are resumed
and the browser's requests answered or failed; nobody need sign in. `Activity`:
the handlers go on when database and Discord answer. `SerialSetup`: timers fire,
an open port delivers, a device that is on answers, a reset device boots; one
that hangs does not, and that is what the page's timers are for. The tabs of
`SignIn`, and the events and hooks of `Activity`, are interchangeable, so
`PagesSettle` and `Told` are checked of one.

`ReplicaSync`: weak fairness of the server's awaits, of the arrival of messages
and answers, and of reconnecting, which the socket's client does for ever.

## 4. What is proved

Every invariant and every action property a passing run checks is proved of the
specification, for every value of the constants that satisfies the assumptions:
`RowAssumption`, `EditAssumption`, `BoundAssumption`, `NoneAssumption`,
`OfflineBootAssumption` (`KeySync`); `LinkAssumption`; `WifiAssumption`,
`SettingsAssumption`, `HealthLogAssumption` (`Device`); `UiAssumption` (two polls
fit into the gap that ends a visit; no command is excluded in any mode);
`SignInAssumption`, `CredentialsAssumption` (`Backend`; `Activity` needs none);
`WorkspaceAssumption`, `BrowserAssumption` (`ReplicaSync`); `SerialAssumption`,
`ViewerAssumption`, `PageAssumption` (`Pages`).

| Theorem | Statement |
| --- | --- |
| `KeySyncProofs!Typing` | `Spec => []TypeOK` |
| `KeySyncProofs!OnlyGranted` | `Spec => []NeverGrantedNeverListed` |
| `KeySyncProofs!KeepsPromiseSafely` | `Spec => Promise!SafeSpec`: the system implements the safety part of `AccessControl` |
| `KeySyncProofs!CopiesStayEqual` | `~OfflineBoot => (Spec => []CopiesAgree)` |
| `KeySyncProofs!NothingComesBack` | `Spec => GainsOnlyFromFlash` |
| `DeviceLinkProofs!LinkTyping` | `Spec => []TypeOK` |
| `DeviceLinkProofs!NewestQueued` | `Spec => []QueueIsNewest` |
| `DeviceLinkProofs!QueueAndBrokerInOrder` | `Spec => []ScansInOrder` |
| `DeviceLinkProofs!ShortestWaitFirst` | `Spec => []BackoffFresh` |
| `DeviceLinkProofs!ScansWaitOffline` | `Spec => OfflineScansKept` |
| `DeviceProofs!RadioOnlyWhenEarned` | `Wifi!Spec => RadioLeftAlone` |
| `DeviceProofs!SavedIsUsed` | `Store!Spec => []SettingsHold` |
| `DeviceProofs!LogIsTrue` | `Health!Spec => []LogHolds` |
| `DeviceProofs!DeviceParts` | `PartSpec => Spec /\ Wifi!Spec /\ Store!Spec /\ Health!Spec` |
| `DeviceProofs!DeviceTyping` | `PartSpec => []AllTypesOK` |
| `ReaderUiProofs!UiTyping` | `Spec => []TypeOK` |
| `ReaderUiProofs!OutputInvariance` | `Spec => []OutputIsRight` |
| `ReaderUiProofs!OneScan` | `Spec => []OneScanPerVisit` |
| `ReaderUiProofs!WatchdogIsFed` | `TimesFit => (Spec => []FedInTime)` |
| `SignInProofs!SignInTyping` | `Spec => []TypeOK` |
| `SignInProofs!OneHome` | `Spec => []HomeIsOne` |
| `SignInProofs!NoForeignRows` | `Spec => []RowsStayHome` |
| `BackendProofs!HooksAreTrue` | `Log!Spec => []HooksHearRight` |
| `BackendProofs!ToldIsTrue` | `Admin!Spec => []AccountAsTold` |
| `BackendProofs!RevokedForGood` | `Admin!Spec => StaysRevoked` |
| `BackendProofs!BackendParts` | `PartSpec => Spec /\ Log!Spec /\ Admin!Spec` |
| `BackendProofs!BackendTyping` | `PartSpec => []AllTypesOK` |
| `ReplicaSyncProofs!ReplicaTyping` | `Spec => []TypeOK` |
| `ReplicaSyncProofs!OutboxInOrder` | `Spec => []PostedInOrder` |
| `ReplicaSyncProofs!DeltaIsEnough` | `InOrder => (Spec => []DeltaSuffices)` |
| `ReplicaSyncProofs!NoSilentGap` | `InOrder => (Spec => []BannerIsTheOnlySignal)` |
| `PagesProofs!ConnectedTruly` | `Spec => []ConnectedIsTrue` |
| `PagesProofs!AnswersAreMatched` | `Spec => []Matched` |
| `PagesProofs!PageTellsTruth` | `Spec => []PageIsTrue` |
| `PagesProofs!ViewerTellsTruth` | `Viewer!Spec => []ViewerIsTrue` |
| `PagesProofs!AccessStaysRight` | `Door!Spec => AccessIsRight` |
| `PagesProofs!PagesParts` | `PartSpec => Spec /\ Viewer!Spec /\ Door!Spec` |
| `PagesProofs!PagesTyping` | `PartSpec => []AllTypesOK` |

Four theorems have a hypothesis. `CopiesStayEqual` excludes a boot without a broker
and the last two of `ReplicaSync` replies to COMMIT that overtake each other: the
runs `allowlist_stale_checksum` and `replica_overtaken` show what happens otherwise.
`WatchdogIsFed` assumes
`TimesFit`: a poll, the longest signal of each thread one after the other, and the
pause are shorter than the watchdog's time. The firmware's are, 25 units of half a
second against 40. It speaks of a main loop that has come round once (`fed`), since
before that the ten attempts of `reader.init()` do not fit.

The bounds of the models are among the constants, so the theorems hold for any
number of edits, faults, requests and rounds.

*KeySync.* `NeverGrantedNeverListed` is not inductive: a push joins access rows read
earlier with key rows read later, and needs to know that a key which some live
access row named at the first query, and which is live at the second, has been
granted. `RowsInOrder` says that; it holds because keys are posted before the rows
that name them and deleted rows never come back. `IInv` is the conjunction with
typing. The proof looks at each step once from the server (`ServerView`) and once
from the device (`ListView`), so that the 25 kinds of steps fall into a few cases.
The copies of the list need an invariant of the device alone, looked at by the same
cases: what the worker is about to put into RAM is on the flash already
(`WorkerHolds`), and, after a boot with a broker, nobody ever loads the list lazily,
so that flash and RAM differ only between the two writes of `set_uids` or after a
failed save (`CopyInv`). `KeepsPromiseSafely` maps the allowed set to `Allowed`, the
enforced list to `Enforced`, and every step to `Administer`, `Retire`, `Apply` or a
stutter.

*DeviceLink.* Everything is phrased with the number of scans that have left the
queue, `scans - Len(queue)`: by `QueueIsNewest` the head of the queue is the
next one, delivered scans lie below it in order, and the one being published is
above all delivered ones. Typing of `delivered` needs that a scan is held exactly
while it is published. `PutView`, `PopView` and `MaintainView` say what the
steps do to the sequences and are cited by all invariants.

*SignIn.* What a page shows was answered by `/me` some time ago, for a cookie
that may be another account's by now, so none of the properties is inductive.
The invariant follows the workspace along its way: a login that is about to give
the cookie has a membership (`Logins`), a cookie belongs to an account with a
membership (`Cookies`), an answer under way is for such an account (`Answers`),
and a page shows the first workspace of its account, and holds only its rows
(`Pages`). All of it rests on `HomeStays`: a membership is only ever appended
(`JoinedList`), so the first one, once there, never changes. `WritesStayHome`
joins the invariant as it stands, since the row written is recorded in the state.

*Credentials.* `OneAtATime`: while `calm`, the request that began last has nothing
beside it: every batch under way is its own, and it has not heard the answer to that
batch yet; so the answer that lets it hand out its password was given when the broker
took that password, and nothing came after. `Made`, which does not need `calm`,
follows the answer: a session is told of a success only when the broker ran its own
creation. `RevokedForGood` needs neither: a request sends its creation once, so a
password the broker has taken is of no batch that is still under way, and a password
comes into force by its own creation only.

*Activity.* An event goes through its stages once (`NotYetTold`), takes the hooks
from the rows of one moment, strikes out each before the next (`Owed`), and passes
its publishing only when the broker took the command (`SentBeforeRecorded`).
Removal is for good (`StaysRemoved`), so a hook removed before the record is not
among those read after it.

*WifiManager.* `CountedInOutage`: `_failures`, taken modulo the limit, counts no
more than what failed in this outage, and a pending reset means that the limit was
reached in it and that no attempt is under way.

*SettingsStore.* What the settings should be is followed through the boot:
`Wanted` says that until it is over each of them is either still in `config.json`,
or reads right from both the entries written and those committed, so that a power
failure may choose between the two; `Moving` says what has been moved, `AtRest`
that NVS and RAM agree between requests unless a write has raised, and `Saving`
what has been written during one.

*HealthLog.* `HealthInv` says that `_uptime_last_ticks_ms` is the uptime modulo the
period, so that the difference `_advance_uptime` takes is the time that has passed
(`DiffIsTime`), as long as entries come less than half a period apart; that the log
is full while it waits for its rename, and has room when a line is appended unless a
rotation could do nothing, whose line `Slack` counts; and that a thread that takes
the lock starts with the rotation.

*ReaderUi.* The invariant is a table. `ReaderHolds`, `ReaderOut` and `WorkerOut`
list what a thread may have left of a signal, with what holds there of the lock, the
pin, `machine_active`, `released` and the light, and of the time since the watchdog
was fed, once it was (`InTime`); `Paced` bounds the time slept in a statement. A
step of one thread moves along its own row and leaves the other's, since whatever a
row says of pin and light only the holder of `ui_lock` changes. `OneScan` has an
invariant of its own (`ScanInv`), about the held card and the time since it was seen
last.

*SerialSetup.* What the page is told is true only if no answer was lost or taken for
another one's, so the invariant (`SetupInv`) has two halves. `Sound` holds in every
behaviour: what each phase of the session means (`SessionInv`); ids are below
`nextId`, each is under way at most once, and a pending request and its line name one
command (`LineInv`); what is pending and what was answered are the requests of the
task, each asked once (`TaskInv`); settings are read again only after a "set" that
worked (`SetWorked`). `Matched` and `ConnectedIsTrue` follow from it. `Clean` holds
while there were no faults: no line belongs to a request that was given up
(`NoOrphans`), what a booting or resetting device leaves behind (`DeviceRuns`), for
each request that is still waited for a line is under way (`NoneLost`), each value
heard is the one stored, unless a "set" is to come (`AsShown`), and a reboot that is
needed is on its way to be announced (`Announced`). The steps are first described by
what they do to the wire (`Drops`, `Clears`, `Asks`, `Opens`), so that the lemmas
about lines need not look at each handler.

*MqttViewer.* `ViewerInv` adds to the property that what was asked for is
subscribed already or is what the client's "connect" listener will subscribe to
(`ToBeHeard`), and the proof takes it apart into connections, list, writing and
sending, which no step disturbs all at once. *DevicePage.* By `ScansAndKeys` the key
a scan came with, if the store still has it, is a key of the scanned card; so, however
old the scan, the page finds the keys its card has now (`FindsKeys`).

*Side by side.* `PartStep` says of a step of the whole that it is, for each part, a
step of that part or a stutter of its variables.

*ReplicaSync.* `PostedInOrder` alone is not inductive: the row one page posts must
not be one that waits in another's outbox (`OneOwner`), and a request under way is
for a row still at the head (`HeadPosted`). The other two are about what is still
to come. `DeltaInv` says of each browser that the batches set aside, on their way
and unsent are in order, that a batch tells each of its rows right unless the row
was written again, in which case a later batch has it, that an answer tells the rows
right up to the seq it claims, and that what is written up to `lastSeq` is shown; a
ready page has everything else still to come. All of it assumes `InOrder`: with
replies to COMMIT overtaking each other it fails, as the run `replica_overtaken`
shows. `GoneInv` adds, for rows never written, that no message speaks of them and
only the page that is about to post them shows them, so that a ready page with
nothing to come shows every row. Both are first stated of one message, one answer
and one page as operators of values, so that the lemmas about them need no state.

Only model-checked: the liveness properties (`Converges`, `Settles`,
`DeviceReturns`, `ReaderReturns`, `PagesSettle`, `Told`, `UploadsEnd`, the fairness
half of `KeepsPromise`), since fairness and ENABLED are out of the prover's reach. A
device that booted without a broker is left out of `CopiesStayEqual` for a reason:
there the property is violated (run `allowlist_stale_checksum`).

## 5. Plan

1. `DeviceLink` implements an abstract queue that loses its oldest items.
2. `DeviceLink` composed with `WifiManager` in place of its free `wifi`.
3. The browser's flashing session around esptool; `Online` from `lastSeenAt` and
   the clock of the browser.

## 6. Not modelled

Landing page, design system, layout and routing (they show what they are given),
colours, frequencies and duty cycles of lights and buzzer, the PN532 register
protocol (vendored driver), flashing (esptool), the contract generator, expiry of
sessions (a cookie of nobody, like a signed-out one), deployment and start-up.
Payload formats, logging and wording are left out everywhere. TLS, passwords and
the ACLs of the broker are reduced to whether the device has an account, and
whose password it accepts.
