# Verification of the Grohe Dial firmware

TLA+ specifications of the firmware in this repository: an ESP32-C3 dial that makes a
Grohe Blue water appliance pour over Bluetooth LE, is driven by a rotary encoder or by
HTTP, and is integrated into Home Assistant. The modules are translated from the source;
TLC checks them on small instances and TLAPS proves the central facts for every value of
the constants. `PROJECT.json` lists every run, mutant, theorem and the source lines of
every definition.

## 1. The system

Six tasks share the work: the app task (`App::Run`, one pass every 20 ms), NimBLE's host
task, the `esp_timer` task, the HTTP worker, the default event loop (Wi-Fi, SNTP) and
lwIP. There is almost no locking: every object belongs to one task, and tasks talk
through FreeRTOS queues and posted events.

| Component | State it keeps | Operations | Interacts with | What makes it correct |
|---|---|---|---|---|
| BLE connection manager (`grohe_ble/ble_manager`) | phase, handle, GATT cursor and flags, backoff index and timer, address filter, reject list, three queues | host start/reset, scan, connect, discover, subscribe, write, fail, back off, filter, reject | NimBLE (callbacks), esp_timer, app task (queues) | every phase has its way out under way; late callbacks do no harm; handle and phase fit; writes are not stranded; rejected peers stay away |
| Grohe client (`grohe_ble/grohe_client`) | ready/subscribed, the one pending command, the latest response | SendCommand, Poll, identity probe, TakeCommandOutcome | BleManager's queues, GroheProtocol, credentials, clock | an answer is the answer to its command; probe verdicts concern the probed peer |
| Dial controller (`app/dial_controller`, `dispense_session`) | what the dial shows, pending command, predicted end of the pour | encoder events, API requests, outcomes, connection events, Tick | App::Run | dial, timer and client agree; nothing hangs |
| App loop and API hand-off (`app/app`) | three length-one queues | Run, Status, RequestDispense, RequestStop | HTTP worker | each request gets its own answer; status does not go back in time; bounded waits |
| Protocol (`grohe_protocol`, `grohe_auth`) | response, read handle | build, parse, HMAC | client | parser accepts exactly the format |
| Credentials (`nvs_credentials_provider`) | credentials, pin | Set, Clear, Pin | HTTP worker writes, app task reads | a pin never outlives the credentials it was verified with |
| Wi-Fi and SNTP (`time_service`) | connection phase, users, retries; validity of the clock | Acquire, Release, connect, time out; sync | event loop, OTA and provisioning servers | reference count; every user's callback comes; clock once valid stays valid |
| Provisioning and API server (`provisioning`) | HTTP server | /provision, /api/* | credentials, Wi-Fi credentials, settings, App | stored data is all or nothing; order of commit and reply |
| OTA (`ota`) | update in progress, boot partition | POST, rollback | flash, bootloader | power loss leaves a bootable image; only one update |
| Settings (`settings`) | defaults, one NVS blob | Init, Set | HTTP worker | only validated values; a confirmed setting survives other updates, failures and restarts |
| Encoder (`encoder`) | quadrature phase, counter; button times | edge interrupt, Poll | GPIO interrupt, app task | no edge lost or counted twice; one event per press |
| UI and display (`ui`, `display`, `gc9a01_vendor`) | LVGL objects, backlight | Render | app task, LVGL task | the screen is the DialState's; animations end with their status; lit during a pour |
| Home Assistant (`homeassistant`, Python) | config entry, device and entity registry, coordinator | set up, migrate, poll, reauthenticate, provision, cloud login | the HTTP API | it recovers; one identity; the entry knows what the dial was told |
| Rest: `board`, `bringup`, `device_id`, `firmware_info`, `mem_diag`, `main`, scripts | none, or constants | - | - | - |

The hard behaviour is in the first four and in Wi-Fi, credentials, OTA and the Home
Assistant integration: callbacks of connections that no longer exist, timers that fire
late, queues that overflow, a wait that has timed out and an answer that comes all the
same, a stop that races the end of the pour, power lost between two writes, coroutines
that await the dial with a copy of what others change. The hazards are listed with their
lines in `PROJECT.json`.

## 2. The modules

| Module | Models | Extends |
|---|---|---|
| `BleManager` | `ble_manager.cpp`: all handlers of the host task and the requests of the app task; NimBLE, radio and peer as external actions | |
| `BleManagerProps` | its invariants, fairness, liveness, and the refinement mapping to `BleLink` | `BleManager` |
| `BleLink` | abstract: the link an application sees behind the event queue | |
| `BleManager_proofs` | theorems on BleManager, on BleLink, and the refinement | `BleManagerProps` |
| `DialApp` | one pass of `App::Run`: encoder, API, `GroheClient::Poll`, probe, outcome, `Tick`; link and appliance as external actions | |
| `DialAppProps` | its properties | `DialApp` |
| `Screen` | rendering, time status and display sleep of `App::Run`, the state `UiManager` keeps between two renderings, LVGL's animations | `DialAppProps` |
| `DialApp_proofs` | theorems on DialApp and Screen | `Screen` |
| `ApiHandoff` | `App::Status/RequestDispense/RequestStop` against the loop's API block | |
| `Settings` | `dial_settings.cpp` with the two `/api/config` handlers and `App::Config/SetConfig` | |
| `ApiServer` | the HTTP worker: `ApiHandoff` and `Settings`, one request at a time, and restarts of the dial | `ApiHandoff`, `Settings` |
| `ApiServer_proofs` | theorems on the hand-off, the settings and the worker | `ApiServer` |
| `Network` | `wifi_connection.cpp` and its users: OTA and provisioning server as far as their start, `sntp_time_provider.cpp` whole; driver, access point, DHCP and lwIP as external actions | |
| `Network_proofs` | theorems | `Network` |
| `Identity` | `nvs_credentials_provider.cpp`, the storing half of `/provision`, the probe's verdict in `grohe_client.cpp`, and the filter and reject list of `ble_manager.cpp` | |
| `Identity_proofs` | theorems | `Identity` |
| `Ota` | `ota_server.cpp`'s upload and the boot confirmation; the bootloader, the slots and otadata as external state | |
| `Firmware` | abstract: a confirmed image and at most one on trial | |
| `Ota_proofs` | theorems, with the refinement of `Firmware` | `Ota` |
| `Encoder` | `rotary_encoder.cpp`'s interrupt handler and `EncoderInput::Poll`; shaft, contacts and GPIO controller external | |
| `Encoder_proofs` | theorems | `Encoder` |
| `Home` | the Home Assistant integration: set-up, migration, polling, reauthentication, options flow, against the dial and Home Assistant's files | |
| `Home_proofs` | theorems | `Home` |
| `MC...` | instances for TLC | |

### BleManager and BleLink

Members keep their names where that reads well: `state` is `state_`, `conn` is
`conn_handle_`, `pendingSubscribe` stands for `pending_subscribe_val_handle_ != 0`,
`numServices`/`nextService` for the service table and its cursor. NimBLE calls back on
one task, so each callback is one action; posted npl events (`posted`) are handled in any
order. External state is what NimBLE does for the manager: the scan, the connection
attempt, live and closing links, outstanding GATT procedures.

- Every NimBLE call that can be refused has a fault (`Calls`), and so have the radio and
  peer (`Mishaps`: host reset, lost link, failed attempt, controller reattempt, GATT
  error). `FaultKinds` selects them, `MaxFaults` bounds them.
- A dead link answers only with `BLE_HS_ENOTCONN`; `ble_gap_terminate` refused is the same
  as a late disconnect; NimBLE refuses to scan while scanning or connecting; a host
  reset ends links and attempts through their callbacks before `reset_cb`; a new handle
  has no outstanding procedures.
- Abstracted: addresses are model values, a characteristic is the read characteristic or
  not, several outstanding writes are one, payloads are absent, `Init` succeeds.
- `kDeviceFound` and `kDisconnected` are left within the handler that enters them and
  are not observable.

`BleLink` has neither handles nor timers: a phase (off, searching, linking, ready),
whether the link was subscribed, and the reports the app task has not read, of which a
full queue drops the newest. `BleManagerProps` maps the eight states to the four phases
(`LinkPhase`), reads `subscribed` off the flags and the outstanding CCCD write
(`LinkSubscribed`), and takes `event_queue_` for the reports. What the app task may
conclude from the reports (`ReportsTellLink`) is a property of `BleLink` alone.

### DialApp

The variable `step` is where the loop stands; each step of the pass is one action, and
the environment acts between any two. One user event and one API command per pass; a
Poll with several encoder events is several passes. `connection_status`,
`dispense_status`, `session`, `command_pending`, `pending_amount` and `active_amount` are
the controller's; `ready`, `subscribed`, `pending_command` and `response` the client's.
The controller's copies of ready and subscribed move in the same callback, so there is
one pair.

- `response` merges the protocol's latest response with "its sequence number is past
  the pending command's baseline"; it carries the command it really answers and its
  link, which the code cannot see and the properties compare.
- Time is two flags: `status_over` (the deadline of the shown status has passed) and
  `lost_over`.
- The link is BleManager as its queues show it: DeviceFound, ReadyForProtocol and
  Subscribed in either order, ConnectionFailed. Links alternate between 0 and 1.
  Between the end of one link and the next DeviceFound lies a backoff of at least one
  second; `Polled` says that the loop (20 ms) drains its queues in that time, unless
  `Stalls`.
- `wire` is emptied when a link is found: commands left in BleManager's queue are
  discarded there (`WriteNeverStranded`).
- Left out: water type, `appliance_response`, the counted-up volume (only whether it is
  positive), the wrap of the sequence number.

### Screen

`Screen` repeats DialApp's pass with what `App::Run` and `UiManager` add to each step.
`state_changed` is the flag the handlers' return values are or-ed into; whether a handler
returns true is translated from the handler (`PollReturns`, `OutcomeReturns`,
`TickReturns`), whether it changed anything shown is observed (`stale`). `rendered` is
what `Render` remembers of its last call to find the edges, `ring` the indicator's colour,
`anims` the LVGL animations that run. `PulseEnds`, the pulse's last callback, happens on
LVGL's task between any two steps. `inactive` stands for `now - last_activity_us`: the
minute may end before any pass that finds no pour (`MinuteElapses`), but not within the
0.4 s of a checkmark, and every pass with activity begins it anew. The time status may give
up "Syncing" at any time (that timeout is not counted). No pour begins and ends within one
pass (`AroundApp`). `at_boot` and `overtaken` are history: which of the statuses has not
changed since boot, and whether a pulse has ended over a ring already grey.

### ApiHandoff

Requests are numbered so that answers can be told apart; the code's queue entries have
no number. `dial` counts the changes of the dial's state, so that "older" has a meaning.
A wait may time out at any moment (`TimeOut`), which is what `kApiQueueTimeout` allows
when the loop stalls. `gave_up` is history. `esp_http_server` has one worker.

### Settings and ApiServer

`stored` is the NVS blob, `values` the member `values_`, `update` the POST being served
with its `new_values`; the steps of `Set` (validate, write, commit, publish) are actions of
their own, each of which can fail or be cut by a restart. `acknowledged` is what clients
were last told of each field, `doubtful` the fields for which the code promises nothing:
those of a request that the flash failed or a restart cut, and all of them after a boot
that could not read the blob. A field is a model value with a set of valid values; one
value is above the range of the step, which the handler accepts and only `IsValid`
refuses. At first start the blob may be absent or an earlier firmware's.

`ApiServer` shares the worker between commands and settings (each only when the other is
idle). `Restart` creates the queues anew and boots the settings; a request in service gets
no answer, and time goes on, so that the dial it starts with is newer than the one
before. Left out: the water type's own parsing, and the erasing of an NVS partition that is
full or of another version.

### Network

Two tasks: `app`, which acquires for one user after the other while it boots, and
`loop`, the default event loop. A user's callback is the same code on either, so those
actions take the task as a parameter. `events` is the event loop's queue; `bits`,
`ref_count`, `retry_count`, `sta_connected` and `pending_waiters` are the members of
`WifiConnection`. What the code does under `waiters_mutex_` is one action; `fetch_add`,
the reset of the cycle and the start of the driver are three, so that the event loop may
act in between.

- `driver` is off, started, connecting, associated or online, and reports its changes as
  events; switching it off reports a disconnection if there was a connection.
- SNTP may be reported synchronised as soon as it polls: between `esp_sntp_init` and the
  creation of its time-out too, which on the app task races the event loop.
- Left out: the blocking `Acquire` (nothing calls it), the stop event, a full event
  queue (32 entries), and the window inside `TearDown`'s own test and set of
  `torn_down_`.

### Identity

A key is named by the appliance that accepts it. `flash` is what NVS holds: ESP-IDF
writes each entry through when it is set, so that `commit` changes nothing and `Set` is
two writes. `cache` is the provider's memory, read by the app task without a lock while
`Set` copies: in between, the key is one nobody accepts. `Reboot` loads `flash` and
loses the rest.

- `command` is the one-slot queue to the host task, which peeks at it, so it is never
  empty again; `posted` is its event.
- The backoff before a new connection is long enough for the app task to see the
  old one fail and for the host task to take a command (`ConnectPeer`). The filter of a
  stored pin is posted before the host has synchronised.
- Left out: `Clear` and `ClearAddressFilter`, which nothing calls; the developer
  credentials of the local header (an unprovisioned dial's key is one nobody
  accepts); the user's commands, which `DialApp` has.

### Ota and Firmware

`content` is what the two slots hold, `entry` and `newest` are otadata (the state of each
slot's entry and which is newer), `running` the slot the dial runs from; `upload` is where
`HandleOtaPost` stands. The bootloader (`Boot`) is external and written from what the
code relies on: it takes the newest usable entry, turns "new" into "pending", and turns
"pending" into "aborted" if it finds it at the next boot. Power may go at any step, and
while an entry is rewritten that entry may be gone (`EntryLost`). An image is healthy,
crashes during startup, or blocks there; a malformed upload is `Garbage`, which
`esp_ota_end` refuses.

`SlowStartup` says whether a startup may outlast a whole upload. Startup takes seconds and
an upload of a megabyte over Wi-Fi longer; if it did, `ConfirmBootValid`, which confirms
whichever entry is active, would confirm the newly selected image instead of the running
one.

`Firmware` promises: one confirmed image that starts up, and at most one on trial, which
becomes the confirmed one by starting up and leaves it alone otherwise. The mapping takes
for confirmed the content of the slot that a failed trial leads back to (`Kept`).

### Encoder

The shaft turns by edges; each edge latches its pin's interrupt, and `OnGpioIsr` reads
phase A and phase B one after the other (`EnterIsr`, `FinishIsr`), so that the shaft may
have moved in between. `Slip` is how many edges the shaft may get ahead of the handler.
`accumulated_count` moves by the code's own transition table. The button's contacts bounce after
each press and release until the next pass of the loop has read them: bounce is shorter
than 20 ms, and that is the only debouncing there is. Left out: `Reset`, which
nothing calls, and the configuration of pins and pull-ups.

### Home

Coroutines of Home Assistant's event loop interleave where they await the dial: the
set-up with its migration, the coordinator's refresh, the reauthentication flow, the
options flow. `call` is what each of them waits for. `entry`, `entities` and
`devices` are what Home Assistant has in memory and `disk` the three files it saves
separately and with delay; `Crash` loads them. The entities' unique ids are derived from
the host ("host") or from the `device_id` that newer firmware reports ("mac").

`late` holds the provisionings that a time-out or a crash of Home Assistant gave up on
(`Abandoned`) and that the dial may serve all the same (`ServeLate`), as long as it does
not restart. `torn` and `unlinked` are history: a crash that left one of two mixtures of
files which the set-up cannot mend; and an entry that does not follow the dial, because a
provisioning's answer was lost, its request was served late, a crash came before the entry
was saved or a reauthentication wrote an old copy back, until the next provisioning that is
answered. The cloud login that yields an
appliance's credentials is a choice of the options flow.

## 3. Runs

| Run | Module | Checks | Instance |
|---|---|---|---|
| `lifecycle` | MCBleManager | `TypeOK`, `Awaited`, `ConnHandleValid`, `DiscoverySequential`, `WriteNeverStranded` | two handles (so that an old and a new link coexist), three faults of any kind but a refused descriptor search, one queued write, backoff index to 2; handles symmetric |
| `selection` | MCBleManager | `RejectedPeerLeaves`, `LinkSpec`, `AlwaysRetries`, `SubscribeSettles` | two appliances, reject list of one and event queue of three, so that both overflow; filters set and peers rejected at any time; one fault, of any kind but a refused descriptor search, a refused cancel and a repeated attempt; fairness below |
| `refused_search` | MCBleManager | `AlwaysRetries` (violated) | one refused descriptor search |
| `loop` | MCDialApp | `PendingAgree`, `SessionShown`, `PourNeedsLink`, `OutcomeAnswersCommand`, `VerdictFromProbedPeer`, `PourShowsItsAmount`, `ReturnsToIdle`, `CommandResolved` | fairness below; two amounts, losses, re-provisioning, failing pin store, event queue of four (one link's reports), notifications of two |
| `screen` | MCScreen | `ScreenIsCurrent`, `PourIsLit`, `WidgetsFit` | the same loop without losses, re-provisioning and failing flash, which change nothing on the screen that a lost link does not |
| `handoff` | MCApiServer | `TypeOK`, `PromptAnswers`, `ConfirmedSettingsHold`, `RestartKeepsSettings`, `StatusNeverGoesBack`, `EveryRequestAnswered` | two requests, two state changes, time-outs; two fields of two values, two updates, two mishaps (flash failures or restarts) |
| `network` | MCNetwork | `RadioFollowsUsers`, `OneVerdict`, `TimeVerdictIsFinal`, `WaitersAnswered`, `SntpSettles` | the three users, any of the servers enabled, five retries as in the code, two synchronisations, an access point that comes and goes |
| `lost_link` | MCNetwork | `LostLinkIsRetried` (violated) | the same, one synchronisation |
| `identity` | MCIdentity | `PinMatchesCredentials`, `ConnectsOnlyToPinned`, `GenuineIsFound` | three appliances, reject list of two, two provisionings, two mishaps (power cuts, flash or link failures) |
| `reprovision` | MCIdentity | `ReprovisioningTakesEffect` (violated) | two appliances, one provisioning, nothing fails |
| `update` | MCOta | `NeverBricked`, `FirmwareSpec`, `TrialEnds` | two healthy images, one crashing, one hanging, garbage; uploads of up to two chunks; power lost at any step, any number of times |
| `home` | MCHome | `NoOrphans`, `LinkFollowsDial`, `Recovers` | two tokens, one appliance, two mishaps (lost answers, crashes, changed tokens); the dial up and down at will, old firmware or new |

`Encoder` has theorems and no run.

Why the bounds are enough. In BleManager a link interacts at most with the leftovers of
earlier ones, which differ only in being stale: two handles and three faults reach an old
link dying while a new one is discovered and a timer pends. `EventDepth = 0` where
events are not the question: the queue is write-only for the manager. In `selection` three
events hold one link's reports and lose the next one's. One service is
enough for the cursor to reach its end and for a characteristic to be bounded by the end
of a service or by the next characteristic. In DialApp two amounts tell the dialled from
the pending one, and two link names tell this connection from the previous one, which is
all an earlier one can be mistaken for. In ApiServer a late answer needs the request
that gave up and the one that gets its answer; two fields tell the posted from the
merged one, two updates one that is confirmed and one that endangers it, two mishaps a
failed commit and the restart that brings its blob back.
In Network the retry budget is the code's own; a second synchronisation is one that
finds SNTP torn down, and a third would find the same. In Identity two wrong appliances
fill the reject list (four places in the code), and the second provisioning meets
everything the first one left behind. In Ota a second healthy image is one that replaces
the first, and two chunks have a middle in which power may go; what the slots held
before does not matter further back than the confirmed image. In Home two mishaps are, for
instance, a rotated token and the crash that loses the new one. A second appliance
makes the run too large; what it would add, an entry that names the wrong one, the theorem
`EntryFollowsDial` covers for any set of appliances.

Deadlock is checked except in `selection` and `refused_search` (a host whose faults are
used up may rest), in Identity (a pinned dial rests when its bounds are used up), in
`handoff` (the bound on requests ends every behaviour) and in `update` (with a slot
selected or a startup that hangs, only power moves it on).

Fairness. `FairSpec` of BleManager: the host task and the esp_timer task run when they
have something to do; NimBLE ends each procedure, attempt and termination; an appliance
in range advertises and has the expected service and descriptor. Nothing is assumed of
the app task, of faults or of notifications, and the fault "cancel" (a scan that cannot
be stopped) is excluded: it can repeat for ever. DialApp: the loop never blocks
(every wait in it has a zero time-out, `app.cpp:256`, `vTaskDelay(20 ms)`), clocks
advance, and a linked appliance reads what is written. ApiHandoff: only the HTTP task is
fair, so `EveryRequestAnswered` holds even of a dead app task. Network: both tasks and
the timer run, an attempt to associate ends, and an association gets an address or is
lost; without the last one nobody would ever be answered, since the code has no time-out
for DHCP. Nothing is assumed of synchronisation or of the access point. Identity: the
tasks run, appliances in range advertise and answer; nothing is assumed of
provisioning. Ota: the bootloader, the startup and a restart that was asked for go on;
nothing is assumed of clients or of the power supply. Home: Home Assistant runs its
coroutines and timers, requests are answered or time out, and a user who is asked for the
token again and again types the right one some time; nothing is assumed of saves
and crashes, and `Recovers` is stated for a dial that stays reachable.

## 4. What the runs found

1. A refused descriptor search leaves the manager "ready" without a connection, for ever
   (`refused_search`; `ble_manager.cpp:1015`).
2. A Wi-Fi link that is lost after it was up is never retried: every event after the
   first verdict is dropped, and `IsConnected` stays true (`lost_link`;
   `wifi_connection.cpp:630`). The architecture document grants it five retries.
3. A dial pinned to one appliance and provisioned for another returns to the first one
   for ever, until a reboot: `Set` forgets the pin and nothing clears the address filter
   made from it (`reprovision`; `nvs_credentials_provider.cpp:194`). Likewise an appliance
   rejected under wrong credentials stays rejected for this boot.

Not runs of their own; the models show each of them:

- Link and client. A notification left over from the previous link decides the identity
  verdict on the next peer if the loop stalls for a whole backoff (`Stalls`;
  `grohe_client.cpp:90` sends the probe before `:91` drains the queue). The identity
  probe, a stop command, ends a user's pour that was sent before it on an unpinned
  connection, and the dial goes on counting. A pin that could not be stored is probed
  again in every pass, not "on the next reconnect" as the log line says. The comment at
  `ble_manager.cpp:1379` ("never re-armed while already pending") is not so after two
  failures within one backoff; `esp_timer_start_once` then refuses and the earlier delay
  stands, which `Awaited` shows harmless.
- API. After a time-out the verdicts are off by one: the late one answers the next
  request, and its own stays for the one after; so `PromptAnswers` ends with `gave_up`.
- Dial. A long press between a dispense's request and its acknowledgement changes the
  water type that is shown for the pour (`dial_controller.cpp:123`; not modelled).
  `active_dispense_amount_ml` is documented as 0 while idle and is never reset.
- Screen. A link lost within the 175 ms of a pulse leaves the ring in the accent colour
  while nothing can be poured, contrary to `StartPulse`'s comment that accent is always
  the correct colour to go back to (`ui_manager.cpp:463`); `WidgetsFit` allows that colour
  until the ring is ready again (`overtaken`) and no other. The halo does not breathe while
  the dial connects for the first time, contrary to the comment on the glyph
  (`ui_manager.cpp:420`): `last_connection_status_` starts as `kConnecting`, so there is no
  edge; nor would the glyph sweep if the link were up before the first pass. `WidgetsFit`
  asks for both only once the status has changed (`at_boot`).
- Credentials. A provisioning that overlaps a probe, or is cut between its two writes,
  leaves new credentials with the old appliance's pin; `PinMatchesCredentials` excludes
  this until the end of the next undisturbed one (`mixed`). A probe signed while `Set`
  copies gets the right appliance rejected (`BeginCopy`), of which no property speaks.
- Settings. A commit that fails after the blob was written is reported as a failure and
  takes effect at the next restart; `RestartKeepsSettings` excludes it (`unsure`).
- OTA. An image whose startup blocks is never reset: the app task is registered with the
  watchdog only after `ConfirmBootValid`, while `sdkconfig.defaults:184` and
  `docs/ARCHITECTURE.md:661` promise a rollback; `TrialEnds` excludes it. With
  `SlowStartup` a new image would be confirmed unseen. A client that stops
  sending without closing keeps the worker in its receive loop (`ota_server.cpp:241`).
- Home Assistant. The reauthentication writes back a copy of the entry's data made
  before it awaited the dial, and so undoes a provisioning that finished meanwhile
  (`config_flow.py:124-136`); a lost answer to a provisioning, or a request that the dial serves
  after the form has reported a failure (`config_flow.py:258`), leaves the entry behind the
  dial. `LinkFollowsDial` excludes all three until the next provisioning that is answered
  (`unlinked`). Files saved so that the entry has its new identity and the entities not, or
  the device's row without any entity, leave orphans for good (`__init__.py:170` returns
  early). Two changes of one number overlap without an order (`number.py:60`; not
  modelled).

## 5. Proofs

Every invariant and every action property the passing runs check, and every refinement,
is a theorem. Nothing is assumed but the named assumptions on the constants
(`BleAssumption`, `DialAssumption`, `HandoffAssumption`, `SettingsAssumption`,
`NetworkAssumption`, `IdentityAssumption`, `OtaAssumption`, `HomeAssumption`), which TLC
evaluates in the runs, and what a theorem's own `ASSUME` says; the latter are explained
below. The theorems hold for any number of handles, addresses, faults, amounts,
requests, retries, appliances and images and any queue depth. Each strengthening named
here was checked by TLC as an invariant before it was proved.

- `BleManager_proofs`, on `BleManager`: `TypeCorrect`. `WritesNotStranded`: inductive with
  the types alone. `LinkCorrect`, `NeverStuck` and `DiscoveryCorrect` assume that no
  descriptor search is refused (finding 1 refutes them otherwise). The argument is
  layered: `LinkInv` (`SyncIdle /\ ConnHandleValid /\ ScanOnlyWhenUnconnected`) is
  inductive with the types; `Awaited` needs it, since a handler that leaves a phase must
  know what else may be under way; `GattInv` adds that the procedures outstanding for the
  current handle are at most one discovery plus the descriptor search a pending
  subscription waits for. `RejectedAreLeft` (`RejectedPeerLeaves`) follows a peer from its
  selection to its link (`RejectInv`): what is being connected to was selectable, and
  stays so because only a linked peer is rejected and nobody lifts the filter. It assumes
  besides that the application never clears the filter (nothing in the code does; a
  cleared filter leaves a rejected peer linked) and that the controller never repeats an
  attempt by itself (the repeated link would be to the rejected peer).
- On `BleLink` and its refinement: `ImplementsLink`, every step of BleManager is a step
  of `BleLink` or a stutter, again if no descriptor search is refused. It rests on
  `LinkInv`, `GattInv` and `Awaited`, and on `OnceInv`: nothing runs while the machine is
  off, the controller repeats an attempt only for a link that is gone, and a CCCD write is
  outstanding only for a subscription that was started and is no longer pending, without
  which a link could be subscribed twice. `ReportsAreTrue` is about `BleLink` alone: what
  the last report says of the link is inductive only with what holds while reports are
  dropped: a full queue says nothing, and between two "ready" lies a "failed" (`Told`).
  `ReportsOfManagerAreTrue` carries it over to BleManager.
- `DialApp_proofs`, on `DialApp`: `TypeCorrect`; then `DialInv`, the conjunction of
  `PendingAgree`, `SessionShown`, `DispenseFromIdle`, `NothingDeliveredWhenIdle` and
  `ReadyIsHonest`, is inductive: none of them is alone (a rejected dispense keeps
  `NothingDeliveredWhenIdle` only because it was sent from Idle, a lost connection keeps
  `SessionShown` only if the volume goes with it). `PendingAgreed`, `SessionAgrees`,
  `IdleIsClean` and `ReadyAgrees` read it off. `PourHasLink` adds that a command in flight
  has a ready link and a valid clock (`LinkHeld`). They hold with losses, stalls,
  re-provisioning and failing flash.
- `AnswersCommand` (`OutcomeAnswersCommand`), `JudgesProbedPeer` (`VerdictFromProbedPeer`)
  and `ShowsItsAmount` (`PourShowsItsAmount`) compare a command with an answer that
  carries neither its number nor its link. Two layers: `ReadInv` says which link the
  loop believes in (the queued events are the last link's only, in order, and none was
  dropped, so that `found` is that link or its DeviceFound is next); `FlightInv` says that
  whatever is on the wire, among the notifications or in `response` belongs to the one
  pending command and, unless the end of the link is still to be read, was sent over this
  link. They assume `QueueOfLink`: the event queue holds at least the four reports a link
  can make (the code's `kEventQueueDepth` is 8), and the loop does not stall for a whole
  backoff. Without the second they fail (section 4, "Link and client"); without the first a
  lost DeviceFound would hide the change of link.
- On `Screen`: `ScreenRunsApp`, a Screen is a DialApp, so that everything above holds of
  it; `ScreenCurrent` from `ScreenInv` (the loop knows of every change it has not
  rendered, which is only before the rendering step); `WidgetsFitState` from `WidgetInv`,
  which ties the animations and the ring to the status rendered last rather than to the
  current one, and needs `PourHasLink`: the pulse of a pour would otherwise colour a ring
  that is not ready. `StaysLit` rests on `PourCounted`: a pour, its checkmark included, is
  lit and has not used up its minute, except in the rest of the pass in which it begins.
- `ApiServer_proofs`, on the hand-off, by itself and in the worker with its restarts:
  `TypeCorrect`/`ServerTypes`; `StatusInOrder`/`ServerStatusInOrder` from `ToldInOrder`
  (what was told is no newer than what is remembered, which is no newer than a queued
  snapshot, which is no newer than the dial); `AnswersMatch`/`ServerAnswersMatch` from
  `InTransit` (until somebody gives up, the request is in exactly one place).
- On the settings: `SettingsCorrect` from `SettingsInv`. `RestartKeepsSettings` is not
  inductive: memory and flash agree only until the blob is written (`AgreeInv`), and a
  restart in the middle may bring back the blob, so that `StoredInv` says of the flash what
  `ConfirmedSettingsHold` says of the memory; `UpdateInv` carries the merge from the
  parsing to the write. `ServerImplementsSettings` maps every step of ApiServer to a
  step of Settings or a stutter, and `ServerKeepsSettings` follows.
- `Network_proofs`: `TypeCorrect`, `RadioFollows` (`RadioFollowsUsers`), `OneVerdictTold`
  (`OneVerdict`) and `TimeDecidedOnce` (`TimeVerdictIsFinal`) from `NetworkInv`. `HoldInv`
  is the counting argument: `ref_count` is the sum over the users of 0 or 1, each
  holding a reference from its increment on, which only SNTP gives back, once, when it is
  torn down; and whoever waits, was told or runs a timer has made that increment. `Quiet`: before the first user has
  started the cycle nothing is decided, queued or waiting. `Decided`: from the first
  verdict on the bits show it, and what any task is about to tell is that verdict; this
  is where the missing retry of finding 2 keeps verdicts from being told twice.
  `RadioInv`: once a cycle has begun, the driver is off after the last release, and
  otherwise only if it could not be started. For any retry budget.
- `Identity_proofs`: `TypeCorrect`; `PinFollowsCredentials` (`PinMatchesCredentials`) and
  `PinnedConnectsToItsOwn` (`ConnectsOnlyToPinned`) from `IdentityInv`. `ProbeOrder` keeps
  probe, answer and pinning on one unpinned link; `FilterFollows` finds the pin in the
  filter or in the command slot on its way there, so that no connection is made
  around it; `PinInv` says of each step of `Set` and of each step of pinning what flash and
  cache hold (`Settled` between them, and while `Set` runs no pin at all), as long as the
  two have not overlapped. For any appliances, capacity and number of provisionings.
- `Home_proofs`: `TypeCorrect`; `OneIdentity` (`NoOrphans`) and `EntryFollowsDial`
  (`LinkFollowsDial`) from `HomeInv`. `LinkInv`: an answer on its way to the options flow
  was for what the flow selected, and the dial has it unless an older request was served
  since. `RowInv`: anything under the stable identity, in memory
  or in the files, means that the dial has reported it, and no answer without one is on
  its way any more (`MacKnown`), without which an entry could fall back to its old
  identity; and unless a crash tore the files the set-up can mend both what is in memory
  and what is on disk (`OneRow`).
- `Ota_proofs`: `NoBrick` and `ImplementsFirmware`, both for a startup that does not
  outlast an upload (`~SlowStartup`). The invariant says where a fallback may be: the
  running slot is the one that is kept or the one on trial, an upload never targets
  the slot that is kept, and a selected entry holds an image that was checked.
- `Encoder_proofs`: `CountsSteps` (if the handler is never two edges late, no edge is lost
  or counted twice, whatever the torn reads return), `LosesPairs` (otherwise an even number
  is lost and the phases are found again), `TellsPressOnce`. For any shaft position and
  any `Slip`; the counter's 32 bits are not modelled.

Only model-checked: the liveness properties (`AlwaysRetries`, `SubscribeSettles`,
`ReturnsToIdle`, `CommandResolved`, `EveryRequestAnswered`, `WaitersAnswered`,
`SntpSettles`, `GenuineIsFound`, `TrialEnds`, `Recovers`), since fairness and ENABLED are
beyond the prover.

## 6. Plan

Done: sections 2 to 5. Next, in this order:

1. Proofs of what the liveness arguments rest on: that each waiting state has an
   enabled step that ends it, stated as invariants.
2. `DialApp` on top of `BleLink` instead of its own link, with the proof that a link of
   `DialApp` is one of `BleLink`.
3. `Identity` composed with the probe of `DialApp`, so that a user's command and the
   verdict meet re-provisioning.
4. The water type of `DialApp`; the arithmetic of amounts and predicted durations.

## 7. Not modelled

- The contents of advertisements, characteristics and payloads, HMAC, base64, JSON and
  the parser (`grohe_protocol`, `grohe_auth`): pure functions of their inputs. Of the
  protocol the models have which command a response answers and its code
  (`HandleNotification`).
- The water type and the long press that changes it; the predicted duration of a pour.
- The panel driver, texts, geometry and colours of the UI beyond the ring.
- In Home Assistant: the entities' copies of the configuration, buttons and services, the
  cloud login.
- NVS below "an entry is written or not"; memory exhaustion while starting up.
- `board`, `bringup`, `device_id`, `firmware_info`, `mem_diag`, `main`: no state after
  start-up. The bootstrap scripts: one-shot requests to the vendor's cloud.
