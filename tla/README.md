# TLA+ models of the Ruuvi Gateway firmware (ESP32)

The gateway receives Bluetooth advertisements from an nRF52 radio chip over a
UART, keeps the latest report of each tag in a table and relays the reports to
up to three HTTP targets and an MQTT broker.  It is configured over its own
HTTP server, updates its firmware, and runs about ten FreeRTOS tasks with very
little memory.  This directory holds TLA+ models of the firmware's own code
(`src/main`, and the patched bootloader in `src/components/bootloader_support`),
TLC configurations that check them, and TLAPS proofs.

Vendored components, the submodules (`esp_wrappers`, `esp32-wifi-manager`,
`comm_tester`) and ESP-IDF are external: they are modelled only by what
`src/main` expects of them.

## 1. Inventory

| Part | Files in `src/main` | State | Operations | Interacts with |
|---|---|---|---|---|
| advertisement table | `adv_table.c` | elements, hash table, history list, three retransmission lists | put, drain a list, take the head of list 3, read history, read statistics, clear | written by the UART task, read by adv_post, adv_mqtt and the HTTP server, under one mutex |
| advertisement intake | `adv_post.c`, `adv_post_cfg_cache.c` | cached filter and configuration, advertisement counter | callback for each advertisement, acknowledgement and request of the nRF52 | UART task; table; adv_post signals |
| adv_post task | `adv_post_task.c`, `adv_post_signals.c`, `adv_post_async_comm.c`, `adv_post_timers.c` | `adv_post_state_t`, action in progress, pending targets, timers | a handler for each signal of `adv_post_sig_e` | every other task, by signals; HTTP requests |
| nRF52 link | `adv_post_nrf52.c`, `adv_post_green_led.c` | last command, waiting for an acknowledgement, configured, in hardware reset | send configuration or LED command, acknowledgements, timeouts, resets | UART task, adv_post task, HTTP server (new configuration), firmware updater |
| relaying suspension | `gw_status.c`, `event_mgr.c` | two suspension counters, two command bits | suspend, resume, wait; notify | clients (HTTP server, firmware updater, main task), adv_post, main task |
| HTTP requests | `http.c`, `http_post_advs.c`, `http_post_stat.c`, `http_download.c`, `http_check_mqtt.c`, `tls_shared_buf.c` | one request (`p_http_async_sema`), shared TLS buffers | start, poll, finish, abort | adv_post; clients |
| MQTT | `mqtt.c`, `adv_mqtt*.c` | the client, connection status | start, stop, publish | main task, adv_post, adv_mqtt task |
| main task | `main_loop.c` | configuration mode, periodic timers, network status bits | 20 signals: network, configuration mode, remote configuration, update check, relaying mode, restart of services | all |
| network subsystem | `network_subsystem.c`, `ethernet.c`, `network_timeout.c` | link and hotspot status (in wifi_manager) | callbacks for links, hotspot stations, WPS and status requests | main task; configuration |
| HTTP server callbacks | `http_server_cb*.c` | none of their own | read, save and download the configuration; check for and start updates | main task, configuration, firmware update, relaying |
| configuration | `gw_cfg.c`, `gw_cfg_storage.c`, `settings.c`, `gw_cfg_cmp.c` | current configuration behind a read/write mutex, flash copy | read, update, store | all |
| firmware update | `fw_update.c`, `esp_ota_ops_patched.c`, `esp_ota_helpers.c`, `nrf52fw.c`, `nrf52swd.c` | stage, URL, two slots of three partitions, otadata, nRF52 flash | download, write, flash the nRF52, switch the slot, clean up, confirm, roll back | HTTP server, start-up, bootloader, nRF52 link |
| bootloader | `../components/bootloader_support` | otadata | select, put on trial, give up, fall back | firmware update |
| start-up | `ruuvi_gateway_main.c` | none | checks of the running release, confirmation, rollback | firmware update, all |
| time | `time_task.c` | synchronized or not | SNTP events | adv_post, main task |
| LEDs, reset button | `leds*.c`, `reset_task.c` | LED state machine, button timers | signals | main task |
| text | `metrics.c`, `http_json.c`, `gw_cfg_json_*.c`, `gw_cfg_log.c` | none | formatting | - |

What is hard here:

* **Tasks that interleave.** The nRF52 link is driven by the UART task, by
  adv_post and by the HTTP server; flags are read and written without a lock.
* **Signals without order or count.** A task fetches a *set* of signals and
  handles them by number; two of the same kind are one.
* **A request for quiet.** A client counts itself in, sends a notification to
  two tasks and waits for two bits that these tasks clear some time after they
  have read the counter.
* **One of a kind.** One HTTP request, one http_server mutex, two TLS buffers;
  finding one taken is a failed assertion, and that restarts the gateway.
* **An unreliable peer.** The nRF52 loses, rejects or delays answers and
  restarts on its own; nothing but timers brings the link on.
* **Flash that survives a power loss half written.** A release is three
  partitions that are written one after the other, the entry that selects it is
  erased and then written, and the radio chip is flashed in between.
* **A mode that stops timers.** Configuration mode stops the periodic checks of
  services; every way out of it has to start them again.
* **A linked table that is reused.** An element is in a hash bucket, in the
  history and in up to three lists when it is given to another tag.

The correctness properties of each part are those of section 4; the hazards,
each with its line in the code and the properties that cover it, are listed in
`PROJECT.json`.

## 2. Modules

| Module | Models |
|---|---|
| `AdvStore` | what the table promises: a bounded store of the most recently updated tags with a set of pending tags for each list |
| `AdvTable` | `adv_table.c`: elements, hash buckets, flags, lists, history |
| `AdvTableProofs`, `AdvTableStoreProofs` | theorems about `AdvTable`; the refinement of `AdvStore` |
| `Nrf52Link` | `adv_post_nrf52.c`, `adv_post_green_led.c` and the nRF52 itself |
| `Nrf52LinkProofs` | theorems about `Nrf52Link` |
| `Relay` | suspension of relaying and transmissions: `gw_status.c`, `adv_post_signals.c`, `adv_post_async_comm.c`, parts of `main_loop.c`, `http*.c`, `mqtt.c` |
| `RelayProofs`, `RelaySuspensionProofs` | theorems about `Relay`: types and notifications; counters, locks and the handshake of a suspension |
| `OtaData` | the two otadata entries: validity, active entry, the entry an update writes (`bootloader_common.c`, `esp_ota_ops_patched.c`) |
| `FwInstall` | what the firmware update promises: a whole release to come back to, and trials |
| `FwUpdate` | `fw_update.c`, the bootloader, `app_main`, the check of the nRF52's firmware; extends `OtaData`, implements `FwInstall` |
| `CfgMode` | configuration mode and the services that stop and start with it: `main_loop.c`, `http_server_cb*.c`, `reset_task.c`, `network_subsystem.c` |
| `FwUpdateProofs`, `CfgModeProofs` | theorems about `FwUpdate` and `CfgMode` |
| `MCAdvTable`, `MCNrf52Link`, `MCRelay`, `MCFwUpdate`, `MCCfgMode` | instances for TLC |

Actions have the names of the functions they model, without their common
prefix (`on_sync_ack_timeout` is `adv_post_nrf52_on_sync_ack_timeout`).
Definitions marked *Mutant* are never part of a specification: each is a
plausible mistake in one definition, with which the property named in
`PROJECT.json` fails.

### AdvTable

An element of `g_arr_of_adv_reports` is a number; `report` holds its MAC,
payload, timestamp and counter.  `hash_table` maps a bucket to the set of
elements linked in it, `list` is the retransmission lists in order, `in_list`
their flags, and `hist` the history list as a function from position to
element.  A put is one action (the code holds the mutex), with its cases
`PutNew`, `PutChanged` and `PutRepeated`.  A payload is an abstract value; only
whether it is longer than a regular advertisement matters, because a regular
one does not replace a longer one.  `Recent`, `Reports` and `Pending` are the
table as its users see it, and the refinement mapping to `AdvStore`.

A timestamp is the Unix time, or the number of the advertisement when NTP is
off.  The model's clock does not go back.  The HTTP task reads the time before it
waits for the table's mutex, so the current time of a history request is any time
up to now, and the ages are computed modulo `Word` (2^32 in the code, 8 in the
instance): a report that was put in between is newer than the current time, its
age wraps, and the answer is empty.  `HistoryReadComplete` names this exception.
Two other things a reader of the code may
not expect, both visible in the model: the very first report without NTP has
timestamp 0, which the statistics take for a free element; and a report that
was not sent yet is lost when its tag is forced out of a full table.  A list is
drained before its request is started, so a request that fails loses its
reports: they are relayed at most once.  The comment at `adv_table.c:184` says
that a new tag is inserted if the retransmission list is not full; the code has
no such condition, it always takes over the last element of the history.

### Nrf52Link

adv_post fetches its signals as a set (`TakeSignals`) and handles the lowest
first.  The UART task's handler of an acknowledgement is two steps
(`on_async_ack_read`, `on_async_ack_clear`), because it works on
`g_adv_post_nrf52_last_cmd` without a lock; the comment at
`adv_post_nrf52.c:430` calls this access read-only although line 432 writes.
The chip (external) boots, asks for its configuration, executes or rejects
commands.  `tx` and `rx` are the bytes on the UART; the HTTP server's
`adv_post_nrf52_cfg_update` is a step that caches and a step that signals.

Assumptions about time: a hardware reset lasts long enough that nothing is left
on the UART when it ends; a timeout that overtakes an answer already on its way
costs a fault of kind "late"; the request of a chip that restarts on its own is
not lost (the code could not notice; a chip that stays silent after a
*hardware* reset is the fault "mute").  The threshold of 10 lost
acknowledgements is 2 in the instances.  The firmware updater keeps the chip in
manual reset mode until the gateway restarts.

### Relay

`post` is `adv_post_state_t` with the globals of `adv_post_async_comm.c`;
`task` says where each client, and the main task, is between counting itself
in, raising the bits, notifying, waiting and using the network.  `held` is the
stack of its suspensions: the handlers of the HTTP server and the firmware
updater suspend relaying around downloads that suspend it again.  The counters
change in one step (the code holds a mutex); raising the bits, notifying,
waiting for the one bit and then the other are steps of their own, and so are
reading the counter and clearing the bit in adv_post and in the main task.
A client that has suspended both channels may also check an MQTT broker
(`http_check_mqtt`), which starts and stops the MQTT client inside the suspension.
`MaxChanges` bounds the changes of network, time and configuration.

`lock` has the owners of the http_server mutex and of `p_http_async_sema`.
`failed` collects assertions that have failed; a failed assertion ends the run
of the gateway, so `Next` requires that there is none.  Unlocking a mutex that
is not held is noted in `failed` but has no assertion, and the run goes on.

Choices: MQTT runs over TLS and sends periodically; the big TLS buffer is only
asked for by a client that has suspended both channels; a periodic timer fires
when its signal is not already pending (firing twice changes nothing); an empty
MQTT list behaves like a list of one report; how many reports there are does
not matter otherwise.  `Events` selects what the environment does in an
instance; without the event `network` the gateway starts online and stays so.

### FwUpdate

A slot has three partitions (`part`): the application, `gwui` and `nrf52`.  A
partition holds a release's file, is `Blank`, or is `Broken`.  The application
image carries the signatures of the two others, so a slot is good when all
three are of one release (`Whole`).  `ota` is the two otadata entries; a rewrite
is two steps, `EraseEntry` and `WriteEntry`, and until the second only a power
loss, or the failure of the write, can happen.  `phase` goes from the bootloader
(`select`, `load`) through the checks of `main_task_init` to `main`; `task` is up
to two instances of `fw_update_task`, because the automatic update does not look
whether one is in progress, and a failed one clears the reason 5 seconds before
it restarts the gateway.  They share `url`, as in the code, so one release's
application can be followed by another's data.

`PowerLoss` is possible everywhere and keeps flash, the chip and the NVS flag.
`Written` is the outcome of a download: the file, or damage, also where the code
takes a truncated or wrongly resumed download for a success; the data partitions
are not verified before the switch.  `wl` is the slots whose wear-levelling area
a mount has changed (external), which the next start restores before it checks.
`PreservedEntry` is the repository's own change to `esp_rewrite_ota_data`: the entry
of the running image is kept even when the other one has the higher sequence number.

`Fault` is a start-up that fails by accident, of any release, confirmed or not;
`app_main` answers all of them with a rollback.  For a release on trial this leads
back to the base.  For a confirmed one it leads to whatever the other slot holds,
which may be half an update (section 5); `FwInstall` therefore has the rollback of a
failed base as a step of its own, after which the base may be another release or
lost for good.  A task that cannot be created (`RunTask`) leaves the reason at NONE,
also that of an update already in progress.

Assumptions: in the passing run no update is requested before the running release
is confirmed (section 5 has the other case).  Flash writes fail only at the switch
of the boot partition.  When neither slot holds an image the bootloader resets for
ever and the model stops.

### CfgMode

`sig` is the signals sent to the main task and `batch` those it has taken, which
it handles by number.  `services` is what the saved configuration enables,
`applied` what it enabled when services were last started.  The handler of
DEACTIVATE is two steps, because it stops the timer before it looks at the mode;
so are the requests and the button, which send ACTIVATE and then start the
timer.  The callback of Ethernet is three: it looks whether the configuration is
empty, sends SET_DEFAULT_CONFIG and goes on, and other tasks may save in between.
The checks that the main task asks the HTTP server for are `req` and
`http`.

External, and chosen freely: whether the hotspot is active, the network
connected, the time synchronized and the hour allowed.  Left out: start and stop
of the links and the hotspot, LEDs, durations of timers, relaying (`Relay`), and
the start of an update, which ends in a restart (`FwUpdate`).

Settings can be saved at any time, in configuration mode or not.

## 3. Runs

Sizes are distinct states; each run takes three minutes or less.

| Run | Instance | Shows |
|---|---|---|
| `adv_table` | 2 elements, 3 tags in 2 buckets, 2 regular payloads and a longer one, 2 lists, 3 timestamps; 36 000 states | consistency of the table, complete scans, `AdvTable` implements `AdvStore` |
| `nrf52_link` | 2 configurations, 2 faults of any kind, firmware update | the link recovers from every pair of faults |
| `nrf52_led` | the same with LED commands and 1 lost message | LED commands do not starve a configuration |
| `relay` | 1 client that suspends HTTP, 1 HTTP target, 2 changes of target, network or time; 533 000 states | locks and polling; waits and requests end |
| `relay_mode` | client that suspends HTTP or both channels and checks brokers, configuration mode, HTTP and MQTT target, timeouts, incoming connections; 2.6 million states (also checked with suspensions nested twice, `MaxDepth = 2`: 5.2 million) | counters, notifications and quiet |
| `fw_update` | 3 releases, one of which never starts; 2 updates, 2 tasks, 1 power loss, 1 accident at the start-up of any release; 475 000 states | what an update leaves behind is always one whole release; `FwUpdate` implements `FwInstall` |
| `cfg_mode` | 2 configurations and the default one, 2 events of 11 kinds, start with an empty configuration and after an update of the nRF52; 526 000 states | services follow the configuration and their checks go on |
| `nrf52_lost_update`, `relay_assert`, `fw_update_unconfirmed`, `fw_update_fault`, `cfg_upload` | smallest instances | disagreements of section 5 |

Why these bounds: two elements and three tags make every put path happen (free
element, taken over from another tag, same bucket and other bucket), and the
invariants are proved for every size.  With two faults each fault can hit the
recovery from the other.  The events of `Relay` are spread over the runs
because together they exceed what TLC can enumerate; every run has the
interleavings of the suspension with what its properties are about, and the
theorems cover all events and any number of clients together.

Two updates with a power loss and an accident let the second update find what
the first left in either slot, and let both run at once; the third release makes
mixed slots visible.  In `cfg_mode` the signals of the start, the timers and the
checks do not count as events, so two events can meet a third cause.

Deadlock is not checked for `Nrf52Link`, where a configured link with no faults
left is at rest, nor for `relay_mode`, where a failed assertion (section 5) is
the end of the run, nor for `FwUpdate` and `CfgMode`, where the gateway may be
left alone.

Fairness.  Tasks run when they have something to do (FreeRTOS schedules every
ready task, and none of them spins); started timers expire; the chip reacts.
The only strong fairness, on the end of adv_post's HTTP request, stands for the
timeout of the HTTP client: a request that is polled again and again comes to
an end.  In `CfgMode` strong fairness on `take_user_req` says that the HTTP
server task, which serves its own signals between requests, gets to them however
often requests come.  In `FwUpdate` the bootloader, the start-up, the tasks and
the pending flash write go on.  No fairness is assumed of the network, clients,
users, configuration mode, requests for updates, faults, power losses or new
configurations, nor of an upstream server being reached.

## 4. Properties

*AdvTable.*  `HashTableExact`: an element is linked exactly in the bucket of its
MAC.  `ListFlagsExact`, `ListedReportsAreLive`: flags and links agree, so lists
are acyclic, and no list refers to a free element.  `HistSorted`: the history is
sorted by time.  (`ListsFitOutputTable`, `HistIsPermutation` and `LivePrefix` are
parts of the inductive invariant and proved with it.)
`HistoryReadComplete`, `StatisticsReadComplete`: the scans, which stop early,
miss nothing; for the history this holds for every time the HTTP task may have read
before.  `ImplementsStore`: refinement of `AdvStore`.

*Nrf52Link.*  `CfgRequiredOnlyIfUnconfigured` (an assertion of the code),
`WaitingIsTimed`, `ResetIsTimed`, `SilenceIsTimed`: nothing waits without a
timer.  `ConfiguredChipHasConfig`: at rest, a chip taken for configured is.
`EventuallyConfigured`, `CfgRequiredIsServed`: liveness.

*Relay.*  `HttpPostHoldsLocks`: adv_post holds mutex and request exactly while
it has a request; with several suspending tasks and timeouts `LocksBelongToRequest`
remains: it holds them together and only while it has one.  `AsyncCommIsDriven`: a
transmission is always polled again.  `SuspendedIsQuiet`: once adv_post has been told
of a suspension, it transmits nothing until the last task resumes.
`RelayingStaysSuspended`: the channels a task has suspended stay so while it sends
requests.  `NoAssertionFails` (section 5).
`RelayingModeIsFresh`, `MqttStopsWhenSuspended`, `CmdIsGoingToBeHandled`: no
notification is missed.  `CountersBalanced`: the counters are exact.
`WaitEnds`, `AsyncCommEnds`: liveness.

*FwUpdate.*  `MainLoopIsWhole`: the gateway never works with partitions of
different releases, and an update under way does not touch the running ones.
`ChipMatches`: the radio chip has the firmware of the running release, whatever
an interrupted or failed update left on it.  `TrialFailureRollsBack`: a release that
fails to start on trial is left for a whole one (`StartupFailureRollsBack` and
`RollbackFindsRelease`, section 5, say this of every failure and of every rollback).
`ImplementsInstall`: refinement of `FwInstall`; the release to come back to is
replaced only by one that was switched to, started and confirmed, or by the rollback
after its own start-up failed.  `ComesUp`: the gateway comes back to its main loop,
unless a confirmed release was rolled back into a slot that does not start.

*CfgMode.*  `ServicesStayScheduled`: outside configuration mode the checks of the
services in force have their timer, or something on its way back to it.
`ServicesAreCurrent`: services fall behind the saved configuration only by a save
outside configuration mode, of posted settings or of the default ones: not by the
way the mode ends, a remote configuration or WPS.  `ChecksGoOn`: liveness of the
update check.  `NewCfgTakesEffect` (section 5).

## 5. Disagreements found

* `nrf52_lost_update`: a configuration cached while the previous one is being
  acknowledged is never passed to the chip.  `adv_post_nrf52_on_sync_ack_cfg`
  marks the chip configured whatever was sent; the update's own signal then
  finds a configured chip.
* `fw_update_unconfirmed`: after an automatic update the new release is confirmed
  only when an upstream server is reached.  An update requested before that is
  refused by `esp_ota_begin_patched`, and its clean-up erases the data partitions
  of the old release.  After the restart the bootloader gives the new release up
  and the old one does not pass its check: no slot is left to roll back to.
* `relay_assert`: the main task suspends relaying without waiting when it enters
  configuration mode (`main_loop.c:368`).  A client that suspends right after it does
  not wait either, because the counter is not 0 (`gw_status.c:362`), and its request
  meets adv_post's: an assertion fails and the gateway restarts.
* `fw_update_fault`: every failed start-up is rolled back, also that of a confirmed
  release.  After an update that was interrupted when the application was written and
  its data partitions were not, one accident leads into the half-written slot; the
  whole release is marked invalid, and the gateway restarts for ever.
* `cfg_upload`: `POST /ruuvi.json` relies on configuration mode being active.
  Settings uploaded with a bearer token outside it are saved, but MQTT, the
  update checks and the remote configuration go on with the old ones.

Found in the models, without a run of their own:

* The main task clears the MQTT command bit after every notification, also that
  of an HTTP-only suspension (`main_loop.c:654`), and so acknowledges an MQTT
  command raised after it had read the counter: with a client that suspends HTTP alone
  and both channels (`Suspensions <- HttpAndBoth`, `Cfgs <- OneTargetAndMqtt`, no event
  `cfg_mode`) the assertion on the TLS buffers fails, a second violation of
  `NoAssertionFails`.  So can, by design of the code, a client that gives up waiting
  after 15 s (event `timeout`).
* Aborting an MQTT transmission unlocks the http_server mutex, which it never
  locked (`adv_post_signals.c:202`; "unlock" in `failed`).
* Ethernet connects while the configuration is empty, and a user saves one before
  the main task sets the default: the default overwrites it
  (`network_subsystem.c:67`), and as configuration mode may be over by then, it is
  not even applied (one of the two exceptions that `ServicesAreCurrent` names).
* A request or the button starts the timer of configuration mode after the main
  task has taken a DEACTIVATE and before it handles it with the mode off
  (`main_loop.c:379`): the timer is stopped, the mode is entered with the pending
  ACTIVATE, and nothing ends it.

## 6. Proofs

Every theorem holds for every value of the constants that satisfies the named
assumption of its module (`TableAssumption`, `RelayAssumption`, `LinkAssumption`
and so on, which TLC evaluates in every run); the few with a further hypothesis
say so.  Bounds on events, faults and time are constants too, so a theorem covers
any number of them.  TLC found each inductive invariant to hold on an instance
before it was proved.

*AdvTable.*  `AdvTableProofs` proves, for every table size, set of tags, hash
function and set of lists, that `TableInv` is inductive, and from it type
correctness and all the state invariants of `AdvTable`.  `TableInv` is the
conjunction of the parts: none is inductive alone.  `ListsFitOutputTable` follows
from the lists having no duplicates (`ListLength`, a cardinality argument);
sortedness needs `LivePrefix`, the bound of the timestamps by the clock and that
free elements have timestamp 0; the hash table needs that the last element of the
history is what a new tag takes over.  `MoveToHeadPermutes` is the core lemma
about moving an element to the head of the history.  The completeness of the scans
(`TableScans`) is a consequence of the sorting.

`AdvTableStoreProofs` proves that `AdvTable` implements `AdvStore`.  The refinement
needs two facts more (`StoreInv`): a report that holds data is found by its MAC,
and a free element has nothing counted (otherwise the first report after
`adv_table_clear` would not start at one).  `LiveCount` shows, by counting, that
the live elements are exactly the first `NLive` positions of the history, and
`Views` expresses what users see by elements.  `UpdatedView` is the view after any
put that changes a report; from it `TakenOverInserts` (a free element, or the last
one of a full table) and `ChangedUpdates` give the steps of the store.

*Nrf52Link.*  `Nrf52LinkProofs` proves all the invariants of the link.  `LinkInv`
adds to them what is on its way: a command is on the wire only to a running chip, every configuration that occurs is one the gateway has
had, acknowledgements do not survive a hardware reset, a chip that was released is
timed until it is heard of (`ReleasedIsTimed`), and an unconfigured chip that the
gateway takes as configured has its request still on the wire or being handled
(`UnconfiguredIsNoticed`), which is what `ConfiguredChipHasConfig` rests on.

*Relay.*  `RelayProofs` proves, for any number of clients, any targets, suspensions
nested to any depth and all events together: `TypeCorrect`, `ModeIsFresh`,
`MqttStops`, `CmdIsHandled` and `CommIsDriven`.  The type invariant is inductive
only with `HeldOK` (a task past its suspension has one to resume).  The safety
parts rest on two summaries: `Outside`, what any step of a client, the
configuration mode or the environment does to the notifications on their way
(`SuspendAnnounces` and `ResumeAnnounces`: whoever makes a counter leave or reach 0
is about to notify), and `AdvPostKeepsMode`, what adv_post does to its copy of the
mode.

`RelaySuspensionProofs` proves the rest in the same generality, without a further
hypothesis: `CountersBalance` (a counter is the size of the finite set of the
suspensions that the tasks hold, to which a step adds, or from which it takes, one),
and from it `StaysSuspended` (a task's own suspension keeps the counter above 0);
`LocksFollowRequest` and `SuspensionIsQuiet`.  The last two need the invariant
`LocksInv`: a task that sends a request owns it (`RequestOK`), and adv_post has a
transmission in progress only while it believes relaying enabled (`RelayingOK`), so
that `ModeIsFresh` leaves none behind a suspension it was told of.
`HttpPostHoldsLocks` and `NoAssertionFails` are not theorems: with two suspending tasks, timeouts or
configuration mode they do not hold (`relay_assert`).

*FwUpdate.*  `FwUpdateProofs` proves types, `RunningSlotIsWhole` and
`ChipHasItsFirmware` from `PhaseInv`, which says what each phase of start-up has
established.  When updates are requested only after the running release was
confirmed (`"unconfirmed" \notin Events`; `fw_update_unconfirmed` shows that it
matters), `BaseInv` is invariant: either an otadata entry selects a confirmed, whole
release that starts up (`Based`), and everything that is erased, written or tried
concerns the other entry and the other slot; or the base has been given up and is
`Lost`, the one entry left selects a slot that never starts up.  The steps between
them are the rollbacks: of a trial, which keeps the base, and of the base
(`GivesUp`), which makes the other slot the base or loses it.
`TrialFailureIsHarmless` and the refinement of `FwInstall` follow.

*CfgMode.*  `CfgModeProofs` proves types, `ChecksStayScheduled` and
`ServicesFollowCfg` for all events.

Only model-checked: the liveness properties `EventuallyConfigured`,
`CfgRequiredIsServed`, `WaitEnds`, `AsyncCommEnds`, `ComesUp` and `ChecksGoOn`, which
are beyond this prover.

## 7. Not modelled, and the plan

Not modelled: text formatting and parsing, contents of requests and answers,
drivers, the HTTP and MQTT client libraries, mbedTLS, mDNS and the other vendored
components, Wi-Fi and the hotspot (wifi_manager, external).  Known and not
covered by a property: a suspension that is not taken back when the firmware update's
task cannot be created (`http_server_cb_on_post.c:159`); the configuration being
read again to decide what to resume (`http_download.c:679`); the reports of an aborted
periodic MQTT transmission, whose buffer is not freed; the LED retry path that
resets a chip held by the firmware updater (`adv_post_nrf52.c:300`).

Next, in this order:

1. Proofs: `HttpPostHoldsLocks` and `NoAssertionFails` for a corrected handshake in
   which every suspension waits; `RollbackFindsRelease` for a start-up that looks at
   the data partitions before it rolls back.
2. `AdvIntake`: filter, configuration cache and callback of the UART task, with
   `AdvTable`; `AdvMqtt`: the adv_mqtt task and list 3.
3. `GwCfg`: the configuration behind its mutex and its storage in flash, with
   crashes between its writes and the read-merge-update of a remote configuration.
4. The network watchdog, deferred Ethernet and the hotspot, on top of `CfgMode`;
   `LedsCtrl`.
