# SAP 9001 gateway: TLA+ models and proofs

The program (`src/`, C++14) runs on an ARM Linux box on a ship. It polls sensors
over Modbus, reports one packet per collection round to a shore gateway over one
of five links, persists what it could not send, and restarts itself when its
transmitter hangs. It has no tests. This directory holds TLA+ models of its
control flow, the TLC runs that check them, and TLAPS proofs of every safety property
that the passing runs check (section 4). Paths below are relative to `src/`.

Running: `tlc -config X.cfg M.tla` (the table under "Runs" names the pairs) and
`tlapm M.tla` for the eight modules named `*_proofs` (five minutes for the longest).

## 1. Inventory

### Processes, threads and shared state

| actor | code | state it keeps |
|---|---|---|
| main | `modbus_9001.cpp` | watch file (`g_fdWatch`), order of the start-up, joins registration, then `pause()` |
| signal handlers | `modbus_9001.cpp:73-108` | drain `transmit` unlocked, write "0" to the watch file, `_exit` |
| `device_regist` | `app/regist_manage.cpp` | a state machine with five counters; identity, enabled device |
| `ship_data` | `sensor/sensor_driver.cpp` | collection round, `ship_data_ready` under `sensorSync().mtx` |
| `trans_message` | `app/message_transmitter.cpp` | select loop, heartbeat, back-off, `pending_packets`, `failed_packets` |
| watchdog thread | `infra/software_wdt.cpp` | scans the slot table every four seconds, cancels and joins |
| GPS thread | `hal/gps.cpp` | its port, the sentence buffer, the last position |
| supervising script | not in the repository (`README.md:75` names the file) | reads the watch file, restarts the program |

### Components and what makes them correct

| component | operations | interacts through | correct when |
|---|---|---|---|
| packet pipeline | collect, poll, resend, put back, pop, write, drain, persist, load | `transmit`, `offline_cache`, the store file, signals | every round is somewhere, once, marked as live or replay, in order, and gets through |
| software watchdog | request, feed, release, scan | slot numbers kept by threads | no thread feeds a foreign slot, no false alarm, silence is found |
| sensor hand-over and shutdown | notify, wait, read, cancel, join, SIGUSR1 | mutex, condition variable, cancellation | no lost wake-up, one round per poll at most, a packet holds one round, an alarm ends the process |
| communication manager | reinit, insert, delete, enable, callbacks | the list of nodes, descriptors | the list survives reinit, failures leak nothing, a link that was lost is opened again |
| circuit breaker | allow, success, failure | reinit | does not keep a caller from retrying for ever |
| timing of the transmitter | select, heartbeat, back-off, reconnect | watchdog counter, clock | no alarm on a live link, a loss is bounded where scans reach the transmitter's slot, heartbeats on quiet links |
| registration | states of `device_regist` | links, identity, `setEnable` | ends, within its attempts, enables only what registered |
| main and handlers | start-up steps, handlers | watch file | the file says "0" exactly when nothing runs |
| device bring-up | `dev_init`, six strategies | descriptor table, list of nodes | consistent list, no leaks, it ends where the Bluetooth module lets it |
| GPS reader | open, read, parse, cancel | position under a mutex | a sentence received whole yields a valid position or none, a cancelled thread ends with its port closed |
| packet builder and checksum | `build`, `buildHeartbeat`, requests of the registration, `ensure_crc4_packet`, `readFromFile` | `transmit`, the store file, the buffer pool | a receiver finds the end of every packet, the checksum sees errors, the file gives back what was put in |
| CPU usage cache | `get_cpuOccupy` by three threads | unlocked sampling, the system clock | no packet carries an old usage |
| memory pool | allocate, deallocate | `build` | every buffer comes back |
| message queue class | push, tryPop, popAll, drainUnsafe | `transmit`, `offline_cache` | part of the pipeline |
| configuration, logging, serial settings, libmodbus, ESP8266 | | | not modelled: I/O, vendored or unused |

### What is hard here

* Interleaving: two worker threads, a monitor that cancels them, handlers that
  run on any state, interrupt each other (the masks of `sigaction` are empty) and
  allocate memory.
* Crash and restart: packets live in memory until a handler writes one of the
  two queues to a file; SIGPIPE and power loss run no handler.
* Timing: pauses, back-off, select and scans are unrelated constants in
  different files, and only some paths feed the watchdog.
* Descriptors: callbacks close numbers they were given or had closed before,
  while another thread opens devices in the same table.
* Composition: the links are brought up, registered on and reopened by three
  threads in turn, which agree on a list of nodes and little else.
* Cancellation: deferred, and without cleanup handlers where locks are held.

`PROJECT.json` lists the hazards with their lines and the properties that watch them.

## 2. Modules

| module | models | uses |
|---|---|---|
| `PacketLife` | abstract: what one round may go through | |
| `Transmitter` | the packet pipeline, with failures and restarts | refines `PacketLife` |
| `Transmitter_proofs` | theorems about `Transmitter`, the refinement among them | TLAPS |
| `SoftwareWdt`, `MCSoftwareWdt` | the slot table, the threads and the scan | |
| `SoftwareWdt_proofs` | theorems about `SoftwareWdt` | TLAPS |
| `SensorSync` | flag, mutex, condition variable, the reading of a round, alarm and shutdown | |
| `SensorSync_proofs` | theorems about `SensorSync` | TLAPS |
| `LinkLoss`, `MCLinkLoss` | the clockwork: select, heartbeat, back-off, reconnect, scans | |
| `LinkLoss_proofs` | theorems about `LinkLoss` | TLAPS |
| `CircuitBreaker` | the methods of the breaker as operators | |
| `NodeList` | the operations of the list of nodes as operators | extends `CircuitBreaker` |
| `Descent` | what it means that a tuple of numbers goes down lexicographically | used by `Registration` and `DeviceInit` |
| `CommManager` | reinitialising a link; the list and the descriptor table | extends `NodeList` |
| `DeviceInit` | bring-up of the six devices | extends `NodeList` and `Descent` |
| `Registration` | `device_regist` | extends `Descent` |
| `Links` | bring-up, registration and reinitialisation over one list and one descriptor table | extends `DeviceInit`, instantiates `Registration` and `CommManager` |
| `Links_proofs` | theorems about `Links` | TLAPS |
| `Startup` | main, handlers, watch file, restarts | composes with `Registration` |
| `Startup_proofs` | theorems about `Startup` and `Registration` | TLAPS |
| `CpuCache` | `get_cpuOccupy` | |
| `Frames` | widths, length fields and checksum of packets, the text of the store file | |
| `Telemetry`, `MCTelemetry` | who builds which packet when: main, sensor thread, transmitter, pool, clock | extends `CpuCache` and `Frames` |
| `Telemetry_proofs` | theorems about `Telemetry`, `CpuCache` and `Frames` | TLAPS |
| `Gps` | GPS thread and parser | |
| `Gps_proofs` | theorems about `Gps` | TLAPS |

How code becomes actions. A step of a thread ends where it can block, lock,
unlock or be interrupted between two calls that others observe; what runs under
one lock is one action (each method of the watchdog, `reinit`'s list update).
An action's name is the method's, or says what the passage of `send_mess`,
`run` or `main` does; `PROJECT.json` gives the lines.

* `Transmitter`. A packet is the number of its round and its protocol number;
  `transmit`, `offline_cache`, `pending`, `failed`, `inflight`, `items` and
  `storefile` are the queues, locals and the file. `sent`, `lost`, `retried`,
  `disturbed` and `base` are histories. `drainUnsafe` pops one element per step,
  so it interleaves with the threads; a real data race on `std::queue` is the
  fault "race", where the process ends. A second signal drops what the
  interrupted handler had drained, or, inside `malloc`, hangs for ever
  (`HandlerHangs`). The store file is a sequence of lines and each line a sequence
  of packets: packet and newline are two writes, and where the second fails the
  next packet, of this life or a later one, is glued behind the first. A glued
  line comes back as one packet whose head alone becomes a replay. A start that
  cannot open the file replays nothing and leaves it as it is (fault "fopen"); one
  whose `getline` meets a read error replays the lines before it and empties the file
  all the same (fault "read"; the rest counts as `lost`).
* `SoftwareWdt`. The four arrays of the class, the number each thread holds, and
  `starve`, the history of scans a thread missed. A thread is new, live, silent
  or gone. `Punctual` keeps the scan from outrunning live threads: a live thread
  gets the processor within `Gap` scans.
* `SensorSync`. Program counters of the three threads between their lock
  operations. `pthread_cond_wait` unlocks and sleeps in one step, may wake
  spuriously, takes the mutex back also when the thread is cancelled, and has no
  cleanup handler. A sensor value is the number of the round it was read in.
  `LateAnswers` says whether `trans_message`, found silent, may
  come back after the alarm.
* `LinkLoss`. One clock; a step of time happens only when nothing is due. The
  list of devices is reduced to whether one is enabled. A poll replays any number of
  packets, each with its pause of two seconds and its feeding (`Replay`, `ReplayFeeds`).
  The other slots of the watchdog are reduced to one choice: a scan that stops at
  a lower slot that timed out never reaches the slot of `trans_message`
  (`Scan(TRUE)`); `masked` remembers that this happened during a loss.
* `CommManager`, `DeviceInit`, `Links`. Descriptors are numbers, `open` takes the
  lowest free one, `close` frees a number whoever holds it. `send_mess` passes 0
  as the old descriptor and the model does the same (`Para`). Opening a device and
  getting it to work are two steps of a reinitialisation (`Open`, `Connect`), as a failure
  of the second closes what the first opened: in `connect_nonb`, in `lora_open` or
  in `bluetooth_open`. A reinitialisation that succeeds with a descriptor it has just
  closed leaves the link `down`. A node is a record of
  device, descriptor, flags and breaker. In `Links` a step of main, of the
  registration thread or of the transmitter changes the same `nodes` and `owner`;
  `phase` says which of them runs, as they follow each other in the code, and the
  GPS thread steps in between. `clash` records that a close hit its port.
* `Startup`. The watch file is a sequence of characters; handlers nest. Where
  main joins, `Registration`'s steps run; where the thread cannot be created,
  main goes on, as the code does.
* `CpuCache`, `Telemetry`. Three phases of `get_cpuOccupy` are three steps. A usage
  is the true time it was sampled at, and the system clock is the true time plus
  an error that a time packet changes. A packet is its command, its length
  digits and the number of characters that follow; its data segment is a short
  sequence of bytes for the checksum; in `transmit` it is a text of a few characters
  with the first and the last one real, for the store file. A byte is the set of its
  bits that are 1 (0 to 7), the CRC register the same (0 to 15): "exclusive or" is the
  symmetric difference, a shift subtracts 1 from every bit. Digits and texts are
  recursive functions on numbers and on the number of characters read.
* `LinkLoss`, `Links`. The back-off is a recursive function for the power of two, as
  the code shifts. The sorted list of `getALLIfd` is given by the place of each node
  (`Rank`, the number of smaller ids) and `createAll` by one piece per device
  (`Created`), so that no operator of the library stands between the definition and
  its proofs.
* `DeviceInit`, `Gps`. The device side (lines of the Bluetooth module, sentences
  of the receiver, unplugging) is nondeterministic. The module may send lines
  without end; they are counted modulo 2, only so that a line is a step. The receiver
  sends whether the thread reads or not: what meets a full buffer of the driver is
  lost (`Overrun`), and the next symbol that fits carries a mark of that, which the
  thread cannot see and the properties can (`gap`, `torn`, `spoiled`).

Each module has a `TypeOK` that documents its variables. The proofs establish that of
every specification but the one of `CommManager` alone; `CommManager`'s steps are
covered by the one of `Links`, together with those of `DeviceInit` and `Registration`.

## 3. Runs

| run | module, cfg | shows |
|---|---|---|
| TransmitterFaults | Transmitter, TransmitterFaults.cfg | rounds are accounted for, exist once, are marked, ordered, and follow `PacketLife`, under every failure but a failed truncation or read of the file |
| TransmitterLive | Transmitter, TransmitterLive.cfg | the backlog stays at three rounds while nothing fails, and everything is sent |
| SoftwareWdt | MCSoftwareWdt, SoftwareWdt.cfg | slots are owned, alarms true; a silent transmitter in slot 0 is found |
| SoftwareWdtMasked | MCSoftwareWdt, SoftwareWdtMasked.cfg | violation, see section 5 |
| Startup | Startup, Startup.cfg | the watch file under nested signals and one restart; registration's attempts; each of its steps uses something up, and it ends |
| SensorSync | SensorSync, SensorSync.cfg | wake-ups, rounds, values of one round, and a clean shutdown |
| SensorSyncJoinHangs | SensorSync, SensorSyncJoinHangs.cfg | violation |
| Links | Links, Links.cfg | the list, the enabled link, descriptors and breaker from start-up through any number of failures; each step of the bring-up but a line of a Bluetooth scan uses something up, and nothing but such lines without end keeps it from ending; a lost LoRa or LAN link is opened again |
| CommReconnect | CommManager, CommReconnect.cfg | violation |
| LinkLoss | MCLinkLoss, LinkLoss.cfg | alarms, loss and heartbeats in time, with replays and with scans that stop early |
| Gps | Gps, Gps.cfg | a sentence that lost nothing yields a whole position or none, whatever was lost elsewhere; a cancelled thread ends |
| Telemetry | MCTelemetry, Telemetry.cfg | length fields, whole packets, checksum, store file, age of the CPU usage |

### Bounds and why they are enough

* `TransmitterFaults`: three rounds, two of them possibly in the file, two lives.
  Two rounds show reordering and duplication, the third a push during a drain;
  the second life shows what recovery finds. `TransmitterLive`: five rounds, one
  life, because the backlog bound of three needs more than three to be missed. Only
  this run has the faults "truncate" and "read": with them a round may be sent twice,
  or lost at a start, which `EverythingSent` says.
* `SoftwareWdt`: three slots and thresholds of two and three scans. The code has
  more slots and larger thresholds; the proofs cover all values. The table
  never fills with three threads; `RequestFull` is covered by the proofs.
* `Startup`: two devices, the program's 5 for `regist_num` and for `select_num`;
  the lengths of the other waits are cut (100 to 6, 8 to 3, 5 to 3), as they
  only repeat a step. Two signals nest; one restart leads to the second incarnation.
* `SensorSync`: three polls: one taken, one merged, one behind; three sensors:
  first, last and one between (23 in the code; the proofs cover all numbers).
* `Links`: every device but wifi, each of whose steps is one of LoRa, bt or LAN: its
  strategy fails like LAN's, its callback closes like bt's. `CommReconnect`
  has wifi.
  The breaker opens after two failures instead of five, and retries of the bring-up
  and the registration are cut to two or one: each of them only repeats a step,
  and `Startup` has the real counts. The numbers of failures at run time are not
  bounded: the state space is finite without. `CommReconnect` has the real
  threshold, and one device, as one shows the disagreement.
* `LinkLoss`: the real constants in units of two seconds (select 30 s, heartbeat
  60 s, back-off 1 to 30 s rounded up to a unit, pauses 30 s and 2 s, 2 s
  per replay, scans every 4 s, threshold 30 scans). Replays in a row are not bounded.
  A time packet sets the clock by 0 or 20 s forward.
  No more than two packets in a row feed nothing (`MaxOther`): `NoAlarmWhileUp`
  is a statement about such gateways only.
* `Telemetry`: an age limit of two units, a sampling caller one unit behind, a
  clock one unit off, four units of time: enough for a caller to overtake
  another, for the cache to run out and for a clock step in between; the proof
  covers all values. Two of the eight buffers: a leak shows after two packets
  instead of eight. Queue of two, MN of 16 and of the longest length `hj_mn.txt`
  can give (99), positions of both lengths, register contents of both extreme
  widths. Checksums of two messages, all bits of every byte.
* `Gps`: two positions, and two symbols in the driver, much less than a sentence, so
  the reader meets sentences cut at any point. Once in a run the driver loses
  symbols, any number in a row and also across sentences; the proofs have any number
  of such gaps.

`CHECK_DEADLOCK FALSE` is set where the program really ends (a process that is
down for good, a finished bring-up, an ended thread, an exhausted number of
lives) or a bound on inputs runs out.

### Fairness

Threads that can run are scheduled (weak fairness). Strong fairness is assumed
for a lock that is free again and again, for a cancelled thread that reaches
cancellation points again and again, and, in `TransmitterLive` and
`Links`, for the outside world: a write, an open or a connect that is tried again
and again succeeds at last. Weak fairness of a reinitialisation includes that
its callback returns; the scan of `bluetooth_open` inside it may not, and a callback
may succeed with a closed descriptor, so `ReopenedAtLast` is claimed for LoRa and LAN
links only. In `SoftwareWdt` the scan is strongly fair because
`Punctual`, a modelling device, disables it often; the real scan is on a timer.
Polls, alarms, signals and restarts never have to come, except in
`TransmitterLive`, whose property is about a gateway that polls.

## 4. Proofs

The theorems hold for every value of the constants that the named `ASSUME` of the
module allows. Eight have a hypothesis more; it is stated in the theorem and listed
here.

| theorem | states | needs besides the module's assumption |
|---|---|---|
| **`SoftwareWdt_proofs`** | | |
| `TypeCorrect` | `[]TypeOK` | |
| `SlotsAreOwned` | `[]SlotOwned` | |
| `CountersAreHonest` | `[]CountHonest` | |
| `NoFalseAlarms` | `NoFalseAlarm` | |
| **`SensorSync_proofs`** | | |
| `RoundsForPolls` | `[]RoundsArePolled` | |
| `WakeUpIsNotLost` | `[]NoLostWakeup` | |
| `PacketsAreOfOneRound` | `[]ValuesOfThisRound` | |
| `ExitIsQuiet` | `[]QuietAtExit` | |
| **`Transmitter_proofs`** | | |
| `TypeCorrect` | `[]TypeOK` | |
| `EveryRoundAccounted` | `[]Accounted` | |
| `ReplaysGoFirst` | `OfflineFirst` | |
| `LivePacketsInOrder` | `LiveInOrder` | |
| `ReplaysAreMarked` | `ReplayMarked` | |
| `OneCopy` | `[]AtMostOneCopy` | `"truncate" \notin Faults` |
| `ImplementsPacketLife` | `KeepsPromise` | `"truncate" \notin Faults`, `"read" \notin Faults` |
| `BacklogAtMostThree` | `[]BacklogBounded` | |
| **`Startup_proofs`** | | |
| `TypeCorrect` | `[]TypeOK` | |
| `ZeroIsLeft` | `[]ZeroWhenStopped` | |
| `PidIsKept` | `[]PidWhileRunning` | |
| `BudgetIsShared` | `[]SharedBudget` | |
| `OnlyRegisteredEnabled` | `[]EnabledIsRegistered` | |
| `AttemptsEnd` | `AttemptsRunOut` | |
| `DescentEnds` | tuples of four numbers do not go down for ever | |
| **`LinkLoss_proofs`** | | |
| `TypeCorrect` | `[]TypeOK` | `LongestReinit` |
| `LossEndsProcess` | `[]LossIsBounded` | |
| `UpMeansNoAlarm` | `[]NoAlarmWhileUp` | `Patient` |
| `QuietLinkIsBeaten` | `[]HeartbeatWhenQuiet` | `Forward` |
| **`Gps_proofs`** | | |
| `TypeCorrect` | `[]TypeOK` | |
| `LocationIsReported` | `[]LocationIsAFix` | |
| **`Telemetry_proofs`** | | |
| `UsageIsRecent` | `CacheSpec => CpuIsRecent` | |
| `ImplementsCpuCache` | `Spec => CacheSpec` | |
| `PacketsCarryRecentUsage` | `CpuIsRecent` | |
| `TypesOfTelemetry` | `[]TypeOK` | |
| `LengthFieldIsRight` | `[]EndsWhereLengthSays` | `Limits` |
| `RoundsAreWhole` | `[]EveryRoundIsWhole` | `Limits` |
| `OneFlippedBitIsCaught` | `[]ChecksumCatchesOneBit` | |
| `OneByteChangesChecksum` | messages that differ in one byte differ in the checksum | |
| `TwoBytesCanHide` | two neighbouring bytes can change without it | |
| `StoreRoundTrip` | `[]StoredIsReplayed` | |
| **`Links_proofs`** | | |
| `TypeCorrect` | `[]LinksTypeOK` | |
| `ListStaysSound` | `[]ListIntact` | |
| `OnlyRegisteredLinkUsed` | `[]RegisteredIsUsed` | |
| `NoDescriptorLeaks` | `[]NothingLeaks` | |
| `LinksKeepTheirDescriptor` | `[]EnabledFdHeld` | |
| `StrategiesEnd` | `StrategiesRunOut` | |
| `AttemptsAreNotRefused` | `[]NeverRefused` | `PauseOutlasts` |

The hypotheses are what the code relies on without saying so:

* `"truncate" \notin Faults`. The store file is emptied when it is read. Where that
  fails, the next start reads the same rounds again: duplicates are then real, and
  TLC finds them when the fault is added to the configuration.
* `"read" \notin Faults`, for the refinement only: `PacketLife` has no step in which a
  start loses rounds of the file. `EveryRoundAccounted` needs neither hypothesis.
* `Patient`: `(MaxOther + 1) * SelectTime < Timeout * TickTime`, and
  `ReplayTime < Timeout * TickTime`. The packets in a row that feed nothing, with one more
  select, fit into the watchdog's timeout, and so does the pause of one replay. With
  equality a scan can come just before the select that is about to time out.
* `Forward`: time packets do not set the clock back.
* `PauseOutlasts`: `Cooldown < PauseSeconds`, 30 s by default in
  `infra/circuit_breaker.h` and 30 s + 2 s in `app/message_transmitter.cpp:128`.
  Two constants in two files, and nothing in the code compares them.
* `LongestReinit`: one of the durations of a reinitialisation is the longest (`TypeOK` of
  `LinkLoss` names the longest wait). The code's connects have a timeout.
* `Limits`: `BufSize >= LongestRound`, 2048 in the code and 1102 the width of the longest
  round, and `MaxQueue <= IntMax`: `build` prints the queue's depth as an `int`, and
  its digits count in the width.

Each run that checks one of these properties satisfies its hypothesis.

Three properties have a premise of their own, which the code does not ensure:
`LossIsBounded` is about losses during which no lower slot stops a scan (`~masked`;
`SoftwareWdtMasked` shows that one can, and then nothing bounds the loss),
`HeartbeatWhenQuiet` about links that were quiet for a whole select (busy ones hear
heartbeats later or never), and `LocationIsAFix` about sentences inside which the driver
lost nothing.

### The inductive invariants

None of the safety properties above, but for `NoLostWakeup`, is inductive alone.
`CountHonest` and `EnabledIsRegistered` have no run of their own: what TLC checks follows
from them (`NoFalseAlarm`), or says more (`RegisteredIsUsed`).

**`SoftwareWdt`.** `SlotOwned` needs to know that a thread about to take a slot is not
already named in one; this is `NewHasNone`. `CountHonest` needs `SlotOwned`, so that
feeding a slot resets the history of its owner, and the scan needs that a
saturated history still exceeds every counter (`BumpWithinAge`). `NoFalseAlarm`
follows for the only action that sets `monitor`: a slot named `trans_message` is
past its threshold, and its counter is at most the scans the thread missed.

**`SensorSync`.** `PollsCover`: a poll stands behind every round begun, behind the flag
that is set and behind the one about to be set. `ReadSoFar` and `NotStarted`: sensors
before the index hold this round, those behind it are reset. `Joined`: each join
that returned saw a dead thread. All rest on `TypeOK`, which includes who holds the
mutex at which point of its code.

**`CpuCache`, `Telemetry`.** `Sampling` (nobody samples for longer than `Slow`) and
`Stamped` (what is stored was stamped at most `Slow + MaxError` after it was sampled).
`ImplementsCpuCache` is a refinement: every step of `Telemetry` is a step of `CacheNext`
or leaves cache and clock alone, so the bound holds for its callers as well.

* `PackInv` is about the queue and the pool: between two steps of the sensor thread the
  free list is full, and while it samples there is room in `transmit`, because
  nobody else pushes. `FrameInv` and `RoundsInv` say that what was built ends where
  its length says and fits its buffer.
* The widths are numbers of digits, so these two need what a recursive function
  computes for every input. The proofs make their own induction from the order
  of Nat being well founded (`Smallest`, `Induction`, `StrongInduction`, `Recursion`,
  `Iteration`): that the digits of n are unfolded from those of n divided by the base
  (`DigitsUnfold`), how many there are (`DigitsWidth`), and that reading them back
  gives n (`ValueOfHex`).
* The checksum: bit 15 after a shift tells whether the polynomial was applied, so a
  shift can be undone bit by bit (`BackStep`), and after eight of them the high byte
  alone tells which byte went in (`EightShiftsInjective`). So what follows two different
  bytes keeps the registers apart (`OneByteChangesChecksum`), and a flipped bit is a
  special case. The low byte of the register is not passed on, and so the
  theorem cannot be had for two bytes: `TwoBytesCanHide`.
* The store file: writing packets line by line and reading lines back is the
  identity but for empty lines (`TextRoundTrip`), by induction over the packets written,
  with one invariant about how far the reader is. `ReplayOpen` and `ReplayWhole`
  say what the loader's replacement of the command makes of a packet.

**`Transmitter`.** `TypeOK` says where each local is in use. To it come

* `Accounted` itself, with `Places`: which queues can be filled at which point of
  main, of the sensor thread and of `send_mess`. Its part `NothingToReplay` is what
  `ReplaysGoFirst` needs at the write;
* `Marked`: what is in `transmit` was built in this life, what is in the offline
  queues begins with a replay and holds only rounds up to `base`. Glued lines make
  the second part more than a statement about packets;
* `Ordered`: in `transmit` a round stands behind older ones unless its write failed;
* `Apart`: the rounds of any two queues are disjoint, with one exception: between
  reading the store file and emptying it the two hold the same rounds. Only under
  this exception is `AtMostOneCopy` kept by a restart, and it is where the
  hypothesis on the truncation enters;
* `Paced`: the packets waiting, the flag that is set and the collection under way
  are at most two, one more while `send_mess` has popped. This counts a poll that
  came before its round was pushed.

**The refinement.** `Promise` substitutes for `life` a function from the rounds to
"new", "held", "stored", "sent" or "lost", computed from the queues. `Standing` says
what its value is when `Apart` and `Accounted` hold, in terms of four sets only.
`StepMoves` shows that each of the actions changes these sets in one of seven ways
(`Moves`: collects, delivers, stores, drops, reloads, crashes, stays), and each
of the seven is a step of `PacketLife` or leaves `life` alone. So the proof looks at each
action once, and never at two sequences of lines at a time.

**`Startup`.** Below main, the counters of the thread: `Paid` says what `regist_num` has
paid for in every state of its switch, and `FromTheTop` that the devices above the
current one are used up and those below untouched; `SharedBudget` is the sum.
`Listening` ties `select_num` to the listens. For main and the handlers, `Handling` says
how far the handler on top of the stack has brought the watch file, whatever one
below it had begun, `Named` and `GivenUp` what main left in it, and `Stored` that the
descriptor a handler needs is not there before main has stored it.

**What runs out.** `AttemptsRunOut` and `StrategiesRunOut` are the safety half of
`RegistrationEnds` and `EndsUnlessChatty`: `Left` is a tuple of what is left (devices,
attempts, stage, listens; strategies, stage, attempts), and every step makes it smaller in
the lexicographic order, but for a line of a Bluetooth scan, which leaves it as it is. The
invariants under them are the counters' types and, for
the bring-up, `Attempting`: attempts are left wherever one is made. `DescentEnds` says
that this cannot go on for ever. That steps are taken at all is fairness, and
TLC's.

**`LinkLoss`.** `Fed` bounds the scans since the last feed by the selects since then and
by what the current select or replay has waited, `Losing` the time since the loss by the
scans, unless one of them stopped early. `Ahead` says that the clock of the heartbeat is
not behind true time. `Beating`: a link that is up was quiet for no longer than the
current select, or no heartbeat was due when this select began; so when a whole
select has passed without a packet, a heartbeat went out at its end or is younger than
`HeartbeatTime` and this select. Selects may begin at any time for that, so packets
and replays do no harm. For `TypeCorrect`, `Bounded` says that no wait is longer than the
longest of its kind; the back-off is a power of two that is known for each of the shifts
the code allows (`PowersOfTwo`, an induction over 0 to 20).

**`Gps`.** `Whole`: from every "$" that the thread has still to read, in the driver's
buffer or on the wire, follows a sentence, up to its end or up to where symbols were lost
(`Comes`). `Inside`: what is in `buf` is the beginning of such a sentence and the rest of it
comes next, in the same sense, unless symbols were lost inside it before (`torn`). At the end
of a sentence that is not torn, `Comes` leaves no room for a loss, so `buf` is a whole sentence.
`Flushed`: nothing is kept before the port is set up. `PortTyped`, for the types, says at
which points of the thread the port is open.

**`Links`.** The invariant of the three threads over one list and one descriptor
table, `LinksInv`:

* `ListInv`: no device is twice in the list (`Apart`), and `ListIntact`. A
  reinitialisation deletes a node and appends a new one: that the list keeps its
  devices is a permutation of positions (`Was`, `ListReplaced`);
* `MainAt`, `TransmitterAt`: where main and `trans_message` hold a descriptor in `newFd`;
* `Ran`: what came up is among the strategies that ran, so no strategy finds its
  device in the list;
* `Registering`, `OnlyCurrent`: what the state of the registration says of the device it
  is at. `setEnable` is called for a position in a sorted copy of the list. That the
  position names the same device after every change is `PlaceStays`, from the ranks
  being a bijection (`PlaceTaken`, `RankGrows`);
* `FdInv`: `Standard` (0 to 3 stay open until a reinitialisation closes 0, so no link has
  a number below 4), `LeakFree`, and, as long as no close hit the GPS port, `OwnLinks`,
  `OwnGps`, `OwnNew`: who holds a number owns it, and the running attempt took
  one that no node has. `NotOthers` is what remains of this after such a close;
* `Cooled`, for `NeverRefused` only: breakers let the next attempt pass whenever
  `trans_message` selects. Failures open them, and a pause follows each failure;
* `Counting`, `Attempting`, `Elsewhere`, for the types only: a counter of the registration
  is below its limit where the code adds to it.

The inductive invariants of `Links`, `Transmitter`, `Startup`, `LinkLoss` and `Gps` were
checked by TLC on the constants of the runs as well.

### What stays with TLC

* All liveness (`FirstSlotDetected`, `PollStartsRound`, `AlarmExits`, `RegistrationEnds`,
  `EndsUnlessChatty`, `ReopenedAtLast`, `CancelEnds`, `EverythingSent`): fairness and
  ENABLED are out of the prover's reach.
* `TypeOK` of `CommManager` alone, a specification that only `CommReconnect` uses.
* That the constants of the code (packet widths, the sensor table's 23 rows, timeouts)
  are the ones in the models: the `map` of `PROJECT.json` names the lines.

## 5. Disagreements the runs show

* **A reconnected link is not used** (`CommReconnect`, `WillReconnect`).
  `reinit` deletes the node and inserts a new one, with `enabled = false`
  (`infra/communica_manage.cpp:196`, `:74`). The caller logs "SAP Will reConnect"
  (`app/message_transmitter.cpp:121`); it backs off, until the watchdog ends the
  process if its scans reach the slot of `trans_message` (`LinkLoss` says after how
  long), and for ever if a silent thread in a lower slot stops them.
* **The shutdown can hang** (`SensorSyncJoinHangs`, `AlarmExits`). The sensor
  thread, cancelled in `pthread_cond_wait` (`sensor/sensor_driver.cpp:257`), dies
  with the mutex; a transmitter that answers a poll after the alarm waits for it
  for ever, and so does the join. The comments (`infra/software_wdt.cpp:87`,
  `:138`) promise to avoid a deadlock.
* **One silent thread masks another** (`SoftwareWdtMasked`,
  `SilentTransDetected`). The scan breaks at the first slot that timed out
  (`infra/software_wdt.cpp:133`), while the doc of the method says that all
  threads are monitored (`infra/software_wdt.h:67`).

Two more are in the models, which is why the liveness properties of `Links` are as
narrow as they are:

* A reinitialisation can close what it opened. `send_mess` hands 0 to the callbacks as
  the old descriptor (`app/message_transmitter.cpp:125`). After a failed attempt of wifi
  or bt has closed 0 (`app/device_init.cpp:170`, `:200`), the next attempt opens its
  device as 0 and, once it works, closes 0 (`:180`, `:208`), "after success close the
  old fd" (`:179`): it returns success and a closed descriptor. The real old one stays
  open. So `ReopenedAtLast` is about LoRa and LAN.
* A Bluetooth module can block the bring-up. Only ten seconds of silence cost the scan
  one of its attempts, a line of another device costs none (`hal/bluetooth.cpp:170`),
  although the attempts were cut "to avoid blocking too long" (`:169`).
  `EndsUnlessChatty` shows that nothing else blocks it.

Noted while modelling, without a run of their own: the handlers persist
`transmit` only, although their comment speaks of unsent data
(`modbus_9001.cpp:91`); only `trans_message` makes a scan return -1; thresholds
count scans of four seconds; a half-open breaker lets every caller through
(`infra/circuit_breaker.h:40`); a successful reinitialisation leaves the old
descriptor open (no node names it any more); a second close of a number may close the GPS
thread's device; a device sees at most four requests
(`app/regist_manage.cpp:98` says five); `select_num == 5` can be stepped over;
`device_id` holds descriptors (`core/device_context.h:81`); the GPS read ends at
the first empty buffer (`hal/usbctl.cpp:218`); bytes that the GPS port loses while the
thread sleeps can glue two sentences into one, as no checksum is compared
(`hal/gps.cpp:146`) and a "$" inside a sentence is dropped (`:155`), and the fields of
two positions then mix in one; a heartbeat of 60 seconds may be nearly 90 seconds
apart on a quiet link, and further on one that is polled; a read error at a start loses
the rest of the store file; a signal between the open and the store of `g_fdWatch` leaves an empty
file; replays lose their final "@" (`protocol/protocol_process.cpp:184`).

About packets: behind its length field a 06 packet is 3 characters longer than the
field says, a heartbeat 6 shorter, an 01 request 14 shorter, an 02 confirmation 1
longer (`Excess` in `Telemetry`; constant per kind, which is what
`EndsWhereLengthSays` checks); the link status is described as four characters and
sent as six; the heartbeat's memory figure is called free and is the used one;
codes a01004 and a01002 occur twice in the sensor table; `scale_factor` is ignored
for floats. A packet glued behind a line that was not ended stays an 06 packet.
The checksum passes only the high byte of its register on to the next byte
(`protocol/hj212.cpp:60`), so some changes of two neighbouring bytes leave it as it is.
The handlers call `malloc`, although the comment at the watch file speaks of
async-signal-safe calls (`modbus_9001.cpp:78`): a nested signal can hang main while
the other threads go on. When main returns because nothing registered, the
singletons are destroyed while threads may run; the models end there.

## 6. Not modelled, and why

Digits of sensor values and parsing of the gateway's packets character by character
(no property depends on them; widths, lengths and checksums are modelled);
logging and configuration (I/O); the vendored Modbus library, beyond whether a
read succeeds; settings of serial ports; ESP8266 and the RS485 monitor (never
run); the gas sensor driver (its thread is never created; it shares `run` with the
ship driver, which is modelled); `close`, the blocking `pop` and `drainAndPersist`
of the message queue and `reset` of the breaker (no caller); the node timeouts of
the communication manager (nothing reads them). fsync and the file system's state
after a power loss are abstracted: what was written is there. A write to the store file
that ends in the middle of a packet and counts as done (`protocol/protocol_process.cpp:142`)
is left out: it makes a packet that no one built, and what the gateway makes of that is not
in the repository. Of a GPS sentence whole fields are lost, not parts of one. Concurrent callers
of a half-open breaker: there is one caller.

That the read of the GPS port ends the thread at the first empty buffer is in the
model and breaks no property: nothing in the repository says how long the
thread has to read.

## 7. Plan

Built so far: all modules of section 2, with proofs of every safety property that a
passing run checks.

What would come next:

1. A queue module that `Transmitter`'s one-step operations refer to, with the
   refinement between the two.
2. The parsing of the gateway's packets (20, 52, 31) with their replies.
3. The timeouts of the nodes, should the program come to read them.
