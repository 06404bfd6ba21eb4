# DryNoMore, specified

DryNoMore waters plants. A microcontroller on a battery wakes up every six hours, measures the soil
of up to six plants, pumps water where it is too dry, reports to a server over Ethernet and sleeps again.
The server keeps the settings, and a Telegram bot in the same process shows reports and lets users edit
the settings. This directory holds TLA+ models of the firmware (`src/`, `include/`) and of the server
(`server/telegram_bot/`), the TLC configurations that check them, and proofs about every part of the system.

## Inventory

| Part | State | Operations | What is hard |
|---|---|---|---|
| `checkMoisture()` (main.cpp) | locals of the call; power outputs; status; seconds; failure flag | measure soil and water, pump in bursts, evaluate | four exits from two nested loops meet at one label; a pump that stays on between bursts; uint8/uint16/int16 arithmetic |
| `loop()` (main.cpp) | settings, tick counters, result bits, pins | wake, fetch, plants, report, sleep | the failure latch; order of powering, pin modes and settings; wrapping counters |
| LAN client (lan.cpp) | one TCP client | connect, request/receive settings, send messages, hang up | polling with a limit; no framing |
| Status server (dry_no_more_server.cpp) | shared settings and status, one connection at a time | accept, read, process, answer | one `read()` taken for one packet; timeouts; state shared with the bot |
| `ts_queue` | linked list, two mutexes, a condition variable | `push`, `empty`, `limited_wait_for_pop` | fine-grained locking, notification without the mutex |
| Bot loop (telegram_bot.cpp) | settings snapshot, chats | publish status, forward messages, `/edit`, commit | requests that throw; snapshot older than the settings it replaces |
| Menus (telegram_bot_keyboards.cpp) | active keyboard, history, selected field and limits, snapshot | about forty buttons | a request may throw in the middle of each; one menu for all users and messages |
| Process and configuration (main.cpp of the server) | YAML file, `running` | start, signal, join, write | both threads must have ended; opening the file truncates it; a crash loses what was not written |
| Measurement (adc_measurement.cpp) | five readings | read, median, map to percent | noise; a calibration range that is empty or upside down |
| Power shift register (power_ctrl.cpp) | serial register, latch, enable pin | `update`, enable, disable | bits pass by the outputs; what the chip holds when power comes |
| Sleep (sleep.cpp, watchdog_abuse.cpp) | tick counters, saved power state, watchdog | `sleepSec` | splitting of the duration; restoring what was powered down |
| Tables, sockets, default values | - | - | see "Not modelled" |

The firmware is one thread; calls nest `loop` -> `checkMoisture` -> measurement. The server has two threads
that share the settings, the status and the queue, each under its mutex. Board and server talk over TCP:
`REQUEST_SETTINGS` is answered by the settings or by one dummy byte, upon which the board sends its own;
`REPORT_STATUS`, `WARN_MSG`, `ERR_MSG` and `FAILURE_MSG` are not answered.

What makes each part correct:

* one irrigation: bounded pumping, pumping only on fresh evidence, everything off afterwards, an exact
  failure detector, and it returns;
* the rounds: nothing irrigated while failed, nothing powered asleep, measured sensors are powered inputs,
  reports say what happened, the period drifts within bounds, every plant has its turn;
* the queue: a linearizable FIFO without races, leaks or stuck threads;
* the exchange of settings: no garbage, nothing older, what is committed arrives, a failure stays until
  it is cleared, and a board that lost its memory gets both back;
* reporting: each chat hears things once and in order, a running server loses no message, a reported failure
  can be seen, an orderly end keeps everything;
* the drivers: outputs change at once, sleeps are exact, a minority of bad readings has no effect, and each
  routine leaves the hardware as the next one needs it;
* the menus: impossible branches are impossible, values stay in range, the way back is the way taken, and
  a session is committed as a whole or not at all.

## Modules

| Module | Models | Depends on | Theorems in |
|---|---|---|---|
| `CheckMoisture` | `checkMoisture()` | | `CheckMoistureProofs` |
| `IrrigationLoop` | `setup()`, `loop()` | extends `CheckMoisture` | `IrrigationLoopProofs`, `ReportProofs` |
| `FifoQueue` | what `ts_queue` promises | | |
| `TsQueue` | `ts_queue` | implements `FifoQueue` | `TsQueueProofs` |
| `SettingsSync` | settings and failure flag between board, server, file and user | | `SettingsSyncProofs` |
| `EditSession` | what an edit session promises | | |
| `Keyboards` | the bot's menus | implements `EditSession` | `KeyboardsProofs` |
| `ConfigFile` | encoding of the settings in the file | | `ReportingProofs` |
| `Reporting` | the server process: status server, bot loop, `main()` | extends `ConfigFile` | `ReportingProofs` |
| `PowerOutputs` | what the power outputs promise | | |
| `ShiftRegister` | `ShiftReg` | implements `PowerOutputs` | `DriversProofs` |
| `Sleep` | `sleepSec()` and the watchdog | | `DriversProofs` |
| `Measurement` | `clampedMeasurement()` | | `DriversProofs` |
| `Drivers` | their use by one thread | extends the three | `DriversProofs` |
| `MC*` | instances for TLC | | |

**CheckMoisture.** The locals of the call are the variables of its frame; `pc` is the place in the loops. Each
measurement is a step, `MeasureSoil` or `MeasureWater`, with any level as its result. `EndBurst` is the end of the
inner loop with the burst delay, `StopIrrigation` everything from the label `stop_irrigation` to the return. `power`
and `outputOn` are the latched outputs and the output enable of the shift register; `Driven` is what the board really
supplies. The variables `pumped`, `elapsed`, `dryReads` and `sawEmpty` are history that no action reads. `elapsed` is
the real time of the call in milliseconds, next to what the code charges in seconds: 500 ms after the sensors are
powered (`PowerOnDelay`), a time of `MeasureTimes` for each measurement, and the delays. A measurement is five
readings with four pauses of 200 ms between them (`MeasurementPauses`) and the conversions, but the code computes with
five pauses (`MeasurementDuration`) and charges whole seconds; so `MeasureTimes` is anything from 800 to 1000 ms. The
16-bit `int` product of the measuring time is undefined when it overflows and then yields any word.

**IrrigationLoop.** One action per section of `loop()`; the calls of `checkMoisture()` are the steps of
`CheckMoisture`. The network is an environment: a fetch brings settings or nothing, a report arrives or not.
Either takes a time of `SessionTimes`, up to `LongestSession`, that the code does not charge; `roundTime` is the real
time since the board woke up. Not counted are the computing between the measurements and the drift of the oscillator.
`ticks` wraps at a byte. `checked`, `firstMoist`, `firstWater`, `emptySeen` and `failedPlant` are history: which
plants were looked at, the first readings of the round, and what went wrong in it. Only the production mode is modelled.

**TsQueue.** A step is what a thread does between two points at which another can see a difference. Nodes
are addresses that are freed and allocated again. `chain` is history: the nodes from head to tail. The
refinement maps a push to the moment the tail moves and a pop to the moment the head does.

**SettingsSync.** Settings are a version and the failure flag. Each packet is an element of a stream, and a `read()`
may return several, or part of one: the server's next `read()` then returns the other part, whose first byte decides
what it is taken for (in a message it may be a blank, which is the byte of `REQUEST_SETTINGS`), while the board reads
its answer once and keeps its settings if it is not as long as they are (`ReadAnswer`). A connection that breaks may
leave part of a packet as well. The bound: a packet arrives in no more than two parts. The sizes are what both sides
tell settings by (`SettingsSize`). Part of a long message may happen to have that size; whether it may is the
parameter `LookAlike`, and `NoGarbage` says what holds if not. `faults`, fixed in a behaviour, says what may go wrong:
connections that break (and of which the server may never hear), reboots of the board, coalesced reads, packets in
parts, slow ends, kills of the server, failures while a user is editing. `Stop` is an orderly end and restart, `Crash`
a kill and restart, `Reboot` a board that loses power: its settings and flag are the default ones, and its connection
stays open at the server's end. A first byte of `Settings` that is read as a request is a parameter (`LeadType`),
since it depends on the calibration of the first sensor.

**Keyboards.** Every button handler is an action up to the request it makes; a request takes effect, throws
without effect (`refused`) or throws with it (`lostAnswer`). `oldMessage` allows presses on any message ever
sent. The selection `idx`/`isWaterLvl` is `sel`, the pointers `value8`/`value16` are `field`. The numbers of
the snapshot are clamped and cut to their width as in `updateValue()`.

The menus implement `EditSession`: a session is open while a keyboard is active.

**Reporting.** The server's thread, the bot's thread and `main()` with the variables they share. A step is a
critical section or a request to Telegram, so that a status may be stored while the one before is being sent.
Reports are numbered. `SendThrows` is an exception outside of the `try` block: like `Kill` it ends the process
with all it has in memory. `Join` waits for both threads and truncates the file, `WriteConfig` fills it, `Start`
reads it. The exchange of settings with the board is one step here;
`SettingsSync` has what may happen in between. `Edit` takes the snapshot and `CommitSettings` writes it back whole, the
failure flag that it had included; what users change in between is chosen at the commit. `pushed`, `received`,
`reported` and `outdated` are history.

**ConfigFile.** A byte is the set of its bits that are one, a bitmap a function from bytes; bits beyond the last
plant are never set, as nobody has a button for them.

**Drivers.** `ShiftRegister` has a step for every edge of the clock and the latch, `Sleep` for every watchdog
period and every busy second, `Measurement` for every reading. `Drivers` calls them one after the other in any
order, which includes the orders of `loop()` and `checkMoisture()`. The division by zero of `map()` yields any byte.
`qsort()` is its result, position by position: at `k` is the reading that fewer than `k` readings lie below and
that at least `k` do not exceed (`Sorted`); `SortedSorts` has TLC compare it with the definition of sorting.
`CheckMoisture` and `IrrigationLoop` use the promises: `update()` is one assignment there, `sleepSec(n)` n
seconds, a measurement a percentage.

Definitions whose comment says "Mutant" are plausible bugs of the definition that follows. Put in its place
they make the property fail that they are listed with in `PROJECT.json`: each property can fail.

## Runs

| Run | Question | Bounds |
|---|---|---|
| `MCCheckMoisture` | is one irrigation safe, and does it return? | 2 plants, 3 levels (dry and empty / low / full), 0, 1 or 3 bursts of 0, 1 or 2 seconds, with and without delay, both reservoirs; measurements of 800 ms; real integer widths |
| `MCIrrigationLoop` | are the rounds right, do the reports tell what happened, how far may the period drift, and has every plant its turn? | 2 plants, the default settings and 4 others over 4 configurations of a plant, one of them with bursts that have no duration; measurements of 800 or 1000 ms, network sessions of 0 or 3 s; bytes of 2 bits and words of 6, so that counters wrap within a few rounds |
| `MCTsQueue` | is the queue memory-safe, free of deadlocks and a FIFO? | 2 producers, 2 consumers, 3 nodes, 2 values, symmetric |
| `MCTsQueueLive` | does a sole consumer get what it was told of, does it get everything, and does no call hang? | one producer, one consumer, 3 nodes, 2 values |
| `MCSettingsSync` | no garbage and an available server under every fault; does the protocol work without faults, and when the board loses power? | five sets of faults: none (2 edits), reboots (1 edit), all but packets in parts (1 edit), packets in parts with joined ones (1 edit) and with broken connections (no edit); 2 connections, 1 restart or reboot |
| `MCKeyboards` | are the impossible branches impossible under every fault; do the shown buttons work and commits stay in range; are they edit sessions? | two sets of faults, all (1 change) and refusals (2 changes); 2 plants, ranges scaled to 3 > 2 > 1 |
| `MCReporting` | do reports reach the chats, in order and none lost; what survives the end of the process? | 2 packets, 1 chat known and 1 that joins (or none known), 1 further start; files with settings, with old ones and with none; 3 plants in bitmaps of 2 bits to the byte |
| `MCDrivers` | do the hardware routines keep what the other modules assume? | 4 outputs, 3 words; durations 0, 7, 8, 9, 255 and 21600 s at the real widths; 5 readings of 5 values, every calibration |

The bounds are the smallest at which the cases differ: two plants share or split the reservoirs; three
bursts have a first, a middle and a last; three nodes allow two messages behind a dummy and the reuse of a
freed node; two connections are one being served and one waiting; three different ranges tell a wrong limit
from a right one; two packets are one being sent and one that comes meanwhile; a bitmap of two bytes has a bit
in either; four outputs show a wrong order, direction or count of the shifts, and five readings of five values
have every order and every tie. The history variables `pumped` and `elapsed` are bounded by the calls themselves.

Runs that TLC refutes show where the code does not do what its comments say:

| Run | The code | The comment |
|---|---|---|
| `MCTicks` | `max(t, t + 1)` on a byte turns 255 into 0 | main.cpp:448, "prevent overflows!" |
| `MCErrorText` | water that was not measured is reported as empty | main.cpp:388, "send an error that the water is empty!" |
| `MCLongRound` | a round longer than the period makes the sleep wrap, up to 18 hours | config.hpp:56, "time between moisture checks: default every 6 hours" |
| `MCSyncLatch` | a failure message read together with the status is not seen, and the board's flag is then reset; so it is by a commit of a snapshot older than the failure | main.cpp:374, "allow remote to reset the hardware failure flag" |

The last one refutes `FailureLatched` under two sets of faults, `{"coalesce"}` and `{"staleEdit"}`, either of which is
enough; TLC reports the shorter counterexample, of the first. What the code keeps of the property,
`LatchedIfReliable`, holds in `MCSettingsSync`. In the same way `PeriodKept`, a part of `TimeAccounting`, is what it
keeps of the period that `MCLongRound` refutes: after a round that fits into the period the board wakes up early by at
most 200 ms for each second charged (a measurement is charged as a second and takes as little as 800 ms), and late by
at most what is not charged: 2.5 s for each plant checked (two measurements and the power-on delay) and the two
network sessions. The period is kept no closer than that.

`FailureVisible` is what `Reporting` keeps of a failure after a commit: only a snapshot that was taken before the failure
hides it, or a user who clears it.

Four weaknesses are modelled without a run of their own: an orderly end without a single chat removes `user_chats`
from the file, which the next start refuses (`SavedExactly` says exactly when); a kill between the truncation and the
write of the file leaves one that cannot be started from; a plant whose bursts have no cycle (a duration of zero)
measures no soil before the first burst is over, so that its "before" level is a later reading than for other plants
(`StatusFaithful` says which); and the other part of a message that begins with a blank is taken for a request,
whereupon a server without settings would take what it reads next for settings if it had their length (`LookAlike`).

`MCLongRound` uses the real widths and the longest settings (255 bursts with a delay of 255 s).

## Fairness

* `CheckSpec`, `Spec`: the processor takes its next step (weak fairness of the calls, of the program).
  Measurements and connections are bounded waits in the code.
* `QueueSpec`: threads that can run do. A mutex that is asked for again and again is got (strong fairness
  of a thread's own steps): mutexes promise no order, so this is an assumption about the scheduler; critical
  sections are a few instructions, bot and server call rarely. The clock advances and a waiter past its
  deadline wakes up. Wake-ups for no reason and notifications have no fairness. `ServedSpec` adds a consumer
  that comes back, as the bot's loop does.
* `SyncSpec`: board and server thread run on; of the fetches that are made again and again some connect
  (strong fairness). Users, faults and restarts have none.
* `RepSpec`: both threads and `main()` run on, requests to Telegram return or throw, and a board hangs up or its
  read times out after a second (weak fairness of `Close`). Signals, kills, starts and users have none.
* `Keyboards` and `Drivers` have no fairness and no liveness: users do as they like, and what the drivers promise is
  safety, `sleepSec()`'s length included.

## Proofs

Each theorem holds for every value of the module's constants that satisfies the assumption named: every number of
plants, levels, widths, settings, chats, threads, connections and restarts. TLC evaluates the assumptions in the runs.

| Theorem | Statement | From |
|---|---|---|
| `TypeCorrect` | `CheckSpec => []TypeOK` | `CheckAssumption` |
| `FloodBound` | `CheckSpec => []PumpBudget` | |
| `PumpOnEvidence` | `CheckSpec => []PumpJustified` | |
| `PumpsStop` | `CheckSpec => []PumpsOffBetweenCalls` | |
| `DetectorExact` | `CheckSpec => FailureExact` | |
| `CallsRunOut` | each step of a call leaves fewer (`StepsLeft`), none when it has returned | |
| `FailureHolds` | `Spec => []NoIrrigationWhileFailed` | `CheckAssumption`, `LoopAssumption` |
| `DarkWhileAsleep` | `Spec => []NothingPoweredAsleep` | |
| `SensorsAreReadable` | `Spec => []SensorsReadable` | |
| `ReportsAreFaithful` | `Spec => []StatusFaithful` | |
| `ReportsAreComplete` | `Spec => []ProblemsReported` | |
| `RoundsAreCharged` | `Spec => []RoundCharged` | |
| `PeriodIsKept` | `Spec => TimeAccounting` (`RoundCharged` and `PeriodKept`: how far the charge and the period may be off) | |
| `NobodyPassedOver` | `Spec => DueChecked` | |
| `RoundsRunOut` | each step of an awake board is `Nearer` to its sleep | |
| `CallsKeepPromises` | the theorems about one call hold of the calls of `loop()` | |
| `QueueIsMemorySafe` | `QueueSpec => []MemorySafe` | `QueueAssumption` |
| `QueueIsThreadSafe` | `QueueSpec => []ThreadSafe` (`MemorySafe` and `NoDeadlock`) | |
| `QueueIsAFifo` | `QueueSpec => IsFifo` (refinement) | |
| `AnswersHold` | `QueueSpec => AnswerKept` | |
| `NobodyTakesGarbage` | `SyncSpec => []NoGarbage` | `SyncAssumption` |
| `FailuresLatch` | `SyncSpec => []LatchedIfReliable` | |
| `NeverGoesBack` | `SyncSpec => NeverOlder` | |
| `EditorsAreArmed` | `KbSpec => []EditorArmed` | `KeyboardAssumption` |
| `CommitsStayInRange` | `KbSpec => []CommittedInRange` | |
| `HistoryIsThePath` | `KbSpec => []MenuPath` | |
| `UsersSeeTheMenus` | `KbSpec => []OneMessageWorks` | |
| `SessionsAreAtomic` | `KbSpec => EditsInSession` (refinement) | |
| `ChatsHearInOrder` | `RepSpec => []HeardInOrder` | `ConfigAssumption`, `ReportingAssumption` |
| `MessagesAreKept` | `RepSpec => []NoMessageLost` | |
| `FailuresAreVisible` | `RepSpec => []FailureVisible` | |
| `SettingsSurviveTheFile` | reading what was written of any settings gives the same ones | |
| `EndsSaveExactly` | `RepSpec => []SavedExactly` | |
| `TheBotRunsOut` | after a signal each step of the bot leaves fewer (`BotLeft`), nobody else's adds any | |
| `NeverGarbage` | `DriversSpec => []NoPowerOnGarbage` | `ShiftAssumption`, `SleepAssumption`, `MeasurementAssumption` |
| `OutputsAreAtomic` | `DriversSpec => AtomicOutputs` (refinement) | |
| `SleepsExactly` | `DriversSpec => []SleepExact` | |
| `AlwaysReady` | `DriversSpec => []ConverterReady` | |
| `MinorityOutvoted` | `DriversSpec => []NoiseOutvoted` | |
| `PercentagesAreSound` | `DriversSpec => []MappingSound` | |

An empty cell has the assumption above it. `KeyboardAssumption` includes that the settings a menu starts from are in
range, which is the board's part; `CheckAssumption` that the largest `int` is no larger than the largest `unsigned`,
which C guarantees; `ReportingAssumption` that the chats are finitely many, as any `std::set` of them is.
Hardly any property is inductive as it stands; what each proof adds:

* **One irrigation.** A bound on `pumped` needs to know how far the loops are, and whether the pump is on depends on
  where the call is. `CallInv` has four parts: `FrameInv` (which loop counters, configurations and outputs go with
  each place of the call), `BudgetInv` (seconds pumped, counted by completed bursts and cycles), `EvidenceInv` (what
  a running pump says about the last readings) and `DetectorInv` (what the two flags say about the dry readings and
  the empty ones). `FailureExact` follows because `StopIrrigation` computes the flag from locals that
  `DetectorInv` describes.
* **The rounds.** `RoundInv` adds to `CallInv` where the loop is when a call runs (`PlaceInv`), what is
  powered in each place (`PowerInv`) and which pins are inputs (`InputsInv`: at least those the settings in force use).
  For the reports, `LevelsInv` says for each plant and each reservoir whether its first reading has been noted, and
  that it is then in the status; a plant's entry belongs to nobody else, a reservoir's may have been made by another
  plant. `ProblemsInv` follows an empty tank from the reading over the local flag and the result bits to the message.
* **Time.** The charge lags behind the clock while a call runs, since bursts and measurements are added up at places
  of their own: `TimeInv` bounds the lag in each place (`LagIn`), from below by 800 ms for each charged second and from
  above by what is never charged: up to two measurements of a call, its power-on delay, and the
  network sessions so far. `CheckedInv` has each plant checked at most once, so that these add up over a round. It is
  stated short of the overflow, where 16-bit arithmetic is exact. `PeriodIsKept` puts this into the subtraction of the
  sleep. `TurnInv` says of the plants that the loop has passed that each was checked or may be skipped; a counter
  below its threshold does not wrap.
* **The queue.** `LocksInv` says who holds which mutex from the places of the threads; `ChainInv` that the list is
  linked, allocated, without repetition and filled up to the dummy; `NodesInv` that each node outside the list belongs
  to one thread; `CallsInv` what a thread relies on in the middle of a call, e.g. that a consumer about to unlink a node
  has two. Each step maps to a push, an answer, a pop or to none. A sole consumer keeps its answer because only
  itself makes the list shorter (`AnswerInv`). Deadlock is excluded by the order of the mutexes, which follows from
  `LocksInv`: who holds the tail's waits for nobody, who holds the head's at most for the tail's (`LocksAreOrdered`).
* **The exchange.** That no garbage is taken over depends on what may be under way: `PacketsInv` says which kinds of
  packets, and parts of them, each stream can hold, and that nothing but whole settings is as long as settings.
  `ExchangeInv` says that the board asks once per connection, before anything else, so that there is at most one answer,
  which a board that gave up waiting leaves behind with its connection.
  What the code keeps only without faults needs more (`Calm`): a
  connection carries one fetch or one report (`LinesInv`, `StreamsInv`), the failure message is the last packet of its
  report, so that at most one is under way (`FailureInv`), and the two sides agree on the flag up to that message
  (`FlagsInv`). `FetchInv` and `VersionsInv` order the versions of the board, the answer on its way to it, the
  server and the snapshot. The server asks for settings only while the board waits for its answer,
  so that its read never times out then.
* **The menus.** The history is a function of the active keyboard and the kind of sensor, `WayTo`; with it every
  step leads to an editor only over the button that armed it. `MessageInv` keeps the message and the menu together as
  long as there is only one.
* **Reporting.** Order is a statement about all numbers on their way: `WayInv` orders those in the queue, in the
  status and in the bot's hands, `PastInv` says that whatever a chat has received is behind all of them. `FlagInv`
  says where the failure flag lives, in memory or in the file, whatever the process is doing, and that a snapshot
  taken after the failure has it too, which is what makes its commit harmless.
* **The file.** A place in a bitmap is a byte and a bit (`BitPlaces`), so that taking a bitmap apart and packing it
  again gives the same one, provided that no bit beyond the last plant is set. `KeptInv` relates memory and file at
  the end: settings that were read are valid, so an orderly end writes settings if and only if there are some.
  `QueueFits` bounds the queue, which the types need.
* **The drivers.** `ShiftInv` says which bits of the word have arrived after `bit` shifts, `SleepInv` that what has
  been slept and what is left add up to the duration in each phase, by division with remainder.
* **Measurements.** The median is an order statistic: fewer than half of the readings lie below it and at least half
  do not exceed it, so every majority has a reading on either side. That a reading with this property exists is the
  least one that enough readings do not exceed (`NatLessThanWellFounded`, which needs no induction over sequences).
  The percentage is monotone because truncating division by a positive number is.
* **Ends.** Liveness itself is out of reach, but its safety core is not: a number that each step makes smaller.
  `CallsRunOut`, `RoundsRunOut` and `TheBotRunsOut` have one each for the call, the round (stage, plants left, steps
  left of the call, in this order) and the bot after a signal. With weak fairness of the steps named there they are
  what `CallReturns`, `EveryPlantServed` and `SignalEnds` rest on.

Each step has a lemma; the last step of a theorem puts them together.

Only model-checked: the liveness properties `CallReturns`, `EveryPlantServed`, `OldestLeaves`, `EveryCallReturns`,
`Converges`, `ServerReturns`, `ReportsArrive` and `SignalEnds`, since neither fairness (`ENABLED`) nor leads-to by
induction on a number is within reach of the prover. Every invariant and every action property of a passing run
has a theorem.

## Not modelled

* The tables of the bot (telegram_bot_utils.cpp): they format a copy that was made before, keep no state and
  feed back into nothing.
* The registers of the processor and of the Ethernet chip, DHCP, and the timed register sequences of the watchdog
  and the sleep mode, which are one step each.
* Token, port and whitelist of the configuration file; the syntax of YAML. Number fields are one opaque value.
* Two debug modes of `loop()` that are compiled out; serial output.
* `try_pop()` of the queue, which nothing calls.
* The libraries for Ethernet and Telegram, which are not in the repository: connections fail and requests
  throw at any time.

## Plan

Done: every component with state is modelled, with the exceptions above; every module that models one has theorems,
and so have all properties of the passing runs but the eight about liveness.

What is left to prove are the safety cores of more of these: that the exchange of settings comes nearer to its end
with each fetch (`Converges`), that the server's thread leaves each connection (`ServerReturns`), and that the oldest
message of the queue comes nearer to the consumer (`OldestLeaves`).
