# emModbus2influx in TLA+

emModbus2influx is a daemon that polls Modbus RTU and Modbus TCP devices
("meters") on cron schedules, evaluates formulas over the values, and sends the
result to InfluxDB, Grafana Live and MQTT. It can also write to the devices on a
schedule. One main thread does most of the work; one worker thread per serial
port polls the meters of that port.

This directory models the program from the configuration file to what leaves it:
what a file makes of meters and schedules, the main loop, the threads of a polling
round, the query of one meter with the connection pool it shares, the conversion
of registers, the averaging window of the InfluxDB writes, the lines and messages
that are sent and the three clients that send them, the writes to devices, and the
watch over dead serial ports. TLC checks each model on a small installation; TLAPS
proves the safety properties of eight of them for installations of any size.

Paths are relative to the repository (`src/` is its root). A definition of a
model carries the name of the function or variable it stands for wherever the
language allows; `PROJECT.json` maps every one to its lines.

## 1 The system

### Components

| component | state it keeps | operations | modelled in |
|---|---|---|---|
| **configuration** `meterDef.cpp`, `parser.c`, `argparse.c` | lists of types, meters, writes; names, flags, options, counters of fields | `readMeterDefinitions`, `parseMeterType`, `parseMeter`, `findMeter`, serial handles | `MeterDefinitions`; register parameters, command line and tokens are not |
| **schedules** `cron.cpp:16-187, 399-469, 615-674` | `cronTab` with next query time, lists of meters and of writes | `cron_write_add`, `cron_meter_add`, `cron_setDefault`, what is due | `ScheduledWrites` (writes, due times), `MeterDefinitions` (members); `WorkerPool` takes any set of due meters |
| **worker pool** `cron.cpp:200-395` and `cron_queryMeters` 399-578 | `workerData[]` (thread, mutex, condition, `numMeters`), `terminateWorker`, per meter `isDue`, `meterHasBeenRead` | `workerInit`, `workerThread`, `workerRun`, `workerWait`, `workerTerminate`, `LockMutex`, a round, `cronFree` | `WorkerPool`, `PollRound` |
| **meter query** `modbusread.cpp:62-147, 753-990, 1532-1783` | TCP pool (`isConnected`), `needSunspecResolve`, `initDone`, `startAddr`, `sunspecSf`, `hasBeenRead`, `fvalue`, `queryErrorCount` | `modbusTCP_open`, `modbusTCP_close`, `readRegisters`, `meterResolveSunspec`, `queryMeter` | `MeterQuery` |
| **register codec** `modbusread.cpp:579-751, 1991-2080`, `m-data.c` | none | `getRegisterValue`, `applyDevider`, `createModbusRegWriteBuff` | `RegisterCodec` |
| **meter writes** `modbusread.cpp:2092-2315` | `write` definitions, conditions, flags | `execMeterWrite`, also as test of formulas at start | `MeterWrite`, `ScheduledWrites` |
| **influx window** `modbusread.cpp:1402-1518`, `emModbus2influx.cpp` write loop | `influxWriteCountdown`, `fvalueInflux`, `fvalueInfluxLast` | `setMeterFvalueInfluxLast`, `setMeterFvalueInflux`, `executeInfluxWriteCalc` | `InfluxWindow` |
| **serial port watch** `modbusread.cpp:538-568`, `emModbus2influx.cpp:1412` | `queryErrorCount` of the serial meters | counting in `queryMeter`, `modbusRTU_checkDeviceErrors` | `SerialWatch` |
| **main loop** `emModbus2influx.cpp:1127-1561` | `isFirstQuery`, `dryrun`, `terminated`, the buffers of both clients | initial query, round, lines, messages, dryrun, shutdown | `MainLoop` over the next three |
| **line protocol** `influxdb-post.c:166-355` and `emModbus2influx.cpp` append functions | `influxBuf` with length and use, `last_type` | `_format_line2`, `_begin_line`, `_escaped_append`, `appendToBuf` | `LineFormat` |
| **Grafana Live** websocket branch of `influxdb-post.c:597-807, 906-928` | curl handle, url, `isWebsocket`, `firstConnectionAttempt` | connect, fall back to http, send, send again | `GrafanaLive` |
| **mqtt** `mqtt_publish.c`, `emModbus2influx.cpp:580-1090` | connection, next message | connect, publish, reconnect | `MqttPublish` |
| **influx client** `influxdb-post.c` | `influxBuf`, list `firstEntry`, `numEntriesQueued`, `url` | `post_http_send_line`, `addToQueue`, `influxdb_deQueue`, `influxdb_post_http_line`, `periodicProc`, `influxdb_post_free` | `InfluxPost` |
| **formulas** `modbusread.cpp:1030-1400` | muParser variables | meter, meter type and write formulas | not modelled: arithmetic of an external library |
| **tariffs** `modbusread.cpp:1872-1976` | none that survives | `setTarif`, `meterSetTarif` | not modelled: a command that ends the program |
| **log, test server, build** | | | not modelled: no state the rest depends on |

### How they interact

* **Calls.** `main` runs in a loop: `cron_queryMeters` (which marks what is due,
  wakes the workers, queries the TCP meters itself, waits for the workers,
  evaluates formulas and the influx window, executes due writes and returns a
  number that is above zero if anything was read); if it is, the check for dead ports and
  the writes to InfluxDB, Grafana and MQTT.
* **Shared state between threads.** The meter list, `isDue`, `meterHasBeenRead`
  and `workerData[i].numMeters` are touched by main and by the workers, and no
  mutex protects them as such: all rests on main *not* running while a worker
  polls. The mutex of each worker exists to let main wait for it.
* **Shared state between meters.** TCP meters of one host share a pool entry;
  serial meters of one port share the bus and the fate of the port.
* **Shared links between lists.** A write definition has one field `next` for
  the list of all definitions and for the list of every schedule it is in.
* **The outside.** Devices fail to answer or drop the TCP link; the database is
  unreachable, refuses a record, or its answer is lost; Grafana and the MQTT broker
  go away with or without the client noticing; SIGTERM and SIGINT set
  `terminated`.

### What is hard, and what correctness means for each part

* *Worker pool.* The condition is waited for without a predicate and signalled
  without the mutex. Correct means: every due meter is polled once per round, by
  its own thread; main uses results and buses only when no worker does; the number
  returned has no stale or partial share of a worker; at shutdown no worker walks a
  freed list.
* *Meter query.* Many early returns, each with its own idea of closing the
  connection and counting the error; two ways to get a register (in a block, or
  by itself); addresses that change once, when the device has been resolved.
  Correct means: a meter that counts as read has all its values, each from its
  own address, scaled by the factor of the device; no request on a closed
  connection; failures are counted; a dead link is found and reopened.
* *Influx window.* The countdown goes through -1, 0 and `influxwritemult`, and
  three places change it. Correct means: exactly every n-th successful query is
  written, with the newest value and the extremes of exactly those n.
* *Influx client.* Correct means: list and counter agree, a buffer has one owner,
  nothing is stored twice, nothing is dropped but at the limit of the queue or at
  the end of the program, and the backlog drains.
* *Serial watch.* Correct means: the program never exits while every port has a
  meter that answers, and does exit when a port is dead for good.

* *Schedules and writes.* The lists are built by three functions at three times,
  walked while they are built, and share their links. Correct means: loading ends,
  every definition runs when one of its schedules is due, items are attempted in
  order and none after a `return`, nothing is sent without a link.
* *Codec.* A dozen types of one to four words, two orders, offsets into a block,
  four scalings. Correct means: what is read is what the words mean, scaled once;
  what is written is read back; nothing is sent as an integer that is none.
* *Grafana and MQTT.* Links that die silently, a fallback that must happen once,
  messages that are not kept. Correct means: what is sent while the server can be
  reached arrives, whatever happened before, and after an outage all arrives again.
* *Lines.* A buffer that grows in several places. Correct means: every line is
  well formed, complete, and inside its buffer.
* *Configuration.* Options are inherited by copying at the line `type=`, counters
  are kept beside the lists they count, handles are set in a pass at the end.
  Correct means: the order of lines changes nothing that is not rejected.

The hazards, one by one with their lines and the properties aimed at them, are
listed in `PROJECT.json`.

## 2 The modules

### WorkerPool, PollRound

`PollRound` is what a round promises, without threads: it takes a set of due
meters, polls each exactly once in some order, possibly several at a time, and
reports when all are polled. The number it reports is that of `cron.cpp:577`: the
due meters that answered plus all formula-only meters (549), so that one of the
latter that is due counts twice. Nothing in the program asks for more than whether
it is 0.

`WorkerPool` has the main thread (`mpc`, `idx`, `tries`) and the workers (`wpc`,
`cursor`) as separate processes. A step ends where another thread can see the
difference: at the mutex, at `pthread_cond_wait`, at `pthread_cond_signal`, at
the `usleep` calls, before and after each `queryMeter`. `LockMutex` is a number
of attempts, each of which may time out if somebody owns the mutex, and an
`exit(1)` after the last. The shutdown is `workerTerminate`, `freeMeters`, and
the second `workerTerminate` that `cronFree` makes. What a query gives is a
choice between read and not read; what the clock makes due is any set of meters.

Two constants are about the threads library and the scheduler. `SpuriousWakeups`
lets `pthread_cond_wait` return on its own, as POSIX allows. `PromptWakeup` is
the assumption behind the `usleep` of `cron.cpp:493` ("give them some time"):
while main sleeps, every worker that can run does so until it blocks. The code
does not enforce it, and the runs say what holds with it and what without.

The refinement mapping reads the phase of a round off `mpc`, and counts a meter
as polled when no worker is still inside `queryMeter` for it.

### MeterQuery

`queryMeter` for one meter at a time: open, sunspec resolve, init writes, blocks,
remaining registers, done; each transfer is an action that succeeds, if the link
is intact, or fails. Two variables per pool entry separate what the program
believes (`isConnected`) from what is so (`linkUp`). `LinkDrops` may happen
between any two steps. `ExecMeterWrite` is there for what it does to the pool.
One query at a time is no loss: all TCP meters are queried by the main thread,
and serial meters use no pool entry.

A value is represented by where it came from (`[type, addr, sf]`: the kind and
address of the data and the scaling factor known at that moment), so that a
property can tell a value from the wrong place. A scaling factor is taken from any
block that covers its address (`SfInBuffer`): from one of its own kind that is the
device's factor, from another kind whatever is there. The six attempts of
`readRegisters` are one transfer. A sunspec device has one block here, and
formula-only registers are left out. A failed resolve may happen after some of
its reads; they change nothing the query uses.

### InfluxWindow

One meter with a register of each processing kind (newest, largest, smallest,
average), all fed the same value. `DueFailed` lets a failed query leave any of
the values, or 0, in the registers. `OtherRound` is a round in which other meters
are due; the formulas of a formula-only meter are evaluated in it all the same
(`cron.cpp:547`), and `NothingDue` a round that returns before that (462). `newest`
remembers the value of the last successful query.
Doubles are integers in a unit in which the halves that occur are exact.

### InfluxPost

The client as main sees it: a record is formatted into `influxBuf`
(`NewRecord`), posted (`PostLine`), queued if that fails in a way the code
retries, and after every post the server has answered at most
`INFLUX_DEQUEUE_AT_ONCE` older ones are posted, up to the first that fails.
`influxdb_post_free` makes a final attempt and frees the client with all that is
left on the list (`CallEnds`). `RequestHangs` is a `curl_easy_perform` that never
returns, since no timeout is set for it. `Outcomes` gives what the server may do
with a post: store it, refuse it (a 4xx), fail (a 5xx), not be reachable, or store
it without the client hearing of it. Records are model values; `stored` is the
server's side, `answerLost` the records that came to be sent again that way.
`PeriodicProc` is the call of `influxdb_post_http` without arguments that main makes
between and during polls: it starts the dequeuing at any time once the url is known.

### SerialWatch

Rounds over sets of due meters with a result for each, `queryErrorCount` as
`queryMeter` changes it, and `modbusRTU_checkDeviceErrors` as main calls it, that
is only after a round that has read something. A formula-only meter, which the
instance has or has not, makes every round one. `failedInRow` is the history the
counters are compared with, `lastRead` says whether the last round read anything.

### MeterWrite, ScheduledWrites

`MeterWrite` is one call of `execMeterWrite`: the condition of the definition, the
connection (`modbusTCP_open`), then item by item its condition, formula, transfer
and `return`. What an expression yields and whether a device answers are choices.
With `test` set it is the test of formulas at start, which evaluates everything and
must send nothing.

`ScheduledWrites` is where the calls come from. A configuration is any sequence of
`[write]` sections over a set of definitions, each with lines `schedule=`; the
appends of `cron_write_add` and of the list of all definitions walk their lists
step by step, so that a list without an end is a behaviour without an end. Then
`cron_setDefault`, the test of all formulas, and the loop: `Tick` is time passing
while main sleeps, `Round` the part of `cron_queryMeters` that marks and moves on,
`Run` the walk over the lists that executes what is marked. Meters are reduced to
the question whether a schedule polls any.

### RegisterCodec

One register definition, the words of a device around it, and three operations:
a block is read and the value converted, a value is written, the device changes.
`Meaning`, used by properties only, is what readme.md says of each type, as a
positional number; `RawValue` is what the shifts of the code compute. Words have
two digits of base `ByteBase`, so that every content of every type can be
enumerated. Conversions that C++ leaves undefined are a choice of results.

### LineFormat, GrafanaLive, MqttPublish, MainLoop

`MainLoop` is the loop of `main` from the initial query to the end of the program,
and composes the other three. `LineFormat` has the state machine of `_format_line2`
over tokens, with the length of every name and value and the buffer it is written
to, and the functions of `emModbus2influx.cpp` that append meters to the lines for
InfluxDB and Grafana. `GrafanaLive` is the websocket client: `gHandle` says what
the curl handle is connected to, with `half` for a link whose peer has gone
unnoticed, and `reset` once it can be noticed. `MqttPublish` sends one message per
meter with its statistics; a message taken on a dead link is lost. The environment
acts only at points where a client could see the difference (`GrafanaWorld`,
`BrokerWorld`), which keeps the state space small and loses no outcome.
Formula-only meters count as read when they are due (`modbusread.cpp:1551, 1588`,
`cron.cpp:472, 500`) and go to Grafana like the others; a meter's MQTT values are
new in every round in which its formulas are evaluated.
`gQuiet` and `mQuiet` remember whether the server could be reached throughout.

### MeterDefinitions

The sections of the configuration, line by line in any order a file can have, as
`readMeterDefinitions` treats them; `rejected` is the exit of `parserError`.
An option's value is replaced by where it came from (`global`, `type`, `meter`), a
field by its enabled flag; a schedule's members are meters by index. Of the flags
`influx=`, `mqtt=`, `grafana=`, treated alike, there is one.

### How they fit together

| boundary | provided by | relied on by |
|---|---|---|
| every meter is scheduled, has its handle, a unique name, exact counters | `MeterDefinitions` | `WorkerPool` (`PortOf` is defined), `MeterQuery` (a serial meter has a bus), `LineFormat` (the fields to send) |
| a round polls each due meter once and main is alone afterwards | `WorkerPool` (`PolledOnce`, `MainAlone`, `ImplementsPollRound`) | `InfluxWindow`, `SerialWatch`, `InfluxPost`, `MainLoop` and `ScheduledWrites`, which take a round as one step |
| `queryMeter` ends read or failed; a failed serial meter has an error count | `MeterQuery` (`ErrorsCounted`) | `SerialWatch` (`Results`: ok, failed, or unresolved) |
| `meterHasBeenRead` means all values are this query's | `MeterQuery` (`ReadComplete`) | `InfluxWindow` (`DueRead`), `MainLoop` (`read`) |
| a register's words become its value | `RegisterCodec` (`ReadsDeviceValue`) | `MeterQuery`, where a value is the place it came from |
| a record is written when the countdown is 0 | `InfluxWindow` (`WriteEveryMult`) | `InfluxPost` (`NewRecord`), `MainLoop` (`chosen` is any set of meters) |
| a line is complete | `LineFormat` within `MainLoop` (`LinesComplete`) | `InfluxPost` (a record is one model value), `GrafanaLive` |

`MainLoop` over `LineFormat`, `GrafanaLive` and `MqttPublish`, and `ScheduledWrites`
over `MeterWrite`, are composed in TLA+ and checked and proved as one
specification; `WorkerPool` is checked against `PollRound`. The other rows are
agreements between models: what one promises as an invariant the other has as its
choice of inputs.

## 3 The runs

| run | module, cfg | instance | shows |
|---|---|---|---|
| `config_file` | `MCMeterDefinitions`, `MeterDefinitions` | every file of up to six lines, two names, one type, two meters, one named schedule | `OptionsInherited`, `CountsExact`, `HandlesKnown`, `NamesFindOne` |
| `mqttformat` | `MCMeterDefinitions`, `MqttFormat` | every file of up to four lines, one type, one meter | `MqttformatInherited` is violated: finding 2 |
| `pool_prompt` | `MCWorkerPool`, `PoolPrompt` | 2 workers; serial meters 1 and 3 on one port, 4 on the other; TCP meter 2; formula-only meter 5; 2 lock attempts; prompt wakeup | `MainAlone`, `PolledOnce`, `WorkersGone`, and that the threads implement `PollRound`, the number returned at the end of the round included |
| `pool_async` | `MCWorkerPool`, `PoolAsync` | 2 workers, 2 meters, no assumption on timing, spurious wakeups | even then `NoPollAfterFree`, and `RoundEnds` under fairness |
| `query_links` | `MCMeterQuery`, `QueryLinks` | sunspec inverter and another meter behind one gateway, a serial meter, and a meter with init writes alone on its host; a block of another kind over a register and over a factor | `NoUseAfterClose`, `ReadComplete`, `ErrorsCounted`, `ValuesScaled`, `ReadAgain` |
| `register_codec` | `MCRegisterCodec`, `RegisterCodec` | every type in every order with every content, every combination of scalings for one type, registers moved by an offset | `ReadsDeviceValue`, `ReadBack`, `IntegersAreWhole` |
| `write_lists` | `MCScheduledWrites`, `WriteLists` | every configuration of three definitions over the default and two named schedules, one of them without meters | `NothingAfterReturn`, `ListsFollowFile`, `RunsOnlyWhenDue`, `StartedMeansOnePerSchedule`, `DueWritesRun`, and `AlwaysReturns` under fairness |
| `write_schedules` | `MCScheduledWrites`, `WriteSchedules` | the same | `WritesOnSchedule` is violated: finding 1 |
| `influx_post` | `MCInfluxPost`, `InfluxPost` | 5 records, cache 3, 2 dequeued at once, one refused record, answers may be lost | `QueueConsistent`, `OwnedOnce`, `NotStoredTwice`, `NoSilentLoss`, and `BacklogDrains` under fairness |
| `main_loop` | `MCMainLoop`, `MainLoop` | a meter with fields for each receiver, a disabled one, one of formulas only with a field for Grafana; both kinds of Grafana hosts; dryruns of up to 2 rounds | `LinesComplete`, `ConnectionConsistent`, `GrafanaDelivered`, `BrokerCurrent`, `DryrunSendsNothing`, and `Recovers` under fairness |
| `window_fold` | `MCInfluxWindow`, `WindowFold` | `influxwritemult` 3, three values | `WriteEveryMult`, `NoWriteMissed`, `ValuesOfWindow` |
| `watch_ports` | `MCSerialWatch`, `WatchPorts` | ports with 2 meters (one sunspec) and 1 meter, a TCP meter, with and without a formula-only meter, limit 2 | `AnsweringPortKept`, and `DeadPortGivenUp` under fairness |

The type invariants, and `ReturnedCount`, `EveryWorkerTriggered`, `OnlyOverOpenLink`,
`NoLateFallback` and `EveryMeterScheduled`, are proved for all values of the
constants (section 5); the runs are kept to what else could go wrong.

### Bounds and why they are enough

* *Configuration.* Six lines are a type and a meter with two options, or two
  meters of two lines each (a meter needs its section and its name to be
  accepted), so that every option meets `type=` in both orders and two meters meet
  each other under one name. Names are interchangeable (`SYMMETRY`).
* *Pool.* Two workers are needed for main to be past one while the other is
  late; two meters on a port for a walk that continues; a meter before and after
  the TCP meter in the list for the walk to skip it. More workers repeat the
  loops. `attempts` distinguishes none, once and more than once
  (`MaxAttempts`), `LockTries` stands for `LockMutex`'s retry count.
* *Query.* The instance has each way a register can be read or missed: covered by
  a block, covered by two blocks of which one has the wrong kind, not covered;
  a scaling factor inside the block, one outside that is 0, and one that is covered
  by a block of input registers; an init write on a connection that is closed, and
  one of a meter alone on a host whose connection is kept. Two meters on one gateway
  are needed for one to find the link the other lost.
* *Client.* A cache of 3 with 2 dequeued at once makes a full queue, a backlog
  that needs two successful posts, and a dequeue cut off in the middle; 5 records
  fill the queue and the buffer and leave one over. A record that has left the
  client may be used again for new data (the `NewRecord` guard), so the bound on
  records does not end the runs. `MaxStored` counts never, once, more than once.
* *Codec.* `ByteBase` 2 makes a word of two digits and enumerates all contents of
  a type; shifts, masks and signs act on words, so each way of being wrong shows in
  one of them, whatever the base. `LastAddr` 5 leaves room for a block that starts
  before, at or behind the register and one that ends within it. Values written are
  the edges of each type and one beyond (`Edges`).
* *Writes.* Three definitions are the least with one that is neither first nor last
  in the file; `MaxLines` 2 puts one into two schedules, or into the same twice;
  `MaxPeriod` 2 tells a schedule due now from one due next and later. The items are
  an alternative with `return`, an unconditional one and one with a formula.
* *Main loop.* `InitialSize` 8 and `NameLen` 6 make each place that appends find
  the buffer too small in some line; `MaxDryrun` 2 has a round that is last and one
  that is not.
* *Window.* 3 is the smallest count with a query that is neither first nor last;
  a negative value shows the 0 of a failed query as an extreme.
* *Watch.* Counters are followed up to `MaxCount`, one more than the limit of 2;
  above the limit no comparison changes.

`CHECK_DEADLOCK FALSE` is used where the program really stops: `exit(1)` in
`QueryLinks`, the end of the loop in `WatchPorts` and `MainLoop`, a file that has
been loaded or rejected in `MeterDefinitions`. The other modules have either no end
or a stuttering step for it.

### Fairness and why the code justifies it

* *Pool.* Main's steps, because a thread that can run does; each worker's steps
  while the process lives, because Modbus transfers end by the response timeout;
  the second `workerTerminate`, because it follows the first unconditionally. No
  fairness for rounds to begin or for SIGTERM to arrive.
* *Influx client.* A request that does not hang ends, by an answer or an error of the
  name lookup, the connect (limited to 300 s by libcurl) or the connection, and the
  main loop goes on producing data. `influxdb-post.c` sets neither a timeout nor a
  keepalive, so a peer that vanishes with the request in its hands can block
  `curl_easy_perform` for good: that is `RequestHangs`, an action of its own without
  fairness, and `BacklogDrains` exempts a program it has stopped. Nothing about the
  server; the property itself assumes `<>[]up`.
* *Query.* A running query continues (weak), and each meter's schedule keeps
  coming (strong, since other queries are in the way). `ReadAgain` is conditional
  on an environment that has become calm for good.
* *Watch.* The initial query, the first pass and the check follow at once (weak).
  A schedule that is due stays due until taken, so each meter keeps being part of
  rounds (strong). That rounds go on to read something is no fairness but the premise
  of `DeadPortGivenUp`.
* *Main loop.* The calls into the clients and what follows them (`Deliver`, weak):
  curl and paho return. For a connect and for a send on a websocket curl and the
  kernel see to that; a program that hangs elsewhere posts nothing more, of which
  `Recovers` says nothing. A dead websocket is noticed some time (`GrafanaReset`, weak:
  the kernel's timeout), a dead MQTT link too (`BrokerNoticed`, weak: the keep alive
  interval). Nothing is assumed of rounds, of the servers or of signals; `Recovers`
  has `<>[]` of both servers as its premise and says something of each line posted.
* *Writes.* The steps of loading and of executing (weak): sequential code goes on.
  `Tick` and `Round` (weak): time passes, and the main loop comes round.

## 4 Findings

1. **A write is executed with schedules that are not its own** (`cron.cpp:140`, run
   `write_schedules`). `cron_write_add` links definitions through the field that
   also links the list of all of them (`meterDef.cpp:1232`). The list of a schedule
   therefore goes on, behind its member, with everything that follows it in the
   file. `readme.md:362`: "A meter or a write can be part of one or more schedules".
   `RunsOnlyWhenDue` states what does hold. With two writes in one schedule, also
   in the default one, a list becomes circular and the program hangs while it
   loads (`StartedMeansOnePerSchedule`, proved).
2. **`mqttformat=` of a meter type has no effect** (`meterDef.cpp:798`, run
   `mqttformat`). The section of a type accepts it (361-364), but `type=` copies the
   other options only, and nothing else reads it. `readme.md:669`: "Overrides the MQTT
   default (or the value from the meter type) for QOS,RETAIN or mqtt json format.
   [...] Can be set by MeterType as well", and 466 likewise. `OptionsInherited` says
   of this option only what does hold.

Seen while modelling, without a run of their own. About polling:

* A worker that has been signalled but has not run yet is still inside
  `pthread_cond_wait`, its mutex is free, and `workerWait` (`cron.cpp:375`) goes past
  it: main evaluates and writes while it queries. The 50 ms `usleep` makes that
  unlikely, not impossible; without `PromptWakeup`, `MainAlone` fails.
* A signal of `workerRun` that meets a worker still busy with the previous round
  is lost. Under prompt wakeup that cannot happen (`EveryWorkerTriggered`).
* A sunspec register covered by a block whose scaling factor lies outside it is
  converted before the factor is read (`modbusread.cpp:1676`); a factor of 0 is taken
  for one not read. The first value stays unscaled and counts as read. `ValuesScaled`
  is about registers whose block holds the factor.
* The factor is looked for in every block by its address alone (1660-1663): a block of
  input registers that covers the address of a factor among the holding registers
  gives a wrong one, which is kept for good unless it is 0. `ValuesScaled` is about
  factors no block of another kind covers.
* Formula-only meters are computed in every round and added to the number of meters
  read once more (`cron.cpp:549`), due or not. The program asks only whether the
  number is 0, which with such a meter it never is in a round with a due meter.
* A sunspec meter whose resolve fails returns before `queryErrorCount` is
  incremented (1606); a port with such a meter is never given up. `ErrorsCounted`
  and `DeadPortGivenUp` leave it out by name.
* The check for dead ports (`emModbus2influx.cpp:1412`) runs only after a round that
  has read something: with nothing left that answers, and no formula-only meter, the
  program polls for ever and gives up no port. The help text of `maxrtuerrs` (378:
  "exit if all meters on a serial port failed n times") makes no such reservation.
  `DeadPortGivenUp` has it as its premise.
* `modbusRTU_checkDeviceErrors` compares the *largest* error count with the limit
  and needs only one error of the others; its comment (538) and the help text say
  that all meters failed so often. With a limit of 3, three failures of one meter and
  one of the other on its port end the program. `AnsweringPortKept` claims no more
  than that no port with an answering meter is given up.
* A TCP meter with init writes that is alone on its host and keeps its connection
  is never reconnected if the link breaks before its init has succeeded: a failed
  init write closes the connection only with `tcpCloseAfterQuery` (1626).
  `ReadAgain` names this state (`Stuck`), and the instance reaches it.
* `execMeterWrite` returns without closing when a formula cannot be evaluated, and
  `meterResolveSunspec` when the header is not sunspec's; both leave open the
  connection of a device that wants it closed. The model has these paths.
* A failed initial query enters the first influx window (1813): a 0 nobody measured
  can be written as the minimum. `ValuesOfWindow` starts with a clean window.
* The formulas of a formula-only meter are evaluated in every round with a due meter,
  but what is written under its fields is of the last round in which it was due
  itself: with no schedule but the default one it may be written at a moment when its
  registers hold something newer (with `influxwritemult` 0, or in the first write with
  `noinitialwrite`). MQTT sends the newer value.
* `iavg` halves the sum of the new value and the average so far (1441): a mean
  only for `influxwritemult` 2, where `readme.md:564` says "average".
  `ValuesOfWindow` only bounds it.
* Negative values of 48 bits are not sign extended (657). The uppermost word of an
  unsigned 64 bit register is or'ed with 0x7fff where it should be masked (694), so 0
  is read as 0x7fff000000000000, although `readme.md:523` promises "only 63 bits will
  be stored". `ReadsDeviceValue` and `ReadBack` leave both out.

About writes and schedules:

* The writes of a schedule without meters are marked and the schedule moves on, but
  with no meter due at that moment `cron_queryMeters` returns before it executes
  them (`cron.cpp:462`). `DueWritesRun` is about rounds with a meter due.
* A write goes to the address of the definition (`modbusread.cpp:2274`), without the
  offset that a sunspec resolve adds when the same register is read.
* `mw->disabled` is parsed (`readme.md:695`) and used nowhere; a write to a meter of
  formulas only uses its unset handle (2227); a meter with `disabled=read` cannot be
  the target of a write, since `findMeter` skips it.
* `schedule=` takes one name, not a list (`readme.md:362` shows `[,..]`), and the same
  name twice puts a meter into the schedule twice. An unknown schedule is ignored only if
  `disabled=` precedes it.
* A `[Write]` section with several lines `meter=` keeps the last, while the registers
  of its items are those of the meter named before each. `WritesSection` has one such
  line.
* `readme.md:718` ends a definition behind an item with `return` "in case the write has
  been performed"; the code does so when it has been attempted (`modbusread.cpp:2298`),
  and so does `NothingAfterReturn`.
* `return` as the last word of a line eats the first token of the next
  (`meterDef.cpp:1191`).

About configuration and delivery:

* `disabled=write` on a serial meter leaves its handle unset although the meter is
  queried (`meterDef.cpp:1357`). `HandlesKnown` names the case. The pass at the
  end asks the first port only whether it is connected.
* `readme.md:313` says that with `mqttretain=1` only changed values are sent. The code
  for it is compiled out (`MQTT_SEND_UNCHANGED`, `emModbus2influx.cpp:63`).
* If `MQTTClient_create` fails the client is never created again. A Grafana server
  that is down at the first attempt makes the client speak http for good. A post to
  Grafana that fails in another way than a websocket send is not repeated, and its
  queue has no room.
* Formulas for Grafana send the value meant for InfluxDB, registers the last one.
* A refused record stays at the head of the retry queue and blocks what is behind it
  (`influxdb-post.c:863`), whereas `readme.md:225` says the entries will be posted;
  `BacklogDrains` names the case. What is on the queue when the program ends and cannot
  be sent then is lost (`influxdb-post.c:126-143`), which `readme.md:225` does not say:
  `NoSilentLoss` names it (`LostAtEnd`). A full queue refuses the newest record, although
  the same line calls it a ring buffer: `NoSilentLoss` allows any loss while the
  queue is full.
* The buffer of a line is doubled once where it is too small (339). A name longer
  than the buffer would need more, and the parser limits no name. `NamesFit` is the
  premise of the part of `LinesComplete` that is about the buffer, and of no other.
* A request to InfluxDB that hangs stops the whole program, polling included: all is one
  thread.

## 5 The proofs

Each `...Proofs` module extends the module it is about. Every one proves the type
invariant first; the others rest on inductive invariants stated at the end of the
model or at the head of the proofs. The only assumptions are the named `ASSUME`s on
the constants (any number of ports, meters, records, definitions, registers; any
cache size, any window, files of any length), plus the ones listed. "Prompt" is
`PromptWakeup` without spurious wakeups, a premise of the theorem.

| theorem | property | argument |
|---|---|---|
| `WorkerPoolProofs!TypeCorrect` | `TypeOK` | with `ControlInv`: a loop index goes back to 0 at the last worker, the attempts are used up only on the way to `exit` |
| `WorkerPoolProofs!PollEndsBeforeFree` | `NoPollAfterFree` | **no timing assumption.** `OwnerInv`: a worker outside `pthread_cond_wait` has a locked mutex. So once `workerTerminate` has found the mutex free, the worker is waiting, and every wakeup from then on sees `terminateWorker` (`QuietInv`) |
| `WorkerPoolProofs!WorkerWaitIsBarrier`, `SignalsArrive` | `MainAlone`, `EveryWorkerTriggered` | Prompt. `HandshakeInv`: in each phase of a round, which states a worker already or not yet passed by the loop can be in |
| `WorkerPoolProofs!WorkersHaveEnded` | `WorkersGone` | Prompt. `ShutdownInv`: the same for the two passes of `workerTerminate` |
| `WorkerPoolProofs!EveryDueMeterPolledOnce`, `ReturnedCountIsExact` | `PolledOnce`, `ReturnedCount` | Prompt. `PolledInv`: what a worker has polled is the part of its list behind its cursor; `CountInv`: `numMeters` is the number of those that answered, and from `EvalFormulas` on that of the formula-only ones more |
| `WorkerPoolProofs!PoolImplementsRound` | `ImplementsPollRound` | Prompt. The refinement of `PollRound`, whose round is one variable for the phase and one for the meters read: every step of main, of a worker or of a mutex is a step of the abstract round or leaves the mapped state alone. What `workerWait` sees (`HandshakeInv`), what was polled (`PolledInv`) and what was counted (`CountInv`) make the step that ends a round the abstract one |
| `MeterQueryProofs!TypeCorrect` | `TypeOK` | `step` is reset with every change of phase |
| `MeterQueryProofs!ConnectionsAreOpen` | `NoUseAfterClose` | only the running query closes a pool entry, and it ends when it does |
| `MeterQueryProofs!ReadsAreComplete` | `ReadComplete` | `ReadInv`: addresses are shifted exactly when the resolve is over (`ShiftedOnce`), and the registers marked or passed have their own value (`QueryInv`) |
| `MeterQueryProofs!ValuesAreScaled` | `ValuesScaled` | for registers read with their factor, which no block of another kind covers. `ScaleInv`: the factor known to a register is 0 or the one of the device (`FactorOfBlock`: what a block that covers it gives), that one as soon as a block with both has been read, and stays it in later queries; `ScaledInv`: the registers passed by a block's conversion have been scaled with it |
| `MeterQueryProofs!FailuresAreCounted` | `ErrorsCounted` | `ErrorInv`: only the running query may still be uncounted |
| `ScheduledWritesProofs!ScheduledWritesTyped` | `STypeOK` | with the phases in which a definition is being read |
| `ScheduledWritesProofs!ReturnEndsTheCall`, `WritesNeedALink` | `NothingAfterReturn`, `OnlyOverOpenLink` | `CallInv`: what has been attempted lies before the cursor, and a host written to is connected unless the call is a test |
| `ScheduledWritesProofs!LinksAreTheFile`, `TwoWritesNeverStart` | `ListsFollowFile`, `StartedMeansOnePerSchedule` | `ListInv`. While no schedule has two writes every append but the one to the list of all definitions meets an empty list (`GoodInv`). As soon as one has, there is a set of definitions closed under `next` (`Closed`) that the walk has entered or will enter; it stays closed, because `LinkAtEnd` changes only a link that is NULL, and there is none in it (`BadInv`) |
| `ScheduledWritesProofs!WritesRunWhenDue`, `NoDueWriteIsMissed` | `RunsOnlyWhenDue`, `DueWritesRun` | `RoundInv`: the cursor moves forward in the file within a list, and what is marked is behind a due head; the walk of list i runs each definition at most once more |
| `MainLoopProofs!LoopTyped` | `PTypeOK` | the counter of dryruns does not pass 0 |
| `MainLoopProofs!ProtocolsAgree`, `FallbackOnlyAtFirst` | `ConnectionConsistent`, `NoLateFallback` | `ConnectionInv`: the first attempt has neither handle nor flag; a connection made shows what the server can do |
| `MainLoopProofs!LinesArrive` | `GrafanaDelivered` | `PostInv`: in a call during which the server can be reached a dead handle is found by the first send and replaced before the second |
| `MainLoopProofs!BrokerUpToDate` | `BrokerCurrent` | `SendInv`: the meters behind the cursor are current |
| `MainLoopProofs!DryrunsAreSilent` | `DryrunSendsNothing` | `DryrunInv`: the counter is 0 only when `terminated` is set and main is back at the top |
| `MainLoopProofs!LinesAreComplete` | `LinesComplete` | `LineInv`: the text main holds is one `InfluxText` or `GrafanaText` makes. Every call of `influxdb_format_line` keeps `Room` (the buffer is at least as large as the first one, what is used is below the size) and adds one token in its place; through the loops over fields, meters and statistics goes the count of fields of each measurement. `QueriesRead`: what is read is among the enabled meters, the formula-only ones included. `NamesFit` is a premise of the bound on what is written, not of the rest. Rests on the meters of a list being distinct and on no meter being named like the statistics |
| `RegisterCodecProofs!TypeCorrect`, `ValuesAreRead` | `TypeOK`, `ReadsDeviceValue` | `CodecInv`. Two bytes at a time, the bytes of words and the words make the same number (`BytesMakeNumber`, by induction over the words, for any base); in reverse order for the types with the low word first; a number of three words is below its modulus, so the unsigned reading is wrong for negative ones only |
| `RegisterCodecProofs!WritesAreReadBack` | `ReadBack` | `CodecInv`: the device holds words `createModbusRegWriteBuff` made of the value. The digits of a number make the number again (`DigitsMakeNumber`), modulo and sign are inverse on the range of the type |
| `RegisterCodecProofs!IntegersAreSentWhole` | `IntegersAreWhole` | without divider and negative factor the denominator is 1 |
| `MeterDefinitionsProofs!DefinitionsTyped` | `DTypeOK` | `FileInv` |
| `MeterDefinitionsProofs!OptionsComeFrom` | `OptionsInherited` | `OptionsInv`: `typeConflict` is set as soon as the meter has an option `type=` would overwrite |
| `MeterDefinitionsProofs!CountersAgree`, `NamesAreUnique` | `CountsExact`, `NamesFindOne` | `CountsInv`, `NamesInv`, for the meters and the one being read |
| `MeterDefinitionsProofs!HandlesArePresent`, `AllMetersScheduled` | `HandlesKnown`, `EveryMeterScheduled` | `HandlesInv`, `ScheduledInv`: what the last pass finds in each meter decides what it sets |
| `InfluxProofs!TypeCorrect`, `CounterMatchesList` | `TypeOK` of `InfluxPost`, `QueueConsistent` | each step changes list and counter together |
| `InfluxProofs!RecordsOwnedOnce` | `OwnedOnce` | the buffer is handed over or freed before the phase ends |
| `InfluxProofs!StoredAtMostOnce` | `NotStoredTwice` | needs `OwnedOnce`: a stored record has no second copy in the list. The property exempts the records whose answer was lost, and only those |
| `InfluxProofs!LossIsExcused` | `NoSilentLoss` | action by action: a record leaves the buffer for the list (then it is still held), leaves the head of the list after an answer, is refused by a full list, or goes with the client when the last attempt to send it ends (`LostAtEnd`); records are owned once, so nothing else holds it |
| `InfluxProofs!WindowTyped`, `WritesAreMultApart`, `WritesAreNotMissed` | `WTypeOK`, `WriteEveryMult`, `NoWriteMissed` | `CountdownInv`: the countdown is `Mult` less the successful queries since the last write |
| `InfluxProofs!WindowIsWritten` | `ValuesOfWindow` | `FoldInv`: the value to write has the extremes of what was seen so far and the newest of it, whatever a failed query or the formulas of another round have put in the registers |
| `SerialWatchProofs!TypeCorrect`, `AnsweringPortsAreKept` | `TypeOK`, `AnsweringPortKept` | `CountInv`: no error is counted that did not happen |

Loops over data. The append functions of the line protocol and the numbers of the
codec are recursive functions over `0 .. n`. That such a function exists, and that
what a step of it keeps holds at its end, needs an induction; the induction
theorems of the library take an operator for the induction hypothesis, which the
provers cannot instantiate. `LeastNatural` and `Induction` (in `MainLoopProofs` and
`RegisterCodecProofs`) state it for a set instead, and follow from two first-order
facts of the library: `<` is well-founded on the naturals, and a well-founded
relation has minimal elements in every set that is not empty. `LoopRuns`, `LoopEnds`,
`Recursion`, `PowerSteps` and `NumberHasTable` rest on them.

Model-checked only: the liveness properties (`RoundEnds`, `BacklogDrains`,
`ReadAgain`, `DeadPortGivenUp`, `AlwaysReturns`, `Recovers`), since liveness and
ENABLED are out of the prover's reach. Every invariant, every action property and
the refinement that a passing run checks has a theorem. That the two runs that
expect a violation end in one is TLC's result alone.

## 6 What is left

Proofs: of what a passing run checks only liveness is without a theorem. What the
models lack below, composed, would come with theorems of its own: that the results
`MeterQuery` gives are those `SerialWatch` counts, and that what `MainLoop` hands to
the client is what `InfluxPost` takes.

Models: the parameters of registers and the duplicates of their names in
`MeterDefinitions`; the composition of `MeterQuery` with `SerialWatch`, and of
`InfluxPost` with `MainLoop`, which are agreements now.

Not modelled, for good: formula arithmetic (muParser), HTTP and TLS (libcurl), the
MQTT protocol (paho), the Modbus protocol (libmodbus), cron expressions
(ccronexpr): external libraries, present only as the outcomes the code
distinguishes. Tariffs are set by a command that ends the program. Logging, the
command line and its ini files, the tokens of `parser.c`, the interactive formula
tests, the test server and the build keep no state the rest relies on.

## 7 Running it

    tlc -workers 2 -config PoolPrompt.cfg MCWorkerPool
    tlapm WorkerPoolProofs.tla

and likewise for the other rows of the tables above. `PROJECT.json` lists the runs,
the mutated forms of model definitions each property rules out (the operators
commented "Mutant:" in the modules, which no specification uses), the map from
definitions to source lines, the findings, the hazards and the theorems.
