# TLA+ models of STM32-TriPhaseWatch

This directory holds a formal model of STM32-TriPhaseWatch, the firmware and the
interface on the host: TLA+ modules translated from `firmware/` and `tools/`, TLC configurations that model-check them on
small instances, and theorems about them whose proofs TLAPS checks. `PROJECT.json`
maps every definition to the lines it models and lists the runs, the mutants that
show each property can fail, the hazards, the findings and the theorems.

The modelled code is the logic of board A (acquisition, alarm, event recording,
storage, configuration, its side of the RS485 line), the bridge of board B, and the
monitoring interface with the Modbus client under it. Line numbers refer to the C and
Python files under `src/`.

## 1. The system

Board A (STM32F4 + FreeRTOS) measures the temperature of three phases, decides on
alarms, records samples to an SD card and answers a host over Modbus RTU. Board B
bridges between the host's serial line and RS485: it holds one request and its
response at a time and keeps nothing across a reset. On the host, the interface has two
threads: Tk runs the controller, which submits operations and ticks every 50 ms, and a
worker owns the serial line and carries out one operation at a time. Two queues join them.

### Tasks and what they share

| Task (priority) | Loop | Code |
|---|---|---|
| acquisition (4) | read sensors, judge the alarm, feed the event buffer, tick the scheduler, finish a stop | `board_a/platform/board_a_rtos.c:962` ff. |
| comm (3) | receive a Modbus frame, run the command, answer | `board_a_rtos.c`, `board_a/core/board_a_model.c` |
| alarm output (2) | LED and buzzer pattern | `board_a/alarm/` |
| config (1) | take a save out of the mailbox, write the EEPROM, answer | `board_a/platform/board_a_persistence_tasks.c:120` ff. |
| storage (1) | pop a record, write it, account for it; drains; probes | `board_a_persistence_tasks.c:240` ff. |

All of them share one `board_a_model_t` behind one mutex: each
`board_a_runtime_*` function is one critical section. A round of the acquisition
task does not sleep, and nothing outranks it; it only waits for a mutex another
task holds, which it finds free from then on. So nothing comes between its critical
sections: a round is one step of a model (Logging splits it where the properties
can see a difference, which only adds behaviours). The two persistence
tasks are the lowest: a command or a round can come between any two of their
critical sections, so each of those is a step of its own.

### Components

Status: **M** modelled, **P** partly, **-** not modelled.

| Component | State | Operations | Interacts with | What makes it correct | |
|---|---|---|---|---|---|
| Record queue and accounting (`core/board_a_persistence.c`) | ring, `head`, `count`, `in_flight`, ledger counters | push, push event, pop, requeue, complete | producers (comm, acquisition), storage task | FIFO, one record out at most, every record accounted for once, across counter wraps | M |
| Recording: run control, tick, stop flush, drain, storage task, file engine, mount (`board_a_model.c`, `board_a_runtime.c`, `board_a_persistence_tasks.c`, `board_a_storage_engine.c`, `board_a_storage_port.c`) | run state, pending flush, drain generation, open file and its date, mount, retry deadline | START, STOP, SINGLE, ARM_START, SET_TIME, tick, event rows, flush, drain, probe, process, settle | all tasks, SD card | runs do not overlap; rows once, in order, in the file of their date; DONE means flushed; everything is answered; a waiting row sees the card tried every period | P |
| Configuration store (`app/config_store.c`) | two EEPROM slots, active slot, sequence | load, save | config task, power loss | the acknowledged configuration survives | M |
| Event marker and save mailbox (`board_a_persistence.c`, `board_a_model.c`, `board_a_rtos.c`) | marker, dirty flag, mailbox | accept, claim, complete, sync, recover | three requesters, config task, reset | an answer is about its request; the open event is found after a reset and gets its CLOSE row | M |
| Event buffer (`core/board_a_event_buffer.c`) | pre-trigger ring, phase, ticks, output queue, sticky flags | push sample, note alarm result, advance, force close, pull | alarm, record queue | order of rows, loss is visible | M |
| Alarm (`alarm/board_a_alarm.c`) | shown alarm, pending candidate and count, ack | update, acknowledge, apply configuration | acquisition task, event buffer | events pair up, counts and hysteresis as documented, ACK covers only what was seen | P |
| Alarm outputs | step in a pattern | start, advance | alarm | a timeline computed from the alarm, no shared state | - |
| Sensors and probe binding | bus timing, ROM table | scan, bind | acquisition task | bit timing; the binding's effect on the mailbox is in EventMarker | - |
| Register map and input formatting | none of its own | read, write | comm task | table lookup; the commands it dispatches are modelled where they act | - |
| Modbus RTU slave (`core/modbus_rtu_rx.c`, `board_a_rx_recovery.c`, `board_a_slave.c`, `board_a_tx.c`, comm task of `board_a_rtos.c`) | receive queue and its fault mark, frame being assembled, frame ready, recovery, transmission, driver direction | receive a byte, take a byte, poll, send, abort | USART interrupt, comm task, RS485 line | frames are cut at silences and never spliced; an undisturbed request is answered; one driver of the line at a time | P |
| Board B bridge (`board_b/bridge_core.c`, `bridge_dispatch.c`, `main.c`) | two receive queues, request and response being assembled, start of the wait and of the recovery | receive, tick, dispatch, transmit | host line, RS485 line, receive interrupts | no splices; a response answers its own request; the deadline holds; an idle bridge loses no request | P |
| SD driver and FatFs glue | card protocol | SPI transfers | storage port | seen from above (works, fails, is slow) in Logging | - |
| RTOS start-up, vectors, board support, vendored code | | | | register setup, third party | - |
| Host interface (`tools/modbus_gui/controller.py`, `worker.py`, `backend.py`, `tools/modbus_client/service.py`, `client.py`) | shown connection and run state, scheduled refreshes, commands and results in flight, the client | connect, disconnect, poll, refresh, start, stop, single sample, ACK, shutdown | user, serial line, board A | it shows no state that is not so, says "safe to remove" only when it is, keeps polling, ends when told | P |
| Command line tools, tests | none between two calls | | the service above | one operation per process | - |

### What is hard here

- **Interleaving**: commands between STOP, its flush and its drain; two tasks that
  request saves while a third writes one; an ACK a round before a worse alarm.
- **Loss of power** between any two pages of an EEPROM write, and a reset while an
  event is open.
- **Partial failure**: a row whose write or sync failed may be on the card or not;
  a close that failed earlier must fail a drain that finds no file open; a card
  put back makes the old file handle stale.
- **Interrupt against task**: bytes carry the time they arrived and are looked at
  later, after a fault the task already knows of, after a silence it has not seen.
- **Late answers**: a slave may answer after its request has timed out, and frames
  carry no number; bytes queue up while the bridge transmits and are looked at later.
- **Queues at their limit**: a requeue into a full queue, CLOSE into a full output
  queue, rows that must wait because the record queue is full.
- **Stale state**: a dirty flag cleared for a request older than the marker, an
  open flag compared where an identity is meant, flags ORed into rows of another
  event, a confirmation count that outlives what it counted.
- **Liveness**: a stop waits for rows to move, which waits for the storage task,
  which waits for the card.
- **Two threads and a line that loses answers**: a command may have been executed
  though no answer came; answers to an old session arrive after the click that ended
  it; a poll that fails must schedule the next.
- **Wrap-around** of 32-bit counters and clocks and of the EEPROM record sequence.

`PROJECT.json` lists the hazards one by one at the line where they bite, with the
property that would fail.

## 2. Modules

```
RecordLedger  <--implements--  RecordQueue  <-- PersistenceProofs
     ^
     | INSTANCE (the queue between producers and storage task)
  Logging  <-- LoggingProofs

StorageRetry  <-- PersistenceProofs   (the clock that Logging abstracts)

ConfigCell  <--implements--  ConfigStore  <-- ConfigStoreProofs
     ^
     | INSTANCE (the EEPROM under the mailbox)
  EventMarker  <-- PersistenceProofs

EventBuffer  <-- EventBufferProofs     Alarm  <-- AlarmProofs

Bridge  <-- BridgeProofs               RtuSlave  <-- RtuSlaveProofs

HostSession  <-- HostSessionProofs
```

Each abstract module (RecordLedger, ConfigCell) is used twice: as the property its
detailed module implements, and in place of that module where another component
stands on it. An `MC*` module gives a module's constants their values for TLC.
Operators whose comment says *faulty variant* are not part of the model: they are
the mutants `PROJECT.json` puts in place of a definition to see a property fail.

**RecordLedger / RecordQueue.** RecordLedger is a bounded FIFO with one record
handed out and four counters modulo `Wrap`. RecordQueue is the code: `records`,
`head`, `count`, `in_flight`; `Push`, `PushEvent`, `Pop`, `Requeue`,
`CompleteSynced`, `CompleteUncertain` are the functions of `board_a_persistence.c`.
`record` is the storage task's local copy. Requeue into a queue that filled
meanwhile drops the newest record, as the code does. Diagnostics nothing reads back
(`high_water`, `last_synced_*`, ...) are left out.

**Logging.** The recording system end to end. Comm task: `Start`, `Stop`, `Single`,
`ArmStart`, `DateChanges`. Acquisition task: `Tick`, `EventStep`, `EventDrain`,
`FinishStopFlush`. Storage task: `pc` is its place in the loop, each action one
critical section with the file I/O that leads to it. `card_good` is an environment
that may fail and come back at any time; while it is false every I/O call may fail
or work, while it is true it works unless the handle or the mount is the reason not
to. Time is abstracted: a sample, a scheduled start or a retry may be due whenever
the code could find it due. The order of a drain, a probe and a record is the
code's; the arithmetic of the schedule and the contents of a row are left out.

**StorageRetry.** The loop of the storage task once more, with what Logging leaves
out: the 32-bit word `g_storage_retry_after_ms` and the signed comparison of
`board_a_deadline_expired`. Of deadline and present only the difference counts, so the
state is `left`, the deadline minus the present modulo `Clock`. An operation on the
card succeeds or fails and takes no time. `RunDrain`, `Probe`, `ProcessOne` and
`FallAsleep` are the branches of the loop, `Tick` passes a millisecond of its sleep.
`quiet` and `waited` are history variables.

**ConfigCell / ConfigStore.** ConfigCell holds the set of configurations the next
power-on may find. ConfigStore is the two slots: `SaveBegins`, `WriteCompletes`,
`WriteFails`, `ReadBackMatches`, `ReadBackFails` are the stages of
`config_store_save`, `PowerOn` is `config_store_load`, and `PowerLoss` may come
between any two pages of a write (the slot is then the old record, the new one or
nothing valid, which is what the CRC makes of any mixture). The sequence is modulo
`SeqModulus`. A configuration is its number: the k-th save carries k. A success
after more than two seconds is told to the caller as a timeout.

**EventMarker.** The marker of an open event, its dirty flag, the one mailbox, and
the three requesters (marker, probe binding, SAVE_CONFIG). `AcquisitionRound` is a
whole round: flush, binding, `sync_event_marker`, tick, flush. The config task's
three critical sections are `ClaimSave`, `SaveSucceeds`, `SaveFails`; `Reset` may
come at any moment and includes `recover_incomplete_event`. `raced` is a history
variable: it records that the marker changed while a save was pending. `rows` are the
events whose CLOSE row is in RAM and not yet on the card, whether the event buffer wrote
it or the recovery after a reset. `RowWritten` (SYNCED) puts it there; `RowUncertain` is
the verdict UNCERTAIN, which is counted and never tried again, whether the row is on the
card or not; `RowDropped` is any of the ways a full queue costs it (the newest row gives
way to a requeue, ENQUEUE_DROP, the oldest row of the event buffer gives way to another
CLOSE), which are counted too; a reset loses it. Which of several rows goes, and when, is
left open: Logging and EventBuffer have the queues. `closed` are the events whose CLOSE row
is on the card, `lost` those whose row was counted as uncertain or dropped, `excused` those
a reset met in one of the two windows of section 5, `NotMarked` and `NotNamed`.

**EventBuffer.** The pre-trigger ring, the phases IDLE, ACTIVE, POST, the ticks and
their deadlines, the bounded output queue, the sticky flags, and the drain into the
record queue. Operators go from buffer to buffer and carry the names of the C
functions; the actions `Scan`, `FinishStopFlush`, `Start`, `Stop` are the rounds and
commands that call them. The record queue takes any number of rows in a round.
`delivered` is a history variable: what a reader of an event's rows has seen.
Events are numbered as they open. The firmware numbers them by the alarm, so a STOP
and START within one alarm give two events with one `event_id` on the card; the
model tells them apart, and its properties are about each. The measured values, the
flags of single rows and the counters of the status are left out.

**Alarm.** `Candidate` and its parts are `compute_candidate`, `apply_hysteresis` and
`reason_priority`; `Update` is `board_a_alarm_update` with its counts and
`commit_candidate`; `Round` is what the acquisition task does with it: the requested
ACK, the changed configuration, the snapshot. `AckCommand` and `ApplyConfig` come
from the host between rounds. The rate of rise is any of a small set of values (its
history of eight samples is left out), and so are durations and counters.
`heard`, `over`, `under`, `below`, `seen`, `steady` are history variables the
properties speak about.

**Bridge.** Board B. `core` is `bridge_core_t`; `OnHostByte`, `OnRs485Byte`,
`CoreTick` and `TxComplete` are its functions and go from core to core. `Dispatch` is
one turn of the main loop: `bridge_dispatch_process` feeds the bytes that arrived (`Fed`),
each after a tick at its own time, then ticks at the present time and begins to transmit.
`Transmitted` is the end of the blocking send. `Wait` lets the time of one character
pass: the host sends, pauses or breaks off, the slave answers, is silent or breaks
off, noise comes, and the receive interrupts stamp and queue what arrives, also while
the bridge transmits. Times in the core are modulo `Clock` and subtracted unsigned. A
byte is the frame it belongs to, its place in it and what it means if it is taken
for a function, so the properties can say which frames were mixed. Requests, answers
and exceptions have lengths of their own (`RequestLength`, `AnswerLength`,
`ExceptionLength`): a read asks with 8 bytes for up to 256, and the next request may be
out while such an answer still arrives. What is joined in the middle of an answer may pass
for a short one (`slave.rest`). A frame of a known function is complete at its declared
length (`RequestComplete`, `ResponseComplete`); the lengths of 0x10 requests, which are
longer than 8 and only leave a late answer more time, are left out. `early` and `forwarded` are history variables.

**RtuSlave.** Board A's end of the RS485 line. `PollRx`, `Push`, `Publish`, `TakeFrame`,
`Discard` are the functions of `modbus_rtu_rx.c` from receiver to receiver; `Begin`,
`Accepts`, `After` those of `board_a_rx_recovery.c`. The comm task is at `pc` in its
loop: `ServiceFault`, `TakeEvent`, `Drained`, `TimeOut`, `PollSlave`, `Start`, `Refuse`,
`Complete`, `Abort` are its stretches between two points where an interrupt can matter.
`Tick` passes the time of a character: the transmit interrupt moves the answer
(`Transmitter`), and the line does one thing: the host sends, pauses or
breaks off, noise comes, the transmitter stops or starts to shift. Every time the code
keeps is kept as its age, modulo `Clock`. The interrupt is served within a character;
the comm task may be kept from running for `MaxLag` characters, and that is more than a
request: a scan of the sensors, at a higher priority, busy-waits about 10 ms per probe in one
step (`sensor_manager.c:380`, `board_a_rtos.c:376`), 30 ms or 26 characters for three, and a
request is 8 characters (9.2 ms at 8E1). What a request does is
outside: a frame is served if it is, byte for byte, what the host sent. `line`, `calm`,
`host.clean` and the marks on a byte are history. `calm` is the time since the last fault, up
to `Recovery`, when it counts as forgotten; it starts again while the transmitter is stuck and
when a lag reaches the length of a request before that (`Lingers`).

**HostSession.** The host, from a click to board A and back. `Connect` to `AckAlarm` are
the clicks the controller accepts, `TickPoll` and `TickStorage` its tick, `PollResults`
applies every result that is there (`Applied`, from `HandleSuccess` and `HandleFailure`),
`Shutdown` closes the window. The worker takes a command (`Take`) and goes through the `Script` of its
operation, one Modbus transaction per step: `Transacts` succeeds, `LineFails` loses or
damages the answer (board A may have executed the request), `Refused` is an answer that
says no, or a client that is gone, `ClosesPort` and `OpensPort` are the serial port, the
`Drain...` actions the loop at the end of `stop()`. Board A is what the host can tell:
whether it records and for whom, an armed start, a flush, the state and generation of
the drain, and `dirty`, whether something is missing on the card; `RecordsRow`,
`RunEnds`, `ScheduleFires`, `Flushes`, `Drains` and `Resets` are what it does by itself
(Logging has it in full). `calm`, `told`, `hidden` are history: no disturbance goes on
(`Weather`), `stop()` said that the card may be removed, and the answer to an executed
START came damaged. Temperatures, the alarm and the counters shown are left out.

## 3. What the runs check

Each run is a module with one configuration. *pass* runs finish with no error; a
*violation* run checks one sentence of the documentation, or one expectation of a
test, that the code does not keep (section 5).

| Run | Checks | Shows |
|---|---|---|
| `record_queue` | `ImplementsLedger` | the ring is a bounded FIFO with four counters, through drops, requeues and the wrap of every counter |
| `logging` | `ExclusiveRun`, `RowsInOrder`, `FileHoldsOneDate`, `LedgerMatchesCard`, `DrainDoneMeansFlushed`, `DrainAnswered`, `StopCompletes`, `CatchesUp` | no interleaving of commands, ticks, events, drains and card failures mixes two runs, writes a row twice or out of order, puts two dates in a file, counts more rows as synced than are on the card, or reports DONE while something waits; every drain request is answered, card or no card; once the card stays good every stop completes and every row reaches its verdict |
| `config_store` | `AckedSurvives`, `ImplementsCell` | whenever power goes, the acknowledged configuration (or one asked for after it) is found, across the wrap of the sequence |
| `event_marker` | `AnswerIsAboutRequest`, `MarkerStoredUnlessRaced`, `CloseRowKept`, `SaveAnswered` | the request being written is never replaced; a SUCCESS is what the EEPROM holds; every request is answered; the marker is stored unless it changed while a save was pending; every event that began is open, closed on the card, about to be, has its row counted as uncertain or dropped, or was met by a reset in one of two windows |
| `event_buffer` | `PullOrder`, `LostRowsShow`, `TimeOrder` | rows come in the order PRE, TRIGGER, ACTIVE/POST, CLOSE; an event of which the full queue dropped a row, or refused one for good, never looks complete; an unflagged event is in the order of time |
| `alarm` | `EventsPaired`, `AckCoversAlarm`, `Settles`, `ChangesConfirmed` | RAISED, UPDATED, RECOVERED pair up; one bad or good sample changes nothing; a steady verdict is shown in the end; an acknowledged alarm is never worse than the one shown when the ACK came |
| `bridge` | `TypeOK`, `NoSplice`, `AnswersItsRequest`, `DeadlineKept`, `RequestForwarded` | whatever is broken off, dropped, late or noise: known frames are forwarded unspliced, a response goes with its own request, wait and recovery end in time, a request to an idle bridge is forwarded whole |
| `rtu_slave` | `TypeOK`, `FramesIntact`, `AnsweredInTime`, `HalfDuplex`, `NotOverwritten` | whatever is damaged, broken off or noise, with a comm task that may lag longer than a request: a frame is one stretch of the line without a silence, a gap or the tail of a damaged frame in it; once the faults before it are forgotten, a request that meets none is answered while the host still waits, and the driver is on only for the answer the host waits for; until the first fault no finished frame is overwritten |
| `host_session` | `TypeOK`, `SafeToRemove`, `StoppedIsStopped`, `SessionReal`, `PollAlive`, `NoLateAnswer` | whatever is clicked, lost, damaged or reset: what `stop()` says of the card is true until something starts again; STOPPED is not shown over a run the host started; a session on the screen is one the worker has; it is always polled; no late answer revives a closed one |
| `host_session_liveness` | `ShowsTruth`, `WorkerReturns` | once disturbances end, a session whose line works shows whether board A records; after shutdown the worker returns and gives the port back |
| `storage_retry`, `bridge_early` | one property each | *violation*, see section 5 |

The type invariants of the other modules, the accounting of RecordQueue and
`SlotsNeverTie` of ConfigStore are proved (section 4) and not listed in a run.

### Bounds, and why they are enough

| Run | Bounds | The cases they reach |
|---|---|---|
| `record_queue` | 2 records, capacity 3, counters modulo 6 | full and empty ring, head anywhere, requeue into a full ring, every counter wraps |
| `logging` | capacity 1, 1 waiting row, 2 records, 2 stops, dates 0 and 1 | a full queue, rows that wait for a queue that waits for the card, a requeue that must drop, a drain overtaken by a second stop, rollover in both directions, a card that comes and goes any number of times, uncertain rows. Longer queues and more records add nothing to the safety properties: those are proved for every bound |
| `config_store` | sequence modulo 4, 6 saves | the sequence wraps once and goes on, any number of power cycles |
| `event_marker` | 3 events | a marker that is raced twice, any number of resets, a second reset before the CLOSE row of the first is on the card, any row written, uncertain (on the card or not) or dropped |
| `event_buffer` | ring 2, output queue 3, a tick every 2 half-seconds, POST of 4, rounds at most 3 apart, time 10, 2 events | sacrifice for CLOSE, ticks retried after the queue was full, return in POST, restarts; the run stops when its clock ends, so it does not check deadlock |
| `alarm` | 2 phases, 3 temperatures, 2 faults, 2 rates, 2 configurations, counts up to 3 | every level and reason, ties between phases, a change of configuration in the middle of a count |
| `bridge` | 2 frames of the host, 1 byte of noise, requests and exceptions of 3 characters, answers of 5, a buffer of 5, gaps of 2 and 3, a limit of 7 for a request, a response timeout of 5 and a recovery of 6, the slave up to 9 late, 28 characters of time, the clock modulo 64 starting at 56 | a second frame during the first's transmission, wait or recovery; late answers of the same function, longer than the request that follows; tails of answers that look like short ones; frames broken off and misread as unknown functions; oversize; the clock wraps; `MaxDelay` is the largest `SlowestAnswerEnds` allows; the run stops when its time ends, so it does not check deadlock |
| `rtu_slave` | 2 interchangeable requests, 1 broadcast, frames of 2 characters, at most 2 in the receiver, answers of 4, silence of 3, a lag of up to 3, 3 faults, the clock modulo 42 | an overlong frame, noise that joins a frame, a fault while the task drains older bytes, a fault between the sample and the poll, a transmitter that hangs in an answer and in the next, a recovery within a recovery; any number of frames, and ages wrap |
| `storage_retry` | a period of 2, a clock of 16, 2 records | half the range of the clock is four periods |
| `host_session` | every click, 3 drains between two resets | a stop after the DONE of an earlier one, a run that ends by itself during the host's STOP, resets at any moment, any number of clicks and failures |
| `host_session_liveness` | connect, start and stop, 2 drains | a START or STOP whose answer is lost, polls that fail until the line is back; the other clicks change nothing these properties speak about |

The bounds `MaxRecords`, `MaxStops`, `MaxSaves`, `MaxEvents`, `MaxTime`, `MaxFrames`, `MaxStrays`, `MaxFaults`, `MaxDrains` only end
behaviours; they are conjuncts of the guards. `MaxDate` is the number of dates,
`Clicks` the operations the user asks for.
A requirement for room for the rows of an event that is still open (`Room` in
Logging) keeps the bound on records from blocking what the code never blocks.

The constants of `rtu_slave` are as small as `RtuAssumption`, `HostAssumption` and
`RecoveryAssumption` allow, with a lag longer than a request: `Clock`, `Patience`, `Turnaround`
and `Recovery` sit at their bounds. `Recovery` adds up how long what a fault has left may
go on: `2 * FrameLength + RxWait + 3 * MaxLag + Budget + AnswerLength`. That a long lag
before the fault is forgotten begins the count again is needed in this very run: if `calm`
only counted the time since the last fault TLC finds `HalfDuplex` violated (section 5).
The run also passes with frames of 3 and a lag of 4.

### Fairness

- **Logging, `FairSpec`**: weak fairness of `EventDrain`, `FinishStopFlush`,
  `StorageNext` and `RetryExpires`. The acquisition task wakes at least once a
  second; each time it moves the event rows and works on a pending flush. The
  storage task is woken by it and by its own retry timer, and the higher tasks
  sleep most of the time. No command, no sample and no state of the card is
  assumed to come. The properties about completion say `<>[]card_good` themselves.
- **EventMarker, `FairSpec`**: weak fairness of the config task, which the
  scheduler runs whenever the others sleep, and resets that end. A board that is
  reset for ever answers nothing.

- **HostSession, `FairSpec`**: weak fairness of `PollResults` and `TickPoll` (Tk calls
  the tick every 50 ms; a poll that is due goes before the storage refresh), of
  `WorkerNext` (the thread runs, and a transaction has a time limit) and of
  `DrainGivesUp` (the loop of `stop()` has a deadline). No click is assumed, and
  `ShowsTruth` says itself that disturbances end and that the client is open.

## 4. What is proved

TLAPS checks these for **every** value of the constants that meets the modules'
assumptions; TLC checks the same formulas on the instances above.

| Module | Theorem | States |
|---|---|---|
| PersistenceProofs | `TypeCorrect`, `NoStaleSlotCorrect` | types; queued slots hold records, the task's copy agrees with `in_flight` |
| | `AccountingCorrect` | the accounting equation modulo the counter width |
| | `QueueImplementsLedger` | the ring refines RecordLedger |
| | `TriedCorrect` | up to half the range of the clock after the deadline was last set, a waiting record sees the card tried every period |
| | `MarkerTypeCorrect`, `AnswerCorrect`, `MarkerCorrect` | the mailbox: types; answers are about their request; the stored marker |
| | `CloseRowCorrect` | an event is open, its CLOSE row is on the card, in RAM or counted as lost, or a reset met it in one of the two windows |
| LoggingProofs | `TypeCorrect` | types of all variables |
| | `ExclusiveRunCorrect` | no run or armed start with a stop in progress |
| | `HeldCorrect` | a record is out exactly between pop and verdict |
| | `DrainDoneCorrect` | DONE is reported only when nothing waits and the file is closed |
| | `FileDateCorrect` | rows of two dates never share a file |
| | `RowsInOrderCorrect` | rows are on the card once and in order |
| | `LedgerCorrect` | the rows on the card are at least as many as are counted synced, and at most as many as synced and uncertain together |
| ConfigStoreProofs | `TypeCorrect` | types, with or without read errors at start-up |
| | `AckedSurvivesCorrect`, `NeverTieCorrect` | the two safety properties, for every sequence width |
| | `StoreImplementsCell` | the two slots refine ConfigCell |
| EventBufferProofs | `TypeCorrect` | ring and output queue keep their capacities |
| | `PullOrderCorrect` | the pull order, for every capacity, period and timing |
| | `LostRowsShowCorrect` | an event of which the full queue lost a row is delivered as incomplete |
| | `TimeOrderCorrect` | the rows of an event delivered without INCOMPLETE are in the order of time |
| AlarmProofs | `TypeCorrect`, `EventsPairedCorrect` | types; the events pair up for any phases, snapshots and configurations |
| | `AckCoversCorrect` | an acknowledged alarm is the one that was shown when the ACK came, or a milder one of the same reason and phase |
| | `SettlesCorrect`, `ChangesConfirmedCorrect` | counts: a steady verdict is shown, and nothing is shown or taken back before its count |
| HostSessionProofs | `HostTypeCorrect` | types, and which commands and results may queue together |
| | `SafeToRemoveCorrect` | what `stop()` says of the card is true until something starts again, for any number of drains and any clicks |
| | `StoppedCorrect` | STOPPED is not shown over a run the host started (unless `hidden`) |
| | `SessionRealCorrect` | a session on the screen is one the worker has |
| | `PollAliveCorrect`, `NoLateAnswerCorrect` | a session is always polled; only a click on connect ends "disconnected" |
| BridgeProofs | `BridgeTypeCorrect` | types; no assembly outgrows its buffer |
| | `NoSpliceCorrect` | known frames are forwarded unspliced |
| | `DeadlineCorrect` | wait and recovery end at their time, across wraps of the clock |
| | `ForwardedCorrect` | a request to an idle bridge is forwarded whole |
| | `AnswersCorrect` | a response goes with its own request (see below for its hypothesis) |
| RtuSlaveProofs | `SlaveTypeCorrect` | types; the driver is on exactly while an answer is on the way |
| | `SlaveFramesCorrect` | a frame is one stretch of the line without a silence, a missing byte or the tail of a damaged frame in it, however far the task lags |
| | `SlaveNotOverwrittenCorrect` | until the first fault no finished frame is overwritten before it is served |
| | `SlaveUndisturbedCorrect` | until the first fault every request is answered while the host waits, and the line driven only for that answer |
| | `SlaveHalfDuplexCorrect` | after any faults and a `Recovery` without one the line is driven only for the answer the host waits for, and nothing leaves it while the driver is off, for every lag |
| | `SlaveAnsweredInTimeCorrect` | a request that begins such a `Recovery` after the last fault is answered while the host waits, for every lag |

The arguments:

- **RecordQueue.** `QInv` is the types and `NoStaleSlot`. The index arithmetic is in
  `SlotArithmetic` (an index wraps at most once). The accounting adds `WrapsBehind`:
  the sum of the parts, before the modulus, is `generated` or up to three times
  `Wrap` more. The
  refinement maps each call to the ledger step of the same name; `Requeue` into a
  full ring maps to the step that gives back and drops the newest. Assumes
  `Capacity + 1 < Wrap`.
- **Logging.** `ControlInv` (run control alone) is inductive for `ExclusiveRun`:
  whoever starts looks at both the flush and the drain, and whoever flushes has
  stopped the run before. `TInv` adds to the types that the bound on records is kept
  (`Budget`) and that a failure on its way to the storage state names a fault
  (`FaultKnown`). `DrainDoneCorrect` needs `DrainInv`: no event row waits while a
  drain is pending, and a drain at its end with outcome CLOSED has closed the file
  and, unless a newer STOP took over, found the queue empty. It stays true because
  a pending drain keeps every producer out (`ExclusiveRun`, `Busy`), and a second
  STOP changes the generation.
- **The card.** `DateInv`: a file has a row from the start, all its rows have one date,
  and the engine knows that of the open file. `OrderInv` is a chain: the rows on the
  card are older than the row the storage task holds (unless that may already be on the
  card), which is older than every row in the queue. That the j-th row of a file has a
  number of at least j bounds the length of a file. `LedgerInv` adds the counters up and
  bounds the rows on the card by those synced or uncertain, with the verdict that is
  about to be counted.
- **StorageRetry.** While the deadline was set less than `Half` ago, `left` is what
  remains of a period or has passed zero, so the signed comparison tells the truth and
  the sleep of the task ends with the deadline.
- **ConfigStore.** `AckedSurvives` is not inductive: `ActiveOK` (the active slot holds
  the current sequence and a candidate), `OtherOK` (the other slot is one step ahead
  and a candidate, or one behind) and `InFlightOK` make it so. The proofs assume
  `BootReadErrors = {{}}`: every slot can be read at start-up. Without it the
  property is false: with `BootReadErrors <- BusDownAtBoot` in `MCConfigStore.cfg` TLC
  finds the acknowledged configuration lost (section 5). They need
  `SeqModulus >= 4`, for then the successor is newer and not older.
- **EventMarker.** `MarkerStoredUnlessRaced` needs `RequestIsCurrent`: a pending request
  carries the present marker unless the marker raced past it. `CloseRowKept` rests on
  both: a reset finds an event the EEPROM names, and `Recover` queues its row. A row leaves
  RAM by a verdict or a drop, and each is counted (`lost`).
- **EventBuffer.** `Ordered` strengthens `PullOrder` by the newest row (in the queue, or
  else the last one pulled): while an event is open it is a row of this event that more
  rows may follow, between events it is a CLOSE (`NewestFits`). Each function of the buffer is a
  lemma from buffer to buffer (`StartEffect`, `EmitEffect`, `EnterPostEffect`,
  `CloseEffect`, ...), and `Chain` lemmas say what appending and dropping rows does.
  `CloseEvent` may make room by dropping the oldest row; `Follows` is
  transitive, so what came before still comes before the rest.
- **The account of lost rows.** `Accounted` says how a loss is still going to show
  (`WillShow`): the open event is flagged; or its CLOSE row was dropped, or waits with the
  flag; or its rows head a full queue whose flag is up, so that they carry it when they are
  pulled. `Due`
  says what a round leaves behind: a tick that is still due has flagged the event. For
  `TimeOrder`, `InTime` orders the delivered and the queued rows of every event that is not
  excused, `ReadyToEmit` names the sample of the ring no queued row is newer than, and
  `SelectedSample` says the next tick finds that one or a newer. It needs a ring of two
  samples (`RingAssumption`): the newest sample of a round is still there in the next.
- **Alarm.** `PairInv` is `ActiveIffShown` and `EventsPaired`. The proof asks nothing
  of the candidate: `commit_candidate` alone keeps the pairing. `Settles` and
  `ChangesConfirmed` relate the pending count to the history counters: it is never
  behind a steady verdict that is not yet shown (`Counting`), and never ahead of the
  samples that were over, or under, the limits (`Runs`).
- **HostSession.** A stop in progress keeps every producer of board A out (`StopHolds`).
  So a generation the host had not seen before its STOP belongs to a stop within the
  time of the operation, and nothing has started since: only the worker starts, and it
  is busy with `stop()`. When that drain is DONE the card is complete (`FreshCovers`),
  whoever asked for it.
- **What the interface shows.** Commands and results queue, so each invariant is about
  what will be shown when the results that are there have been applied (`Shown`), not
  about what is. At most one operation of the user is anywhere, and it is the last in its
  queue; before it come background refreshes (`UserLast`, `BackgroundRefreshes`).
  `SessionInv` follows a session through a connect or disconnect in any of its stages,
  `RunInv` a START: where the run state may have been read before it (`NoStartAhead`,
  `RunSeen`), and what its failure leaves. `Applied` is followed result by result.
- **Bridge.** Everything rests on `Flow`: types, which bytes come from where, and that
  the times at which they queue are times the clock has shown. Differences modulo `Clock`
  are real ones as long as a run is shorter than half the clock, which is the assumption
  `Clock > 2 * (MaxTime - StartTime)`: the theorems cover any 35 minutes of the board that
  begin with an idle bridge, at any value of the clock. `FedKeeps` says what a dispatch does if every
  event does it. For `NoSplice`, `HostInv` relates the assembly, the queue and the host:
  whatever comes after a byte is the next of its frame or comes after a gap of
  `FrameGap`; `SlaveInv` is the same for the slave. For `DeadlineKept`, `Timed`
  says at which real time the wait or the recovery began. For `RequestForwarded`,
  `CleanInv` says how much of the frame has been assembled.
- **Whose answer.** `BusyInv`: while the slave is at work and no answer came early, the
  time since the request is the slave's (its age plus what it has sent), and the bridge
  is in that transaction or in the recovery after it; there is no silence on the line
  that would end the answer before its last byte (`NoSilence`). So when another
  request is out the slave has finished (`SlaveDone`). The theorem has a hypothesis,
  `SlowestAnswerEnds`: `MaxDelay + AnswerLength` is at most the window
  (`ResponseTimeout + ResponseRecovery`) and a request of a known function
  (`RequestLength`), and at most the window, the shortest request of an unknown function
  (`MinAduBytes`) and the silence that ends it. That is, the slowest answer has *ended* by the time
  the shortest request that comes after the window has been received. On the board the window is
  960 characters (1.1 s), and the two sums are 968 and 1007: it holds for every slave that begins an
  answer of 256 bytes within 712 characters (0.81 s), and for the full window if answers have at
  most 8. It is not quite the weakest: the request is also transmitted, which gives another 8
  characters. It is a hypothesis and no assumption of the module, since
  the code does not enforce it (section 5).
- **RtuSlave.** `FramesIntact` is about what the receiver holds; what makes it true is
  about what is still to come. `Trail` is a chain from the unfinished frame over the queued
  bytes to the line: neighbours closer than `T35` are in one segment, and damage reaches
  a byte only from the one before it (`Linked`, `Newest`). A torn byte at the head finds
  the recovery ready to pass it over, a fault not yet seen to, or a recovery that was
  blind (`Heeded`, `HeededNext`). The interrupt adds to the end of the chain, the task
  takes from its head, and the chain does not depend on how far apart they are.
  That differences of ages modulo `Clock` are what they seem needs a bound on the ages
  (`Bounds`): a byte may wait while the task is kept from running, sends an answer and is
  kept again (`Young`), and an unfinished frame as long and `RxWait` more. So the assumption is
  `Clock > 2 * (T35 + RxWait + Budget + 3 * MaxLag)`: less than a second against the 71 minutes
  of 2^32 us. When the driver is released the line has been silent for an answer, which is
  longer than `T35` (`TickDrives`): what came before it is in another segment.
- **Host and slave without faults.** `Steady` is the dialogue at any moment of it: receiver
  and queue together hold what the host has sent of its frame, without a silence
  (`Stream`); they hold nothing while an answer is owed, and what is owed is owed to the
  frame the host waits for (`Dialogue`); every character time takes a character of the
  answer from the line (`Shifting`); and a frame is pending, or the host has waited, no
  longer than the lags of the task and its wait explain (`Pace`). The last is why a
  frame is taken before the next is there. `NextSteady` says that every step but a new fault
  keeps it. These two theorems and the next two need `HostAssumption`, which is about the host
  and not board A: it makes pauses shorter than a silence within a frame and waits long enough
  (`Turnaround`, `Patience`), both bounds being the smallest that hold in the run.
- **Host and slave after faults.** Nothing may be assumed of what a fault has left, so
  `Steady` is of no use. What is assumed instead is the age of the last fault (`calm`), and
  each invariant says "this is as it should be, or the fault is not older than that".
  `Settled` adds to the chain of `FramesIntact` how long everything may
  take: where the task is in its round (`Turns`), that what it took from the queue is older
  than what is in it (`Elder`), how long a receiver goes on discarding (`Doubt`). `Flowing`
  is the answer on the wire: a character per character time, unless it was stuck.
  `Runs` goes along the bytes from the unfinished frame to the line: a byte is either `Late`
  (the last fault may have hit its frame) or continues the one before it. So a frame
  that is complete and not late is one frame of the host. `Asking` says its last byte finds
  the host waiting for just this answer, `Owing` that an answer about to be sent or
  on its way is the one the host waits for, or comes from a fault that is not forgotten.
  `RecoveryAssumption` is the sum of these bounds. For `AnsweredInTime`,
  `Attention` follows a frame no fault touched: all its bytes are in the receiver, the
  queue or still to come (`OwnBytes`, `Gathered`), a silence apart from what was before
  (`Apart`), as old as the host says (`Latest`, `OwnPace`), until the answer is owed.
  Neither theorem bounds the lag. What a long one could do is answer a request behind its
  time: while the task is kept from running between its decision to answer and the
  answer, another whole request comes in. `Overtaken` says that this only happens while a
  fault is not forgotten, and `Delayed` that a lag of a whole request finds every fault
  either forgotten, with the dialogue as it should be, or just renewed (`Lingers`). `Asking`
  bounds how long a finished request may have waited for the task (`Soon`), so a request that is
  served late is one a fault has reached (`NoneLate`, `AllLate`).

**Only model-checked**: all liveness (`DrainAnswered`, `StopCompletes`, `CatchesUp`,
`SaveAnswered`, `ShowsTruth`, `WorkerReturns`: fairness and ENABLED are out of the prover's
reach). Every invariant and action property of a passing run is the conclusion of a theorem.
`NoStaleSlot`, `HeldOnlyWhileProcessed`, `AccountingHolds`, `SlotsNeverTie` and the types of
six modules are proved only.

## 5. What the code does otherwise than it says

| Run | What the documentation says | What the code does |
|---|---|---|
| `storage_retry` | README.md:19 and :147, rows are recorded at the set period, and recording recovers when the card is put back | the retry deadline is compared by signed 32-bit difference and set only by a failure: 24.8 days after start-up, or after the last failure, it looks in the future for another 24.8 days; records wait in the queue, new ones are dropped and counted once it is full, and no probe runs (`board_a_persistence_tasks.c:402`) |
| `bridge_early` | test_bridge_core.c:386, bytes of a second frame are dropped and the first transaction goes on | bytes queued during the transmission of a request are older than the start of the wait; the unsigned difference wraps, the response times out at once and the answer is dropped (`bridge_core.c:536`, called with the times of `bridge_dispatch.c` after `main.c:36`) |

The test of the last one calls the core directly and feeds the second frame before
`tx_complete`; through the queues and the main loop the order is the other. After such
a wait the recovery may end before the slave has answered, and the answer can meet the
next request: `AnswersItsRequest` excepts these behaviours (`early`). It holds under a second
condition, on the constants: `SlowestAnswerEnds`. The recovery window of `bridge_config.h` bounds when an
answer may begin and not when it ends. A request that comes after the window is 8 characters
and can be out while a long answer begun within it still arrives; the tail is then
assembled as the response to the new request. In the run, with `MaxDelay` 11 and answers of 8 in
a buffer of 8, TLC finds it (section 4 has the numbers of the board).

README.md:17 says that the recovery of an alarm includes a hysteresis of 2 degrees; the
code never holds an alarm against NORMAL (`board_a_alarm.c:387` returns before). This is
`RecoveredBelowHysteresis` in Alarm, which is in no run (nor is the loss of a configuration
when the bus is down at start-up, below): with
`Temperatures <- FineTemperatures` in `MCAlarm.cfg` TLC finds it violated.

More follow from properties that hold only with an exception:

- `board_a_model_complete_save` (`board_a_model.c:1729`) clears `event_marker_dirty`
  for a request older than the marker; such a marker is not stored until it changes
  again. `MarkerStoredUnlessRaced` names the exception (`raced`) and is proved.
- `sync_event_marker` compares only whether an event is open (`board_a_rtos.c:341`).
  When the flush at the end of a round closes an event and a START opens the next before
  the marker is looked at again, the marker goes on naming the old one, though
  README.md:146 says the marker is restored after a reset. `CloseRowKept` names the
  exception (`NotMarked`): a reset then leaves the open event without a CLOSE row.
- Start-up queues the CLOSE row of the event it found open and asks at once for the save
  of the closed marker (`board_a_runtime.c:564`). A second reset between that save and
  the row's way to the card loses the row; the same holds for the row of any event
  whose marker is closed first. `CloseRowKept` names the exception (`NotNamed`).
- Without any reset a CLOSE row can be lost like any other: an UNCERTAIN verdict is counted
  and not tried again (`board_a_persistence_tasks.c:280`, `:362` in a drain), a requeue into
  a full queue drops the newest row (`board_a_persistence.c:180`), a row that cannot be
  formatted is dropped (`board_a_runtime.c:386`), and the full output queue of the event buffer
  gives up its oldest row for a later CLOSE. The marker is closed all the same, and nothing
  writes the row again. All of these are counted, which is what `CloseRowKept` says (`lost`).
- A bus that answers nothing at start-up is taken for an empty EEPROM; the next saves
  start again at sequence 1 (`config_store.c:290`), and a later start-up finds the old configuration
  newer, against README.md:20 (not lost on power-off). `AckedSurvives` is checked and proved for
  a bus that answers (`BootReadErrors`).
- The recovery of the RTU receiver ends at a silence since the last byte it saw, but
  `process_rx_event` lets a queued byte older than the damaged one move `last_seen`
  back (`board_a_rtos.c:775`), and a damaged byte does not renew the recovery. A damaged
  byte may then be passed over and the tail of its frame begin a new one. The CRC
  refuses such a frame; `FramesIntact` names the exception (`blind`).
- A broadcast is not answered, so only time tells the host that it may send again.
  `NotOverwritten` needs a host that waits for a turnaround: `RxWait` and two lags of the comm
  task, 65 ms with the lag of a scan. A shorter one loses a frame.
- After a fault the slave may answer a request one too late, and go on so: when a burst longer
  than a frame is dropped while an older finished frame waits (`publish_active`), the old frame is
  answered while its repetition is on the line; if that repetition comes in whole between the
  sample of the poll and the start of the answer, it is finished behind the answer and
  is the next to be answered late. Each exchange needs a comm task that is kept from running
  for a whole request, 9.2 ms. A scan of the sensors does that by itself: it runs at
  priority 4 over the comm task's 3 (`board_a_rtos.c:28`) and busy-waits about 10 ms per
  probe (`sensor_manager.c:380`, `board_a_rtos.c:376`). But scans are 1.75 s apart (0.75 s of conversion and a
  period of 1 s), and `Recovery` is 0.8 s for the longest answers, so an exchange without such a lag
  comes in between and ends it. `HalfDuplex` and `AnsweredInTime` say so: they forgive a
  fault until `Recovery` has passed without a lag of a whole request (`Lingers`), and are
  checked and proved for lags of any length. If the count is not renewed both are false.
- The confirmation count starts again whenever level, reason or phase of the
  candidate changes (`board_a_alarm.c:803`): samples over a limit that keep changing
  raise nothing, though README.md:17 says three in a row. `Settles` asks for a steady
  verdict.
- A recovery sample in a round that comes late replaces the deadline of the ticks that
  were due (`enter_post`, `board_a_event_buffer.c:404`), and so does an alarm that returns
  during POST (`:424`). These ticks get no row and, no queue being full, neither INCOMPLETE nor
  MISSED_TICK, which `emit_active_or_post` would have set. `LostRowsShow` speaks of rows
  the full queue lost.
- A START whose answer comes damaged counts as refused, and the interface shows STOPPED
  although board A may have started (`controller.py:473` takes only timeouts and transport
  errors as unknown). The next poll that succeeds puts it right; `StoppedIsStopped`
  names the exception (`hidden`).
- After a transport error the client is closed but the backend keeps it: every poll fails
  until the user connects again, so `ShowsTruth` asks for an open client. While
  START_UNCONFIRMED is shown neither start nor stop can be clicked, until a poll succeeds.

## 6. What is not modelled, and why

- **Sensors** (`sensors/`): bit timing on one wire and a scan in one task; what it does
  to the rest (a reading, a fault, a binding to save) is a choice of the environment in
  Alarm and EventMarker.
- **SD protocol and FatFs glue** (`app/sdcard/`): commands and tokens over SPI within one
  task, under the lock of the storage port; Logging sees each operation work, fail or leave
  its outcome unknown, which is all the protocol can make of it.
- **Register map, encodings, CSV rows, CRC**: data, not control. A configuration, a
  record and a row are identities; a CRC turns any mixture into "nothing valid".
- **Alarm outputs**: a timeline computed from the alarm in its own task, nothing reads it back.
- **Start-up, vectors, board support, vendored code**: register setup, and the
  third-party code (FreeRTOS, FatFs, the ST libraries, CMSIS) that is most of the
  lines in `firmware/bsp`. What the firmware asks of it is assumed: a mutex excludes, a queue is a
  FIFO, the highest ready task runs.
- **Real time**: deadlines may expire whenever the code could find them expired, except
  in EventBuffer, StorageRetry, Bridge and RtuSlave, where the order of times is the point.
- **The rate of rise** in Alarm is any of a small set of values: its history of eight
  samples and gaps is left out. `board_a_alarm_force_unknown` is called by tests only.
- **The scheduling arithmetic of the tick** in Logging: a sample may be due at any tick.
- **The tear in `now_ms`** (`board_a_rtos.c:302`) is below the grain of the models.
- **Overflow of the receive queues** of both boards: board B's holds 511 bytes, and no
  transmission lasts longer than 256 characters; board A's holds 512, and its driver
  mutes the receiver while it sends.
- **Host**: what the interface shows of temperatures, alarm and counters, the decoding of
  registers, and the operations it does not use (SAVE, SET_TIME, ARM_START). The command
  line tools run one operation per process; tests are not part of the system.

## 7. Plan

Order: the record path first (data that would be lost), then what survives a reset,
then what decides on events, then the links to the host.

Done: RecordLedger, RecordQueue, Logging, StorageRetry, ConfigCell, ConfigStore,
EventMarker with its CLOSE rows, EventBuffer, Alarm, Bridge, RtuSlave, HostSession, and
the proofs of section 4.

Left, models:

1. The history behind the rate of rise (eight samples, gaps, resets).
2. Bridge and RtuSlave as one link: a request crosses both receivers, and the answer of
   an aborted transmission meets the bridge's recovery.
3. The scheduling of the tick over SET_TIME and the wrap of the clock.

## 8. Running

```
tlc -workers 2 -config MCLogging.cfg MCLogging     # any run: its cfg, its module
tlapm LoggingProofs.tla                            # any *Proofs module
```
