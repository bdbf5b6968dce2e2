# Formal models of field-hardware-lib

The library drives the field-measurement hardware of an experiment: waveform
digitizers and I/O boards in a VME crate, a trolley and signal sources on the
network. This directory holds TLA+ modules that model it, the configurations
that check them with TLC, and theorems about them proved with TLAPS. File and
line references are to `src/`; `vme-interface/include` and `vme-interface/src`
are left out where the file name alone is clear.

## 1. The system

| Component | State it keeps | Operations | Hard behaviour | What makes it correct |
|---|---|---|---|---|
| `WfdBase` (`wfd_base.hh`) | event queue, `queue_mutex_`, atomics `thread_live_`, `go_time_`, `has_event_`, the work thread | Start/StopThread, Start/StopWorker, PopEvent, FlushEvents, has_event, DataAvailable | three kinds of threads on one queue; flags read without the mutex; join | no event hidden, promised in vain, lost, doubled or out of order; a stop stops; the join returns |
| `Sis3302`, `Sis3350`, `Sis3316`, `Caen1742` | the board, its configuration, a software trigger request, function-local statics | LoadConfig, WorkLoop, EventAvailable, GetEvent, PopEvent, GenerateTrigger | the board is rearmed before it is read; bus errors and retries; two banks; early returns; polls that give up | each record read once and whole, none lost; a request served once; a configured board |
| `WfdContainer` | list of workers | StartRun, StopRun, AllWorkersHaveEvent, GetEventData, FlushEventData | loops over workers whose threads run | complete bundles of one trigger |
| `VmeBase` | device handle, statics | OpenVme, CloseVme, reads, writes, block reads | one bridge, one process-wide mutex, retries, statuses in statics | transfers never interleave; the mutex is always released |
| `Sis3100VmeDev` | `dev_` | the same for the I/O boards | goes on if the bridge did not open | the bus is left free |
| `CommonBase` | log file, `log_mutex_` | Log* | called inside and outside of the bus mutex | no deadlock |
| `AcromagIp470a`, `DioTriggerBoard`, `DioMuxController`, `DioStepperMotor` | ports of the I/O board, a clock thread | pulses, channels, moves | read-modify-write of shared ports; bumpers; the join | other pins survive; the motor stops |
| `TrolleyInterface` over `TCPDrivers` | two sockets, a file | DataReceive, SendReceive, Device* | byte streams, time outs, late answers | frames found again; the answer fits the command |
| `Sg382Interface` over `TCPDrivers` | a socket | Connect, Get/Set | late answers | the number is the one asked for |
| `YokogawaInterface` over `vxi11_user` | table of clients, links and counts | open, close, query | shared clients, lost calls | a client lives as long as its links; own answers |
| `EventManagerBase`, `InoStepperMotor`, `AlteraCycII` | queue of complete events; socket; firmware loader | | | see section 7 |

How they interact. A digitizer is a `WfdBase` (queue and thread) and a
`VmeBase` (bus) at once. Its constructor configures the board, starts the work
thread and then sets `go_time_`. The thread polls the board through the bus,
reads events and queues them. A front end builds a `WfdContainer` of
digitizers, starts and stops runs through it, polls `AllWorkersHaveEvent()`
and collects one event from each. All objects of the process share
`vme_mutex_` and `log_mutex_` (`common.hh`), and all objects of one class share
the function-local statics of its methods. The I/O boards' objects share the
octets of a board and nothing else. The network clients are sequential and
independent of each other, but all users of VXI-11 share one table.

`PROJECT.json` lists every component with what is modelled of it, and every
hazard at its line with the properties that cover it, or why none does.

## 2. The modules

| Module | Models | Role |
|---|---|---|
| `EventFifo` | what a digitizer promises to an event builder | abstract specification |
| `WfdBase`, `WfdBaseProofs` | one digitizer of any of the four classes: work thread, run-control thread, clients | component, theorems |
| `Sis3302` | `WfdBase` joined to a board that is armed, triggers and records; software trigger | composition, refinement of `WfdBase`; its theorems are in `WfdBaseProofs`, behind those of `WfdBase` that they use |
| `Sis3316`, `Sis3316Proofs` | the two memory banks, EventAvailable and GetEvent | component, theorems |
| `Sis3316Osc` | SetOscFreqHSN1 over I2C | component; its theorems are in `Sis3316Proofs`, through `MCSis3316` |
| `Caen1742` | run bit, EventAvailable, GetEvent, statics, of several boards | component |
| `Caen1742Flash` | the correction table from flash and file | component |
| `Caen1742Samples` | unpacking, cell, peak and time correction | algorithm |
| `Caen1742Proofs` | the readout and the correction table, through `MCCaen1742` | theorems |
| `ConfigOps`; `Sis3302Config`, `Sis3350Config`, `Sis3316Config`, `Caen1742Config` | the register accesses of each LoadConfig() | operators |
| `LoadConfig`, `LoadConfigProofs` | those accesses on a bus that fails | component, theorems |
| `WfdContainer`, `WfdContainerProofs` | N boards, their threads, the container's loops | composition, theorems |
| `VmeBus`, `VmeBusProofs` | bus mutex, log mutex, open, transfer, close, statics | component, theorems |
| `IoBoard`, `IoBoardProofs` | Acromag ports, trigger board, multiplexer, stepper motor with its thread | composition, theorems |
| `TcpLink` | a TCP connection with its device at the other end | component |
| `TrolleyData` | DataReceive() over a byte stream or a file | component |
| `TrolleyControl`, `Sg382` | commands and answers over `TcpLink` | compositions |
| `Vxi11` | table of clients, links, queries | component |
| `NetworkProofs` | `TrolleyData`, `TrolleyControl`, `Sg382` and `Vxi11`, through `MCNetwork` | theorems |
| `MC...` | instances for TLC; `MCNetwork`, `MCCaen1742` and `MCSis3316` hold several components, of which a behaviour runs one (`part`), and `MCWfdContainer` two experiments. They are modules of the project like the others: their constants are arbitrary for the theorems about them, and have their values from the `.cfg` | |

**WfdBase.** The variables carry the names of the members. `work_pc` is the
place of the work thread in `WorkLoop()`, `ctl_pc` that of the run-control
thread in `StartThread()`/`StopThread()`, `client_pc[c]` that of a caller of
`PopEvent()` or `FlushEvents()`. One step is what a thread does between two
points where another can see it: one access to an atomic, one access under the
mutex, one call on the bus. Where the subclasses differ, a predicate says so
(`LoopTestsGo`: Sis3350 has no `while (go_time_)`; `ArmTestsGo`: Sis3302 and
Sis3316 rearm only while `go_time_` holds; `DumpsFirst`; `DropsOldest`;
`FlagSetByCtor`: the constructors of Sis3316 and Sis3350 leave `has_event_`
uninitialised, so its first value is a choice). Events are numbered as they
are read from the board. `returned`, `discarded` and `late` are history.
`PopReturn` reads the static `data` after the unlock, as the code does.

**Sis3302.** Each action of the work thread is the one of `WfdBase` with what
it does to the board: `PollBoard` reads "not armed" as "has an event",
`ArmBoard` arms it before `ReadBoard` reads its memory. A key write or a
register read may fail with all its retries when `BusFails`; the static `msg`
then keeps its old value. The board after its reset is not armed and holds
record 0, which is no event. `content` is the record each readout read.

**Sis3316.** The board samples into the armed bank, and arming one closes the
other. The thread keeps `bank2_armed_flag` instead of reading which bank is
armed. The client clears and sets `go_time_`, which the thread tests between two
events and again before it swaps (line 692). `Swap` flips the flag whether or not the write got through (line 709),
`ReadAddress` gives up when the register does not follow (line 777), and a
failed read tests the `msg` left by the access before. `Sis3316Osc` is a list
of I2C operations; each starts an operation and polls for its end, and either
access may fail. What is left of the oscillator is its registers and whether
the I2C bus is idle. The program's table of divider codes is `HsBits`; what a
code means is a table of its own, that of the Si570 (`HighSpeedDivider`,
`OutputDivider`), so that the two are compared and not one with itself.

**Caen1742.** The bundle and the flag `correction_loaded` are statics: one for
all boards. `ReadEvent` reads and unpacks the groups that took part one by
one; `ReadEventFails` covers the early returns, after which the bundle is
pushed as it is. In `Caen1742Flash` a value of the table is the place of the
page it came from: each group has a flash with registers of its own, a failed
access leaves that of its group selected, and the next command for it then reads
on, after any number of pages of the other groups. `Caen1742Samples` works on the words of an event with
8 samples a channel, signals that are straight lines, and cells with offsets
and widths of their own.

**LoadConfig.** A LoadConfig() is straight code: `Sis3302LoadConfig(conf)` and
the others give its steps (read, write, change of `msg`, start of a unit, poll,
SPI write to both chips of a group, write of a register of the clock
multiplier) as a sequence that depends on the
configuration file; `LoadConfig` carries them out, any access failing, units
staying busy (the board itself as well, where its start is polled), polls giving
up, errors counted or only logged. `Si5325Writes` is a select and a write: the
failure of the first is only logged, and the word then goes to the register
selected before (`selected`).

**WfdContainer.** The workers are those of `WfdBase` at a coarser grain: what a
thread does under `queue_mutex_` is one step. Each has the board and the work
loop of its class (`Device`): a Sis3302 is armed by its thread and dumps an event
that it finds before its loop, if `go_time_` holds already; a Sis3316 swaps its
banks, and its constructor leaves `has_event_` as it was; a Sis3350 does not test
`go_time_` and drops the oldest event of a full queue; a Caen1742 queues events
in its memory and stops for good with its thread. The statics `is_event` and
`bundle` are one set per class. An event is the pair of the board that recorded
it and the trigger's number. Every call is a loop over the workers with one step
per worker.

**VmeBus.** A thread calls a method of its own object, which takes the mutex,
opens the bridge (with retries), transfers, closes, unlocks, tests the status,
logs, returns. `retval` is the static of each method that has one; `rc` is
what the thread's own transfer returned. `wild` are the boards whose `dev_`
was never initialised and looks open.

**IoBoard.** One step is one access to an octet. A call puts its accesses on
the client's list `todo`; a sextet lies across two octets and needs two reads
and two writes. The clock thread of the stepper motor takes `board_guard_`
around each edge; `GoOrHalt` and `Bumpers` are the two threads' tests.

**TcpLink** and its two users count in bytes. A read returns what is there, or
the first bytes of it (`Seams` says how many, and may cut a word), or nothing
when `select()` times out. Answers come in order and are not marked, so what a
late answer does to the next query is part of every behaviour. **TrolleyControl**
takes any four bytes for a length or an address, as the code does, and asks for
their value (`Values`): that of a word of an answer is known, any other field of
a header may have one of `Fields`, a data word, or one that a split put together,
one of `Anything`. Both sets hold lengths that are accepted and addresses.
**TrolleyData** numbers the bytes of a stream and reads it as the code does:
the preamble word by word, then byte by byte, the frames by the lengths in
them, of 32 bits for an A frame and 16 for the samples of a B frame. Nothing in
an event but its two sync words tells where it begins; `TrafficAssumption` says
that no other bytes read as one of them. **Vxi11** keeps the three arrays and the counter of the library under
their names; a remote call may be lost on its way or on the way back.

Actions whose name has an underscore and a suffix (`Drop_OffByOne`) are
seeded faults: each stands beside the definition it corrupts, is used nowhere,
and serves to show that a property can fail.

## 3. What is checked

All bounds are constants of the `.cfg` or of the `MC` module.

| Run | Instance | Shows |
|---|---|---|
| `wfd3350` | a Sis3350, 1 client, queue limit 2, 4 events | it implements `EventFifo` (`FifoSpec`), limit included; order (`OldestFirst`); no event is hidden (`NoHiddenEvent`); a polling client gets every event out (`EveryEventComesOut`) |
| `wfd3302` | a Sis3302, 1 client, 4 events, any poll may find one | `TypeOK`, `SeenEventIsThere`, `NoPhantomEvent`, `AtMostOneLate`, `NoEventLost`, `StopReturns` |
| `sis3302` | a Sis3302 and its board, 1 client, 3 readouts, 2 triggers, 1 request | each record is read once, in order, and none is lost (`RecordsKept`); the trigger key is written at most once per request (`NoUnaskedTrigger`); the board is rearmed (`RearmedInTheEnd`) |
| `container` | a Sis3302 and a Sis3316; a Caen1742 and a Sis3350 with a queue of 1; all calls, 2 triggers | complete bundles (`NoHoles`); bundles of one trigger, as long as no trigger found a board that was not ready and no event was dumped or dropped, and again after a flush that leaves nothing behind (`Aligned`) |
| `vme_calls` | 2 digitizers, 1 I/O board, 1 retry | `OneBridge`, `NothingHeld`, `CallsReturn` |
| `sis3316` | 2 channels, 3 triggers, 2 failures; oscillator with two `hs`, two `n1`, 2 failures | a bundle is the event that was seen, whole, once and in order, unless an access failed since (`EventsOnceWhole`); the head of the bank comes out once nothing fails any more, or the readout is stopped (`HeadComesOut`); read by the table of the chip, the oscillator has a high-speed divider from 4 to 7 as asked, an output divider rounded down, its reference kept, and its bus is free (`FrequencySet`); it is changed only while frozen (`ChangedWhileFrozen`) |
| `caen` | 1 and 2 boards of 2 groups, 2 events, 1 failure, 2 lives; flash channels 0 and 1 of one group and 9 of another, 2 failures; 8 samples, 2 events | `EventInItsGroups`, `EventsComeOut`; a failed page damages itself and the next one of the same flash at most (`DamageStaysWithItsPage`); samples unpacked whole and corrections that give back the signal (`SignalRestored`) |
| `configuration` | the four devices, 2 groups, 3 sets of switches, 1 failure anywhere, polls of 1 | a LoadConfig() that returns has configured the board but for the failed step, and for the register that a failed select of the clock multiplier misdirects (`ReturnedConfigured`); no DAC loaded while busy (`LoadsWait`); every switch acts (`SwitchesTakeEffect`); it ends (`Ends`) |
| `io_boards` | three wirings (ports apart, sextets that share octets, all on one octet), 2 calls, track of 3, 1 failed access | `StopsAtBumper`, `StepsAsAsked`, `PinsPreserved`, `ClockRests` |
| `network` | four trolleys' traffic with 11 places to cut it, 2 faults; control and generator with 3 calls, 2 addresses, reads cut after 1 and after 16 bytes, data words that read as a length or an address; 3 users of 2 instruments, 2 slots, 4 opens, 2 queries, 2 failures | whole frames are delivered (`DeliveredWhole`) and every intact one is (`IntactEventsCome`); a client in step gets its own answers (`OwnAnswerInStep`); registers are not mixed up as long as every packet began with a length (`OnlyOfTheRegister`); links have live clients and a query its own answer (`ClientsAndAnswers`) |

The bounds are enough for the cases that matter.
- Four events exceed a queue of two twice over, so drops happen with pops and
  flushes in between. Three readouts are the dump and two events, so one can
  wait while another is in flight.
- Two triggers and two workers are the least that can be paired wrongly, and
  each trigger can fall before, within or after any loop of the container. The
  two experiments of the container have a worker of each class between them.
- Three threads on the bus let one wait while another fails; both classes occur.
- Three triggers fill both banks of a Sis3316 and one of them twice; two
  failures can hit the swap and the readout of one event, or two readouts in a
  row. Two channels are a first one and one after it, which differ.
- Two boards and two events show what the statics of the Caen1742 mix; of the
  three flash channels the first has pages of times and the others have none, and
  the pages of the third lie between the end of the first group and its beginning
  in the next run of the program; eight samples are
  one round of the unpacking, and the two start cells give a ring that wraps
  and one that does not.
- In a LoadConfig() the failure falls on any step (on one chip or both of an
  SPI write, at the select or later in a write of the clock multiplier). What it
  leaves behind is a stale `msg`, which the next read replaces, the register of
  the multiplier that was selected before, and one counter. The trace length needs more than 16 bits, for
  which the Sis3316 has a step of its own.
- A motor of three steps has a middle, two ends and both neighbours. Two
  calls are one that moves and one that stops, reverses, or uses the pins.
- The traffic has noise before and between events, frames without payload,
  refused lengths, B frames alone and flash data of any parity; the cuts lie
  within and beside each preamble and header. One cut can lose an event and
  the second its successor.
- A sequencer setting has one word for the nine of the code; the calls that send
  one packet after another are those of `DeviceConnect()`, which sends two.
- A seam of 1 byte cuts within a word, one of 16 ends what is read behind the
  length at the end of the header of an answer, before its data: these bytes are
  what the next packet begins with.
- Three users of two addresses are two that share a client and one that does
  not; four opens with two slots fill the table and go past it.

**Fairness.** The work threads are threads of the platform and run: weak
fairness, on all of the thread's steps together (`EveryEventComesOut`,
`RearmedInTheEnd`, `StopReturns`, `HeadComesOut`, `EventsComeOut`); so are a
LoadConfig() that began (`Ends`) and the threads of the stepper motor
(`ClockRests`). A client or a run-control thread finishes a call it began, and
is free to make none; `EveryEventComesOut` adds, as its own antecedent, that a
client goes on polling. Triggers, answers and failures are never fair: the
board may be silent, and `HeadComesOut` and `EventsComeOut` speak of what
happens when failures have come to an end. A thread that waits for a mutex
which becomes free again and again gets it: strong fairness on the lock.
`std::mutex` does not promise this, but every mutex here is held for a few
steps, the work loops and the clock sleep between two locks and bus calls sleep
inside, so no thread relocks in a tight loop. `EveryEventComesOut`,
`StopReturns`, `RearmedInTheEnd`, `CallsReturn` and `ClockRests` use it.

Deadlock is checked where the system goes on forever (the digitizers, the
container, the bus). The other configurations switch it off: their bounded
calls, triggers or programs do come to an end.

## 4. Conditions

Some of the properties that hold carry a condition, because the code does not
promise more:
- `SeenEventIsThere`, `OldestFirst` and `NoEventLost` hold for one client. With
  two, see `wfd_shared_data`.
- `NoPhantomEvent` and `SeenEventIsThere` hold where the constructor
  lowers `has_event_`: not on a Sis3316 or a Sis3350, where the field starts
  uninitialised and an empty event may be collected first. `NoHoles` holds of all
  classes and excuses just this: a flag that nobody has assigned (`written`).
- `AtMostOneLate` holds where the loop tests `go_time_`: not on a Sis3350, whose
  loop never does. "Stops each worker from collecting data."
  (`wfd_container.hh`) does not come true there.
- `RecordsKept` assumes that no trigger falls between the rearm and the end of
  the readout (`Spaced`) and that the bus answers: the board has one memory.
- `Aligned` speaks of executions in which every trigger found all boards armed
  and read out, no event was dumped by a Sis3302, dropped by a Sis3350, or
  collected where there was none (`uniform`). A dump is what `FirstEventDumped`
  asks for, but if the other board recorded the same trigger, as when both did while the run
  was stopped, all later bundles pair two triggers. A flush mends this (`uniform`
  holds again) if at its end no queue, board or thread has an event left. Two
  boards of one class may queue each other's events (`OwnEvents`).
- `EventsOnceWhole` says nothing of the bundle at whose readout an access
  failed: it may be the event before once more, or a mixture. After a failed
  swap the flag of the banks is wrong until the next swap, which is then for the
  bank that is armed already and loses what is in it: if it succeeds, the flag is
  right again, and if it fails as well, it is right by chance. `HeadComesOut`
  assumes it right.
- `FrequencySet` speaks of the dividers that the code sets right: of high-speed
  dividers from 4 to 7, and of the output divider as it is after its two low bits
  were lost. What the code sets wrong is in `HighSpeedAsAsked` and
  `OutputAsAsked`.
- `EventInItsGroups` holds for a board that is alone: two share bundle and
  table. It speaks of the groups of the event; the others hold an older
  event's samples, corrected again each time. That a second life of the thread has
  no events is not in it: see `caen_restart`.
- `DamageStaysWithItsPage`: the page after a damaged one is the next that is read
  from the same flash, whatever pages of other groups lie between, and the first
  of the group in the next run of the program comes after its last.
- The time correction keeps the time axis of the first event
  (`caen1742.cxx:840`): `SignalRestored` covers events that start at its cells.
- `ReturnedConfigured` excuses in the boards that count errors what they do not
  count: an ADC register of which one chip's write failed (line 137), the
  oscillator, and the clock multiplier's registers when the select of one failed
  (line 1445, see `ClockMultiplierProgrammed`). `SwitchesTakeEffect` leaves out `invert_ext_lemo` of the Sis3302,
  whose bit the mask of `sis3302.cxx:83` takes away.
- `StepsAsAsked`, `StopsAtBumper` and the low clock of `ClockRests` hold for a
  motor on an octet, not a sextet, that nobody else uses (`MotorAlone`); a bumper stops it one
  step late, two when a cycle of the command before is under way.
- `PinsPreserved` allows what a read-modify-write across another client's
  write does (`stale`): boards that share an octet do lose pins.
- `OwnAnswerInStep` holds until a read of the connection comes too early or
  stops short (`slipped`); after that nothing in the protocol tells whose an
  answer is, and all later ones may be off by one. `OnlyOfTheRegister` needs less:
  answers may be late and cut, as long as what each packet took for the length
  was one (`torn`). Past that, bytes of an answer are taken for a header, and
  nothing holds of the value (see `GoodValueIsOfTheRegister`). Neither says anything of a data
  word that did not arrive: then the caller gets what was on the stack.
- `IntactEventsCome` leaves out, on a socket, an A frame without payload, whose
  payload is a read of no bytes, and one whose length is refused.
- `CrashesOnlyAfterAFailure`: an address whose first opening failed keeps a
  slot without a client, and the next opening uses it.

These properties are stated in the modules and do not hold: the code does
otherwise than the sentence says. No run has them as a property; TLC finds a
counterexample to each on the instance of the component's run, with the change
of it that the table names.

| Property | Sentence of the repository | What happens |
|---|---|---|
| `OwnEvents` (`WfdContainer`) | "stack to hold device events" (`wfd_base.hh:125`) | (two Sis3316) the bundle of the work thread is one static for the class (`sis3316.cxx:626`), and an event of one board is pushed on the queue of the other |
| `FlushLeavesNothing` (`WfdContainer`) | "Flush all stale events.  Each worker has no events after this." (`wfd_container.hh:74`) | the queues are emptied one after the other while the threads push |
| `FirstEventDumped` (`Sis3302`) | "Dump first event (they are corrupted)." (`sis3302.cxx:264`) | the event before the loop is dumped only if `go_time_` is set by then; if the thread polls before `StartWorker()`, nothing is dumped and the loop queues the corrupted event |
| `HighSpeedAsAsked` (`Sis3316Osc`) | "Manipulate the input bits to conform to the clock bits." (`sis3316.cxx:1053`) | (dividers 9 or 11) both get the code of 7 (line 1073) |
| `OutputAsAsked` (`Sis3316Osc`) | "Set two frequency divider variables to control speed." (`sis3316.hh:152`) | `+` binds tighter than `&` (line 1157) and the two low bits are lost: the sample configuration (`sis3316_sample.json:8`) asks for 8 and gets 5 |
| `ClockMultiplierProgrammed` (`LoadConfig`) | "failure to select address for clock multipler spi register" (`sis3316.cxx:262`), for a `Si5325Write()` that returns an error | a failed select is logged and 0 returned (line 1445); the data go to the register selected before |
| `FileGivesTheTable` (`Caen1742Flash`) | "Load the correction table from disk." (`caen1742.hh:173`) | every row is read into index 0 (`caen1742.cxx:1270`), so a run that finds the file corrects with zeros |
| `GoodValueIsOfTheRegister` (`TrolleyControl`) | "No Error, return data" (`TrolleyInterface.cxx:799`) | the answer to an array read is cut before its data; the next `DeviceRead()` takes a data word of 24 for a length and the one behind it for its address, and returns a word that was never read from its register |
| `RequestNotForgotten` (`Sis3302`) | "Trigger the WFDs via software." (`wfd_container.hh`) | (two requests) one made between the key write and the clearing is cleared with the one before |
| `EveryOwnStatus` (`VmeBus`) | "return: error code from vme read" (`vme_base.hh`) | the error code is a static read after the unlock; another object's code is returned |
| `BitPreservesOthers` (`IoBoard`) | "Write a single bit of data to a specified port, preserving other data." (`acromag_ip470a.hh:70`) | the mask `~(~data << bit_id)` clears every bit above |
| `AdcsWait` (`LoadConfig`) | "Check busy register, bit 31 to make sure it finishes before returning." (`sis3316.cxx:1329`) | the loop polls again only after a failed read, so the next write may meet a busy ADC |
| `SlotsReturn` (`Vxi11`) | "Can be used multiple times for the same device (the library will keep track)." (`vxi11_user.cc:96`) | a closed slot is cleared, but `VXI11_DEVICE_NO` never falls: after `VXI11_MAX_CLIENTS` first openings none succeeds |
| `FirmwareKept` (`TrolleyControl`) | "Prevent writes to Trolley Interface Firmware (for now)." (`TrolleyInterface.cxx:1016`) | `address & (0xF0000000 != 0x20000000)` tests the lowest bit of the address |

## 5. Where the code and its documentation disagree

Each of these runs checks one sentence of the repository and ends in a
counterexample.

| Run | Sentence | What happens |
|---|---|---|
| `wfd_shared_data`: a Sis3302, 2 clients, 3 events; `EachEventOnce` | "Returns the oldest event on the data queue." (`sis3302.hh:56`) | two callers of `PopEvent()` share a static that is read after the unlock; one event is returned twice and the other never |
| `caen_restart`: a Caen1742 with two lives; `StartedBoardAcquires` | "Spawns a new thread that pull in new data." (`wfd_base.hh:67`) | the end of the thread clears the run bit, and only `LoadConfig()` sets it: a board that is started again has no events |

Found by reading: nothing in the tree writes `num_events_`, not even a
constructor, so `AnyWorkersHaveMultiEvent()` ("Checks if any workers have more
than a single event.") answers from an uninitialised field.

## 6. What is proved

For all values of the constants, from the assumptions named in the modules
(`WfdBaseAssumption`, `Sis3302Assumption`, `Sis3316Assumption`,
`WfdContainerAssumption`, `VmeBusAssumption`, `LoadConfigAssumption`,
`NetworkAssumption`, `CaenAssumption`: thread names are distinct, bounds are naturals, the device is
one of the four, sets of boards and users are finite, channels are channels of
the board) and from what a theorem's ASSUME says. Four say more:
`OscAssumption`, that dividers and registers are bytes; `AddressAssumption`,
that no instrument's address is empty, which is how the library marks a free
slot; and `IoBoardAssumption`, that the two threads of the stepper motor use
one port, and that it is an octet, as it is unless the configuration asks for
sextets; and `TrafficAssumption`, that bytes which read as 0xAAAA or 0xBBBB, at
any place of a trolley's stream, are the end of a preamble, and that a length
which `DataReceive()` lets pass is the frame's. The last is the trolley's promise
and not the driver's work: a payload that held a sync word could be taken for an
event after a purge or a late byte. TLC evaluates it for the streams of the run.

*WfdBase* (`WfdBaseProofs`), for any number of clients and each device:
- `TypeCorrect`. The types are inductive only with two facts about the pcs
  (an event is held where the push needs one; the thread is gone once joined):
  `TypeInv`.
- `NoHiddenEventCorrect`, `NoPhantomEventCorrect`. The flag and the queue agree
  only when the mutex is free, so the argument needs to know who is inside it.
  `MutexInv` says that the owner of the mutex is exactly the thread whose pc is
  between lock and unlock. `HiddenInv` and `PhantomInv` say of each pc inside
  the mutex which half of the change is still due; each action under the
  mutex changes the flag or the queue, and pays off one of them.
- `AtMostOneLateCorrect`. `LateInv` adds that no event has come late while
  `go_time_` holds, and that after the late event the thread is at no pc from
  which a second one could follow without another test of `go_time_`.

and with one client:
- `SeenEventIsThereCorrect`: between the look at the flag and the pop only the
  work thread touches the queue, and it drops an event only from a queue that
  is longer than its limit.
- `OldestFirstCorrect`, by `OrderInv`: what was returned, what is being
  returned, what waits and what the work thread holds increase in this order,
  and none exceeds the number of events read. Lemmas on sequences say that
  `Append` of a greater and `Tail` keep an order.
- `NoEventLostCorrect`, by `LostInv` (the events kept and those discarded on
  purpose are all that were read, and disjoint) and `HeldOnlyInv` (the work
  thread holds an event only on its way to the queue). The order makes the
  events distinct, so that a `Tail` takes one of them away and no more.
- `QueueBoundedCorrect`, where the device drops the oldest event, by `BoundInv`:
  the queue is over its limit by one at most, and only between push and pop.
- `FifoSpecCorrect`: each step is a step of `EventFifo` or none of its steps.
  `OrderInv` shows that the bundle is newer than what was put before, `BoundInv`
  that the limit of `EventFifo` is kept.

*Sis3302* (at the end of `WfdBaseProofs`):
- `DeviceIsWfdBase`: the joined model implements `WfdBase`'s specification,
  so all theorems above hold of it. Each action of the device is an action of
  `WfdBase` or leaves its variables alone.
- `DeviceQueueCorrect`, `DeviceEventsCorrect`, `DeviceIsFifo`: the properties
  and, with one client, the refinement carried over.
- `RecordsKeptCorrect`, assuming `Spaced` triggers and a bus that does not
  fail, by `RecordInv`: the memory holds the last record, which is unread
  exactly while the board is disarmed or was rearmed for the readout at hand.
- `NoUnaskedTriggerCorrect`: with `KeyInv`, which says that a request that
  stands, or a key written whose request is not yet cleared, is paid for by
  one call; it holds with a failing bus.

*Sis3316* (`Sis3316Proofs`), for any number of channels, triggers and failures:
- `EventsOnceWholeCorrect`, by `ReadoutInv`. It follows the event that was
  seen: before the swap it is the head of the armed bank (`SeenBeforeSwap`),
  after it the head of the closed one (`SeenAfterSwap`), the channels read so
  far hold it (`ReadSoFar`), and everything pushed is older than what is read
  or waits (`Older`, `HeadsFired`). A failure sets `seen` to 0, for which
  nothing is claimed. The flag of the banks is right as long as nothing failed.
  `TypeCorrect` is proved first and used throughout.

*The oscillator of the Sis3316* (`Sis3316Proofs`), for any dividers, any
registers at power on and any number of failed accesses, by `OscInv`:
- `FrequencySetCorrect`. While nothing failed (`Undisturbed`), each of the 37
  operations finds the bus, the pointer of the chip, the values read so far and
  the registers written so far as the ones before left them; `OperationIs` says
  what each of them is, and the invariant is proved for all of them at once from
  this table. At the end the registers hold the codes of the program, and what the
  chip makes of them is arithmetic on two fields of 3 and 7 bits. That the bus is idle at the end after a failure as well is `Stopped`:
  an error is never answered with a stop where there is one, and the bus is idle
  at the end unless the last one failed.
- `ChangedWhileFrozenCorrect`, from the same table: the six registers are the
  targets of the operations between the freeze and its end only.

*Caen1742* (`Caen1742Proofs`):
- `EventInItsGroupsCorrect`, for any number of boards, groups, triggers, lives
  and failures, by `ReadoutInv`. When one board is in use it follows the event
  through the bundle: the groups unpacked so far hold it uncorrected, all of
  them until the correction, then all of them corrected once with the board's
  own table, and a failed read claims nothing (`Following`).
- `DamageStaysWithItsPageCorrect`, for any channels, tries and failures, by
  `FlashInv`: each page read so far is right, or an access to it or to the one
  before it in its group failed (`ReadSoFarRight`); and when the flash of a group
  is still selected, the failure was at the page of this group that is to be read
  next or at the one before it (`SelectedByFailure`). The second is what makes the
  first inductive, and it needs the order of the pages: lemmas give the page before
  each one, across channels of 8 and of 24 pages and across a restart of the
  program, and say that a step within one group leaves the next page of the others
  where it was (`StoreMovesOn`).

*WfdContainer* (`WfdContainerProofs`), for any number of workers of any classes,
any triggers and any subset of the calls:
- `TypeCorrect`. That a bundle never holds more than N events needs
  `CollectInv`: a builder that is at worker k has collected k - 1 events. That a
  board is read where it holds something needs `PlaceInv`: which class may be at
  which place of the loop.
- `NoHolesCorrect`, by `HolesInv`, which carries what one loop saw into the next:
  the workers before `at` in the first loop, and those from `at` on in the second,
  have an event or a flag that nobody has assigned (`Promised`). `QueueStep`
  reduces each step to what it does to one worker's queue and flag, so that the
  invariant is proved over four cases; a push that drops the oldest event of a full
  queue leaves one.
- `AlignedCorrect`, assuming that no two workers are of one class (`Distinct`).
  `BoardInv` says what the board holds at each place of its thread: what was
  polled is what the board says, and what was detected is in the memory that is
  read. `Gone(w)` counts the events that worker w has handed out, as the triggers
  less those in its queue, in its thread and in its board. A worker that missed no
  trigger holds consecutive events (`Sound`); only a pop raises `Gone`
  (`GoneStep`), and it takes one from each worker, so that the counts are level
  again when a bundle is complete (`Level`). Dumps, drops, triggers that a board
  was not ready for and pops from an empty queue end the claim, and a flush renews
  it, for a queue, a board and a thread without events have handed out all
  (`FlushedStep`).

*LoadConfig* (`LoadConfigProofs`), for the four digitizers, any options and
numbers of the configuration file, any number of groups, any length of a poll and
any number of failures. About two hundred steps in a program of unknown length
are too many to look at one by one, so what the invariants need of a step and its
neighbours is a predicate of programs, `Good`: a word made of `msg` comes behind a
read of its register, or of one that nobody writes (`Formed`); between two starts
of a unit there is a poll of it (`Waits`); what a running board does more leaves
its register as it was (`Jumps`); a step counts its failure, or is one of those
that do not; a step that writes a switch's register writes what the switch says
(`Right`), and there is one (`Sets`). Each piece of a program has it by its text,
joining pieces keeps it, `FlattenIn` carries it through the groups and channels,
and `ProgramGood` is the result.
- `LoadsWaitCorrect`, by `LoadInv`: as long as no poll failed or gave up, a unit
  that is busy was started and not polled since (`Pending`), and so is not the
  one that the next start loads.
- `ReturnedConfiguredCorrect`, by `RegsInv`: a register is what the steps done so
  far make of it when all succeed (`After`), or one of the steps that make it
  failed; and behind a read that did not fail `msg` is the register. A word made of
  a stale `msg` is thus excused by the read before it, and by nothing else; a
  register of the clock multiplier also by a failed write of another one, whose
  word it may have got. `CountInv` says which failures leave the count at 0.
- `SwitchesTakeEffectCorrect`: by `RegsInv` the registers are those of `After` at
  the end. `SwitchAfter` follows a switch through all steps: its bit is on only if
  the switch is, which a word that is made of what was read needs, and once the
  register was written it says what the switch says.

*VmeBus* (`VmeBusProofs`), for any number of threads of either class:
- `OneBridgeCorrect`, `NothingHeldCorrect`, from `OwnerInv`: each mutex is owned
  exactly by the thread whose pc is inside it, and a bridge is open only
  between open and close. `MutexStep` reduces each action to what it does to
  the two mutexes, so that the invariant is proved once for all of them.

*IoBoard* (`IoBoardProofs`), for any wiring of the ports, octets or sextets that
share octets as they like, any masks, any length of the track and any number of
calls and failed accesses:
- `PinsPreservedCorrect`, by `AccessInv`. A call's remaining accesses always
  form a program of the code (`WellFormed`): a write comes after the reads that
  its data came from, half by half. `Fresh` says that the data of a client that
  is about to write agrees with the other pins of the octet, unless another
  client wrote there since (`stale`) or an access failed. It holds of all clients
  but the one of `WriteBit()`, whose mask does not preserve them.
- `StopsAtBumperCorrect` and `StepsAsAskedCorrect`, by `MotorInv`. `GuardInv`
  says which thread is inside `board_guard_`. `EdgesBounded` counts: the edges
  past a bumper, the edge in the cycle at hand, the one still to come, and the
  one of a command that is about to begin are two at most, and one more for each
  failed access. `DirectionKept` says that the pin has the direction
  of the command while the clock may move.

*The network clients* (`NetworkProofs`).
- `OnlyOfTheRegisterCorrect` and `OwnAnswerInStepCorrect`, for any answers of the
  device, late, missing or cut at any byte, and any values of data and split words,
  by `TrolleyInv`: from any byte on the wire on, the rest of the answer it belongs
  to is there (`AnswerStream`, with lemmas on what a read, an answer and a new
  command do to it). What a packet takes for its length is this word only if it is
  four bytes from the beginning of an answer (`LengthRead`); then the wire goes on
  with the other bytes of this answer, and the read asks for as many
  (`Continues`). So the address and the data of the packet are this answer's, as
  far as they came. Before the first slip the stream is the answer to the running
  command and nothing else (`InStep`).
- The second theorem holds of the generator as well, by `GenClientInv`: at most
  the answer to the running query is under way, and the set commands before it
  have none.
- `AnswerOfTheQueryCorrect`, for any finite set of users at any addresses, any
  table and failures, by `AnswerInv`: once a write was acknowledged, the
  instrument has the query asked last, or its answer, and no other one.
- `LinksCorrect`, by `TableInv`: slots are taken in turn, one per
  address, each with a client of its own that lives, or none after a failure
  (`SlotsInv`); a slot counts at least its open links, and they have its client
  (`LinksInv`), so that a count of 0 means that nobody is left. The second
  needs the cardinality of the sharers of a slot under each opening and
  closing. `SharedClientsCorrect` joins the two to the property of the run.
- `DeliveredWholeCorrect` and `IntactEventsComeCorrect`, for any traffics that
  keep `TrafficAssumption`, any seams and any number of faults, by `DataInv`. The
  recursion of FlattenSeq is unrolled once (`FlattenAppend`); from it follows
  where each byte of each frame lies in the stream, and that events lie behind
  each other (`EventsInOrder`). Then a sync word that is accepted is the end of
  an event's preamble (`FoundAtPreambles`), and the rest goes by lengths:
  `SearchInv` says that outside the search the reads lie within the frames of
  one event, at the place that `step` and `need` tell (`InFrame`), and
  `DeliveredInv` that what was delivered lies behind. For the second theorem
  `TrackInv` follows an event that is still awaited: the stream is before it, at
  a listed state at a listed byte of its preamble, in the frames, or behind,
  and then it was delivered. The lists (`TrackA`, `TrackB`) are what the search
  may have made of any bytes before; a split word or a time-out within the event
  breaks them, and then the event is hurt and not awaited.

Only model-checked:
- The samples of the Caen1742 (`SignalRestored`): the unpacking is a recursion over
  the words of an event, and what it computes needs an induction over data, which
  the prover cannot do. `FlattenSeq` and `After` could be followed step by step
  because the induction of `LoadConfigProofs` is over their numbers (`FromZero`).
- All liveness: fairness and ENABLED are out of the prover's reach.

## 7. What is not modelled

- `EventManagerBase`: an abstract class whose run loop is left to inheritors
  outside of the repository. Its accessors are all the code there is;
  `GetCurrentEvent()` hands out a reference without the mutex (line 53).
- `InoStepperMotor`: sequential socket code around an Arduino program that is
  not in the repository. What can go wrong is in the text: the wait of line 149
  never ends once entered, and the "again for 5 times" of line 138 is an `if`.
- `AlteraCycII`: a sequential loader whose result is the FPGA's own check.
- The unpacking of traces of the Sis3302 and Sis3350, two shifts per word.
- `SoftwareTriggers()` of the container, a loop over what `Sis3302` models with
  one board; `PushBack()` and `FreeList()`, which the owner calls while no run
  is on; `num_events_`, which nothing writes.
- The word counts of the block reads, which only the Caen1742 looks at, as an
  event, an empty one or a failure; the switch of `Sis3100VmeDev` on the
  address type.
- The Acromag's `CheckBoardId()` and `ActivateEnhancedMode()`, fixed accesses of
  the constructor, and `ReadBit()`.
- Of VXI-11 the data blocks with their length headers, the conversion of
  numbers, and which command a getter or setter of the Yokogawa sends; of the
  trolley the getters and setters of time outs.
- The vendor's driver (`vme/sis3100_vme_calls`), generated RPC stubs, the
  second copy of vxi11, the common headers, examples, communication tests.
- Destruction of an object whose thread runs: the derived object is gone when
  `~WfdBase()` joins (`wfd_base.hh:59`).
- A `dev_` that happens to equal another open descriptor of the process.
- Weak memory: the flags are atomics with the default order; the unlocked
  `size()` of `DataAvailable()` is taken as one read of the queue.
- Floating point: the corrections of the Caen1742 are exact on the numbers
  that are checked. Formatting, log files and the verbosity of log calls.

## 8. What could follow

Two Caen1742 with a table per board, should the statics become members; a front
end that inherits from `EventManagerBase`, should one come into the repository.
