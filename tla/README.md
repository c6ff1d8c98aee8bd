# Verification of the EtherCAT master (soem_wrapper)

TLA+ modules, TLC configurations and TLAPS proofs for the ROS 2 EtherCAT master under
`src/src/EcatV2_Master`. Paths below are relative to
`src/src/EcatV2_Master/src/soem_wrapper` unless they start with `src/`; SOEM is
`src/src/EcatV2_Master/src/soem/soem`.

Run a check with `tlc -workers 2 -config cycle_one.cfg MCPdoCycle.tla` and the proofs with
`tlapm PdoCycleProofs.tla` (and the other `...Proofs` modules).

## 1. The system

The master drives boards ("slaves") on an EtherCAT bus. Each board runs tasks (motors, PWM,
IMU, remote controls). A board is configured in two ways: over SDO it is told only the number
of its argument bytes; the bytes themselves then travel one by one through the cyclic
process data, and only when the board has all of them do the same bytes of the process data
become commands and telemetry.

| Part | State | Operations | Talks to |
|---|---|---|---|
| Data thread, `EthercatNode::datacycle_callback` | its place in the loop | receive, process (handshake, argument transfer, publishing), exit reset, transfer, send | devices under `mtx_`; the bus through SOEM; publishers |
| Device record, `SlaveDevice` | `master_status_`, `slave_status_`, the two process data buffers, the backup, `arg_buf_` and its index, `is_ready_`, `is_arg_sent_`, the two "configured" flags, `reconnected_times_`, `sn_`, `is_recover_rejected_` | the methods of `soem_backend.cpp` | called by all threads |
| Tasks, `src/tasks/*.cpp` | offsets, message objects (static: one per class) | `init_sdo`, `init_value`, `on_command`, `read`, the empty message of a loss | buffers, ROS topics |
| Configuration file, `config_utils`, `task_utils` | flattened key/value map | load; write argument bytes | device set-up |
| Executor (ROS callbacks), `on_command` of each task | none | write a command into the buffer under `mtx_` | devices |
| State checker thread, `state_check_callback` | its place in the round; `ec_slave[].state/islost`, `docheckstate` | reconfigure, reject, mark as lost, recover, bring back to OP | SOEM; devices, under `mtx_` except in one place |
| Shutdown hook, `on_shutdown` | `exiting_`, `exiting_reset_called_`, `running_` | request the exit reset, wait for it, stop and join the threads, INIT for all | data thread, checker |
| Start-up, `setup_ecat`, `main` | ownership of the node | find and configure the slaves, bring them to OP, start the threads | everything |
| SOEM, frame port (`oshw/linux/nicdrv.c`) | buffers and their states, last index, shared socket | take an index, send, receive for oneself or for another, give up, send again | the wire; data thread and checker |
| SOEM, wiring and clocks (`ethercatconfig.c`, `ethercatdc.c`) | topology, parents, receive times, delays, the settings of the sync signals | find the parent, measure, start the signals | the slaves |
| SOEM, EEPROMs (`ethercatmain.c`, `ethercatconfig.c`, the eepromtool) | who controls each EEPROM, the words read, a cache of bytes | read in two halves or at once, search sections, compare a returned board, write an image or an alias | the slave controllers |
| SOEM, process image | lengths of the data, FMMUs, segments, expected working counter, the datagrams of a frame | find out sizes, map (inputs apart or overlapped), send and receive a cycle | dictionary, drives, EEPROM, frame port |
| SOEM, mailbox services (`ethercatcoe.c`, `ethercatfoe.c`, `ethercatsoe.c`, `ethercateoe.c`) | mailbox counter, the two mailboxes, the list of errors | send a request, wait for the answer; SDO, object information, PDO, file, servo drive and Ethernet calls in one or several mailboxes; emergencies | the slaves |
| Firmware (not in the repository) | memory of its sync managers, arguments | store and echo arguments, drive actuators, report | the bus |

What is hard, and where:

* **One buffer, two protocols.** `master_to_slave_buf_` carries argument bytes first and
  commands later; callbacks write into it at any time.
* **Stale inputs.** When a frame is lost the inputs of an older one stay in the IOmap and are
  read again: as an echo, as a ready report, as a sample, or as the status of a slave that has
  left the bus.
* **One number line, two meanings.** The status byte is an enumeration (1, 2, 3) during the
  handshake and a sequence number (4..250, then 5..250) afterwards, and is compared as one.
* **Four threads.** Data thread, checker, executor and shutdown hook share the devices; the
  mutex is per device and is not taken by the exit reset nor by one `recover_state`. Data thread
  and checker share one socket and one pool of frame buffers.
* **Boards that come and go**, with or without power, replaced by others, at any step of the
  checker's round, of a service data transfer or of the reading of an EEPROM.
* **Answers that come late or not at all.** SOEM repeats datagrams, gives up, uses indexes and
  mailbox counters again, and in places takes the zero of an empty buffer for an answer.
* **Bytes.** Arguments, commands and reports are put together by hand; blocks of tasks must not
  overlap, values must fit their fields.

`PROJECT.json` lists these hazards line by line, with the properties that cover them.

## 2. Modules

| Module | Role |
|---|---|
| `SlaveDevice` | the record of one slave and its methods, each an operator from device to device. No behaviour of its own |
| `PdoCycle` | data thread, callbacks, shutdown hook, cyclic frame and firmware, on a bus whose slaves stay connected |
| `ArgTransfer` | abstract specification: arguments arrive in order, are confirmed only when stored, never change; of one that has gone astray nothing is promised |
| `PdoCycleRefinement` | the refinement mapping from `PdoCycle` to `ArgTransfer` |
| `PdoCycleInv` | the inductive invariant of `PdoCycle`, in named parts |
| `PdoCycleProofs` | lemmas about the methods of a device; type correctness; the argument transfer, and that it implements `ArgTransfer` |
| `CommandProofs` | what reaches the actuators; the exit reset; what is published |
| `SlaveLink` | `PdoCycle` composed with the checker thread, SOEM's recovery and a bus with faults |
| `SlaveLinkProofs` | only known boards are driven; a lost slave is quiet |
| `Lifecycle` | main, the start of the threads, the shutdown hook and the ownership of the node |
| `LifecycleProofs` | nothing is used after its end; the reset is sent before the end |
| `TaskBytes` | argument bytes, initial values and commands of every task class, as functions of bytes |
| `TaskReports` | decoding of reports: motors, IMU, SBUS and DBUS remote controls; the message objects |
| `Tasks` | the task list of one slave: set-up, commands, losses, the backup and its return |
| `SharedReport` | the static message object of a task class, used by two threads for two slaves |
| `TaskMessages` | `Tasks` and `SharedReport` in one specification, as alternatives: they share no variable |
| `TasksProofs` | no task disturbs the bytes of another |
| `FramePort` | frame buffers, indexes, the shared socket, time-outs and repetitions; what each call takes from an answer |
| `FramePortProofs` | no shared buffers, no leaks, each thread its own answers, or after a late one that of a distant request |
| `FrameLayout` | several datagrams in one frame: where they are put and where their answers are looked for |
| `Topology` | parents by counting open ports, measurement of the delays |
| `ClockSync` | the start of the sync signals (`ecx_dcsync0`, `ecx_dcsync01`) |
| `IoMap` | data lengths, FMMUs, segments, expected working counter, of an image with inputs and outputs apart or overlapped |
| `ProcessData` | the frames of one cycle and the counter they come back with |
| `BusSetup` | these composed: find, map, measure, then exchange data or start the signals |
| `Eeprom` | the EEPROMs and SOEM's calls on them: control, refusals, lost answers, the cache |
| `PdoMapping` | sizes of the process data from dictionary, drives, EEPROM or the configuration table |
| `SlaveInfo` | what set-up, mapping, recovery and the eepromtool do with the calls of `Eeprom` |
| `EepromProofs` | what the master reads of an EEPROM is that slave's; who controls it; what a returned board is compared with; what the tool writes |
| `Mailbox` | the two mailboxes, their counter, repeated requests, emergencies |
| `SdoTransfer`, `ObjectInfo`, `FileAccess`, `ServoDrive`, `EthernetFrames` | the protocols over it: SDO, object lists and descriptions with PDO by mailbox, FoE, SoE, EoE |
| `ErrorList` | the ring of errors |
| `MailboxServices` | mailbox, protocols and errors composed: one call after the other |
| `MailboxProofs` | what is read is one object of one board, a file in its order; the list of errors; SDO calls succeed undisturbed and transfer all |
| `MC...` | constants for TLC |

An operator whose comment begins with "Mutant:" is a deliberately wrong version of the operator
that follows it, and shows that a property can fail. The specifications do not use it.

The specifications are apart where the code has a narrow interface. `SlaveLink` takes for granted
that a confirmed datagram arrives and that an SDO either succeeds or fails: `FramePort` and
`MailboxServices` show what that rests on. `PdoCycle` keeps three bytes of each buffer: `Tasks` shows
what the others do. `SlaveLink` compares boards by the serial number: `SlaveInfo` shows how SOEM
compares them before.

### From code to model

*Buffers.* Of each process data buffer `PdoCycle` keeps only the first three bytes, as
`<<16-bit number, byte>>`. These are the bytes the argument transfer uses, and those it shares
with the task at offset 0. A command or a telemetry sample is a member of a small set of such
words. `Tasks` has the whole buffers.

*Steps of the data thread.* `phase` and `cur` are its position: `Receive(s)`, `Process(s)`,
`ExitReset(s)`/`ExitResetRest(s)`, `Transfer(s)`, `Cleanup(s)` are the visits of slave `s`; the
first two and `Transfer` need the slave's mutex, that is, no callback in the middle of its
write (`Locked`). `Exchange` is `ec_send_processdata` with the next `ec_receive_processdata`:
the frame may not arrive (a slave then keeps its old outputs), or may not come back (the
master keeps its old inputs).

*The handshake* is the composition `start_working(send_next_arg(confirm_ready(d)))` followed by
`process_pdo` when the slave is ready, in the order of the loop body.

*Callbacks.* `CommandBegin`/`CommandEnd` are the two halves of `on_command`, under the mutex.
The exit reset, which takes no mutex, is cut in two halves as well. (It zeroes the buffer
first; nobody reads the buffer between its halves except a checker in the middle of a round,
and the zero is not modelled.) A command may begin with the number of an argument while this is
under way: `on_command` does not ask how far the transfer is. `hist.astray` collects these numbers.

*Checker.* The flag `islost` is set and cleared before the mutex is taken (`VisitNewlyLost` and
`Found`), what the mutex protects follows (`ResetLost`, `FoundState`); the data thread and the
callbacks may come in between. `StartCheck` is the condition at the top of a round with `ec_readstate`;
`Visit...` are the branches for one slave; each wait for the bus or the mutex begins a new
step (`chk.pc`). `RecoverState`/`RecoverStateRest` are the two unlocked assignments, in either
order. `Configure` is `SlaveDevice::init` as SOEM's hook between PRE_OP and SAFE_OP; if its
service data transfer fails the old serial number stays (`unread` remembers for which slaves).

*Recovery in SOEM.* `ReadState` keeps the broadcast shortcut of `ec_readstate` (all present and in
one state without error: no slave is asked by address), because it answers for slaves that have no
address. `Recover` compares the station address and hands it out again; its datagrams are not
lost there, but in `SlaveInfo`, where a board can be left with the temporary address.

*Tasks.* A buffer is a sequence of bytes; a message a sequence of integers, floating point
values being counted in the steps of their fields. `TaskBytes` and `TaskReports` give the bytes for every
class, shift by shift; `Tasks` calls them where the device record does. A slave may be lost at any time,
also during the transfer of its arguments (phases "cut off" and "resumed": the backup is then of
argument bytes, which come back as such). `Tasks` has one slave, whose mutex its steps hold.
`SharedReport` has what this mutex does not protect: the message object, one for all tasks of a
class, filled field by field by the data thread for one slave and by the checker for another, and read
field by field by publish(), which is external.

*Frame port.* `hold` is the frames a thread has under way, `storing` the answer it has taken off
the socket but not yet put into a buffer; every use of a mutex of `nicdrv.c` is a step.

*Set-up of the bus.* One slave per step in each loop of `ecx_config_map_group`. The latch of
receive times is that of an ideal bus: each slave delays a frame by its own time.

*EEPROM.* `call` is a call of SOEM under way, `pc` its place between datagrams; the controller works
by itself (`Execute`, `Refuse`). A word is a pair of tags that say of which board and address it
is. `prog` is the place of `ec_config_init` and the others, slave by slave. `PdoMapping` evaluates the
discovery of sizes in one step, with a set of reads that fail: the other threads do not run yet.

The eepromtool is another program on the same calls: `prog.stage` says whether it writes an image,
reads the first words, or gives an alias with the checksum of what it has read.

*Frames.* In `FramePort` a thread takes an answer from a buffer together with the request it
belongs to; `Takes` says whether the data is copied, by the command (`ethercatbase.c` compares it
in some calls and not in others). In `ProcessData` the cycle is a sequence of datagrams, each with
its address, its length and the byte of the image its data comes from and goes to; `FrameLayout`
gives the places within the frame when the clock goes with the first of them. The overlapped
image (`ec_config_overlap_map_group` with `ec_send_overlap_processdata`) is a choice of `Init`.

*Sync signals.* `DcSync` is one call of `ecx_dcsync0` or `ecx_dcsync01` for one slave, with any of its
five accesses lost. A bus on which they are started exchanges no data in the model: the two
share no state of the master.

*Mailboxes.* Both hold one message; `mbx_cnt` wraps at 7 in the code (`MaxCnt`). `Mailbox` is the
engine below every call: write the request when the slave's mailbox is empty, wait for the answer,
repeat a lost read, take emergencies aside. A protocol is a set of operators on a job, the local
variables of a call: its next request, and what it does with an answer (`ToSend`, `ToReceive`,
`ToEmpty` for one that waits for the request to be taken, `ToDrain` for one that throws away what
is left in the mailbox, `ToEnd`). `MailboxServices` dispatches on the call under way; a sequence of
calls meets the answers that an earlier one did not wait for. The server is external: it answers in
its time, puts a time stamp behind the last fragment of a frame or none, repeats its last answer
when asked, may send an emergency, a frame, or be busy. The data of an object is the number of its bytes and whose they are, except where order decides (files).

*Firmware and bus* are external: the firmware stores and echoes arguments while it sees status
2, reports `SLAVE_READY` when none is missing and afterwards returns the status it received.
Being told the argument length makes it start over. A board that loses its power comes up in
INIT without address.

*History variables.* `hist.pubs` counts publications, `hist.want` is the command that should
be in the buffer, `hist.astray` the arguments whose number a command began with; the `epoch`
carried by frames says after how many publications a frame was written; `given` in `Tasks` is the last command of each task; `disturbed` (`Mailbox`,
`Eeprom`) says that something was lost. No action reads them except for the bound `MaxPubs`,
at which the firmware falls silent.

## 3. What TLC checks

Every run explores its instance completely; the state counts are of distinct states.

**`PdoCycle`** (slaves stay on the bus)

| Run | Instance | Shows |
|---|---|---|
| `cycle_one`, 315,469 states | 1 slave, 3 arguments (two with the same byte), 2 commands, among them ones that begin with the number of an argument and its own or another byte, 5 publications, counter wraps at 6, 1 late callback, fair | `TypeOK`; `ArgsDelivered`: the transfer is over only if the slave holds every argument whose number no command began with; `OnlyCommandsActuate`: a working status never travels with an argument byte or half a command; `LatestCommandKept`; `ExitResetsOnTime`: the exit reset reaches the frame of each working slave, if no callback ran since the shutdown began; `FreshSample`: each publication is of a sample taken after the previous one; `PublishesTelemetry`: never an echo; `ImplementsTransfer`: refinement of `ArgTransfer`; `KeepsPublishing`, `ShutdownCompletes` |
| `cycle_late_command` | a callback still runs when the shutdown begins | `ExitResets` **fails** |

**`SlaveLink`** (slaves are unplugged, replugged, power-cycled, exchanged)

| Run | Instance | Shows |
|---|---|---|
| `link_boards`, 3.5 M states | 1 slave, 2 boards, 2 unpluggings at any moment, boards with old firmware, boards that return at once, a watchdog, serial numbers that cannot be read | `LinkSafe`: only the old board is driven, if its serial number was read; `LostIsQuiet`: once a lost slave was reset, it is neither ready nor configured until the checker has seen it again, whatever the data thread and the callbacks do before the reset, between flag and mutex, and after it |
| `link_recovery`, 0.9 M states | 1 slave, 2 boards, 1 command, fair | `WorkingRecovers`: a working slave that is lost, and plugged in again, publishes again |
| `link_args_drive` | the slave is lost and found during the transfer | `OnlyCommandsActuate` **fails** |

**`Lifecycle`** (the process from `main` to its end; the loops of the threads shortened to what the
end of the process depends on)

| Run | Instance | Shows |
|---|---|---|
| `life`, 3,294 states | every environment (`env`): set-up with any outcome, signals at any time, a slave configured anew | `LifeSafe`: nobody uses the bus or the node after its end; `ActuatorsReset`: the actuators are reset when the process ends, if the signal comes while main spins, the hook holds the node before spin returns and no slave is being configured; `SignalEnds`: a signal ends the process if the set-up brought all slaves to OP |
| `life_wakes` | spin may return before the hook holds the node | `StopResets` **fails** |

`Lifecycle` rests on what rclcpp does: a signal invalidates the context, the hooks run in the
signal thread after that and under a lock on which `rclcpp::shutdown` waits, and `spin` returns
when it is woken and finds the context invalid. A `spin` that throws when it is entered with an
invalid context ends the process like the one that returns: aborted.

**`Tasks`** (the bytes of one slave) and **`SharedReport`** (one message object, two slaves)

| Run | Instance | Shows |
|---|---|---|
| `tasks_one`, 92,087 states | `Tasks`, 50,711 states: the two configuration files of the repository and boards with the other task classes; extreme, small and negative values; losses at any time, also during the transfer. `SharedReport`, 41,376 states: 2 slaves with a motor task each, one with both motors enabled, the other with one; 2 versions of a report; data thread and checker, field by field | `TaskTypeOK`; `ArgsFill`: set-up writes exactly the argument bytes announced; `EachKeepsItsOwn`: the buffer holds for every task what was last written for it, through losses, resets and restored backups; `SlaveSeesCommand`: decoded by the slave's rules, a command is the one given; `DisabledUntilCommand`: after a reset a motor stays disabled until a command; `MessagesRight`: a message is what the slave reported for this very task, or the empty message of a loss (`PublishesItsReport`); what a thread published while the other did not use the object has nothing of another slave in it (`OwnWhenAlone`); and the reset is the last that is meant to be published for a lost slave (`LossIsLast`) |

**SOEM**

| Run | Instance | Shows |
|---|---|---|
| `port`, 2.4 M states | 4 buffers (16 in the code), 2 segments, 5 requests, 2 tries, 1 late answer; the checker's calls are one that compares the command of an answer (LRD) and one that does not (FPRD) | `PortTypeOK`; `NoSharing`: no two answers are awaited in one buffer; `LeaksAreLate`: a buffer is lost only to a late answer; `OwnAnswers`: nobody takes another's answer, after a late one only that of a request long past, and process data never from the answer to another command |
| `bus_setup`, 391,611 states | all wirings of up to 5 slaves; lines of 2 and 3 slaves with every combination of 7 kinds of data; overlapped images for lines of 2; one line with sync signals, every pair of cycles, shifts and times, one access lost | `BusSafe` (types; each slave has its own bits of the image), `ParentsFound`; `ClocksTogether`: the delays are those of the wires, and slaves with the same cycle give their signals at the same moments; `MappingsTrue`: what is copied from an earlier slave is the slave's own; `FramesCarryImage`: every byte is sent and fetched once, from and to the place where its slave has it, in frames whose datagrams and answers are found; `CounterTells`: the working counter is the expected one just if all slaves took part; `FullCounterIsFresh`: then the inputs are those of this cycle |
| `slave_info`, 291,202 states | 2 slaves, 2 kinds of boards, one of them with an 8-byte EEPROM interface; a refused (once, twice, for good), lost or late answer or a slave that leaves; exchanged boards; the eepromtool on either slave; 29 boards, with dictionaries, with drives, and the entries of the configuration table, of which up to two reads fail | `EepromSafe`: no word or byte of one slave is filed under another, and none under another field unless an answer was lost; a slave that was asked for PRE_OP controls its EEPROM; a board recovered is of the same kind, if the numbers by which SOEM compares it tell the two apart (`ToldApart`); an image is written whole, what the tool reads is there, and after it has given an alias the checksum is again that of the content; `FetchEnds`: every call ends unless the slave leaves; `SizesTrue`: the sizes of process data are those the dictionary, the drives or the table say, with and without complete access |
| `sdo`, 946,335 states | every service with data of one and of several mailboxes, 18 to 22 bytes over mailboxes of 21; frames with and without a time stamp, into room for it and not; pairs of short and long SDO calls and the same file twice; 2 faults: lost request or answer, late answer, emergency, refusal, exchanged board; an application that takes Ethernet frames in between; a ring of 2 errors | `SdoSafe`: what is read is the object asked for, of one board, a file in its order, and only the oldest error is ever dropped; `FailsOnlyDisturbed`: a call fails only if it was disturbed from outside; `TransfersWhole`: what ends with success was read or written whole, a frame if its time stamp fits (`StampFits`); `CallEnds`: every call ends, except for an SDO read in segments |

**What fails, and why it is not a run of its own.** The failing runs are the findings of
`PROJECT.json`; each quotes the comment or the document that says otherwise. Other disagreements
and weaknesses appeared as conditions that a property needs. For four of them the modules also have
the property without the condition; TLC finds it violated when it takes the place of the properties
in the named configuration:

* `AllArgsDelivered` (`cycle_one.cfg`). A command that comes between `send_arg` and `transfer_to_slave` and
  begins with the number of an argument byte is stored as that argument, sent back, and taken for the
  confirmation that should "ensure the data is correct" (`src/ecat_node.cpp:182`). `ArgsDelivered` and
  `ArgTransfer` except the bytes whose number a command began with (`astray`): the others are
  delivered although such commands come.
* `LossReported` (`tasks_one.cfg`). The message object of a class is static and used under the mutexes of
  different slaves: the empty message of a lost slave can go out with the report of another one in it,
  though the log says "report message has been reset" (`src/soem_backend.cpp:395`). `OwnWhenAlone` is
  about messages published while no other thread used the object.
* `FramesComplete` (`sdo.cfg`). When the time stamp of a received frame does not fit behind it, in the buffer of
  `ecx_EOErecv` or in the blocks that the first fragment announced, the last fragment is left out and
  the call succeeds (`ethercateoe.c:482` and `604`). `TransfersWhole` is about stamps that fit
  (`StampFits`), for the call and for the hook; the run has frames of both kinds.
* `RecoveredAsConfigured` (`slave_info.cfg` with `Contents <- MCZeroRevision`). SOEM compares a board that comes
  back by three numbers ("check if slave is the same as configured before",
  `ethercatconfig.c:1583`), but a read that fails gives 0, and a command that is lost leaves the words of
  the one before. With a revision of 0 another board can pass for the lost one. `RecoveredIsSame`
  is about boards whose numbers are neither 0 nor other numbers of the new board (`ToldApart`).

The conditions without such a twin:

* A slave whose watchdog expired while it was unplugged reports SAFE_OP with an error, which no
  branch of the checker acknowledges, though the readme promises automatic recovery
  (`src/src/EcatV2_Master/readme.md:20`). `link_recovery` has the watchdog off.
* A slave that leaves a second time between SAFE_OP and OP keeps the flag that `pre_recover` set;
  nobody resets it.
* A board exchanged while its serial number cannot be read, because it is unplugged during the
  transfer in `init`, is taken for the old one (`unread` in `LinkSafe`).
* A slave that does not reach OP keeps the set-up from starting the threads, and the shutdown
  hook then waits for a thread that does not exist (`env.operational` in `SignalEnds`).
* A signal before the hook is registered, and one while the checker configures a slave, end the
  process without a reset (`env.early`, `reconnects` in `ActuatorsReset`).
* `islost` is set before the mutex of the slave is taken: until the reset the data thread may still
  publish an input of before the loss, which `LostIsQuiet` allows.
* The clock measurement is wrong for a slave without a clock that has branches (`NoHiddenBranch`)
  and for a counter that wraps during the latch (`NoWrap`).
* The expected working counter is not that of a complete cycle for slaves of less than a byte or
  of more than the first segment (`WholeBytes`); outputs in three areas get one FMMU too long.
* A segmented SDO read repeats for ever when the slave is gone, an answer is matched only by its
  index, so that a late one is taken for the answer of a later transfer of the same object
  (`stale` in `TransfersWhole`).
* A refused command of the EEPROM is not noticed by the read in two halves, which files the words
  of the command before; a read that was refused once and whose slave then leaves never ends.
* A board whose final address is lost on the way keeps the temporary one and is not tried again
  until another board comes back (`GiveAddress` in `SlaveInfo`).
* A sync manager without process data keeps the length of the EEPROM and is enabled with it.
* The other configuration file, `src/src/EcatV2_Master/src/soem_wrapper/config/config.yaml`, lacks
  fields that the tasks read (those of `src/src/EcatV2_Master/src/soem_bringup/config/config.yaml` are
  complete); set-up throws (phase "thrown" in `Tasks`).
* A power loss so brief that no round of the checker sees it leaves the slave in INIT, which no
  branch handles (`src/src/EcatV2_Master/src/soem/soem/soem/ethercatmain.c:758`).
* Mailbox services. A file write ends with success when the slave is busy before the first packet
  or with the final empty one. A servo drive write announces one fragment too many when its data
  fills the last fragment, looks for the error of a read, and takes any answer between fragments for
  the end; its answers are not matched by IDN. `ecx_EOErecv` refuses a frame that is not a multiple of
  32 bytes in a buffer of its exact size, and a time stamp that does not fit truncates it (above);
  `ecx_EOEgetIp` takes a short DNS name for an error. `ecx_readOE` reports only the last
  subindex. After an emergency the slave is asked to repeat its message, and a repeated
  emergency is reported again; a frame that the hook has taken may be delivered twice. These are the
  conditions of `FailsOnlyDisturbed` and `TransfersWhole`.
* `ecx_LRWDC` sizes its system time by a pointer: it is right where a pointer has eight bytes, as in
  `FrameLayout`.
* Overlapped images. With LRW blocked the inputs are read behind the outputs, where no slave maps
  them (`Sendable`). With more outputs than inputs the answers are copied past the end of the
  image. A slave larger than the first segment is counted once too little in some cuts
  (`WholeBytes`).
* Sync signals. `ecx_dcsync01` divides by `CyclTime0` before a 0 is looked for (`ClockSync` assumes it is
  not 0); none of its accesses is checked, so that a lost read of the system time starts the signals in
  the past while `ec_slave[]` says they are active (`lostAccess` in `SyncsTogether`).
* The eepromtool ignores a failed read: the checksum written with an alias is then that of zeros
  (`disturbed` in `AliasChecked`).
* A slave whose EEPROM names no mailbox address gets a default one in its sync managers, but the
  requests still go to the address that was read
  (`src/src/EcatV2_Master/src/soem/soem/soem/ethercatconfig.c:573`); the boards of the models name theirs.

**Bounds, and why they are enough.** One slave suffices where the property is about one device:
slaves share nothing but the thread's position, the frame and the checker, and the proofs cover any
number. Three arguments give a first, an inner and a last one; two equal neighbouring bytes make
an echo without its index ambiguous. Five publications take the counter past its wrap when it
wraps at 6 instead of 250 (`SeqMax`); the code needs at least two values between its wraps and so
does `SeqAssumption`. Two unpluggings at any moment meet every step of the handshake and of the
round, also during a recovery. Bounds in guards: `MaxPubs` (firmware), `MaxCmds` (callbacks),
`MaxFaults` (unplugging, faults of the bus), `LateCallbacks`, `MaxRequests`, `MaxLate`, `MaxCalls`,
`MaxAnswers`, `ArgBound`; none stops the threads. `Tasks` sends only the first argument (`ArgBound`): all go
through the same three bytes, and `PdoCycle` has their order. Two slaves, two motors and two
versions of a report in `SharedReport` tell apart what can be mixed up: the slave, the field and the
moment. Four frame buffers for three frames under way are fewer than the code has, so that the indexes come round within five requests. Three mailbox
counters wrap within two transfers. A mailbox of 21 bytes holds 5 bytes of a first SDO answer and 12 of
a segment, 9 of a file or a drive, 11 of a frame and four words of a list: data of 20 and 18 bytes need
a partly and an exactly filled last message. After a frame of 20 bytes there is always room for the stamp, after
one of 22 only in 28 bytes, not in 24. Segments of 8 bytes instead of 1486 (`EC_MAXLRWDATA`) are
cut within slaves and between them. System times 0, 5 and 11 lie before, on and after whole
multiples of the cycles 3 and 4. In `slave_info` one fault, which may be a row of refusals, meets
every datagram of set-up and recovery; boards are exchanged only before it. Two byte addresses, one
within and one beyond the first four bytes of a read, tell the widths of the cache apart.

**Timing.** The models are asynchronous except for two assumptions of `SlaveLink`, both constants.
`SlowLinkUp`: a board that lost its link is back only after the checker has noticed (the link
negotiation takes longer than its period of 100 ms). `PauseFrames`: two frames at least come
back while the checker sleeps. `link_boards` does without both; the fair run needs both.

**Fairness.** Weak fairness for each step of main, of the data thread, of the checker and of the
shutdown hook (threads of one process), for the end of a callback that has begun, and for the
firmware. Strong fairness for a frame that reaches all connected slaves and comes back: single
frames may be lost, not all. Strong fairness for `ReachOperational`: a slave that is asked for OP
in round after round gets there. `MailboxServices`: weak fairness for the calling thread and for its
time-outs, none for the slave. `SlaveInfo`: weak fairness for the calling thread and for
a controller, which ends or refuses a command some time. No fairness for commands, faults, the
return of a board or the start of a shutdown.

## 4. What is proved

All safety properties of `PdoCycle` and of `SlaveLink`, for every number of slaves and boards, every
argument buffer, every set of commands and every bound; those of `Lifecycle`; one of `Tasks` for every
configuration; all of `FramePort` for any number of buffers, frames of a cycle, requests and
repetitions; one of `MailboxServices` for any calls of any sizes, and the other two for its SDO calls; and the safety of the EEPROMs in
`SlaveInfo` for any number of slaves, any contents and any number of faults:

| Theorem | Assumes | States |
|---|---|---|
| `TypeCorrect` | | `[]TypeOK`; the index of the argument being sent stays within the buffer |
| `ArgumentsDelivered` | | `[]ArgsDelivered` |
| `TransferImplemented` | | `ImplementsTransfer`, the refinement of `ArgTransfer` |
| `CommandsActuate`, `CommandsKept` | | `[]OnlyCommandsActuate`, `[]LatestCommandKept` |
| `SamplesFresh`, `TelemetryPublished` | | `FreshSample`, `PublishesTelemetry` |
| `ExitResetsAll` | | `[]ExitResetsOnTime` |
| `EachKeepsOwn` | `BlocksApart` | `[]EachKeepsItsOwn` |
| `PortTypes`, `SharesNoBuffer`, `LeaksOnlyToTheLate` | `Room` | `[]PortTypeOK`, `[]NoSharing`, `[]LeaksAreLate` |
| `OnTimeEachItsOwn` | `Room` | `[]OwnOnTime`: while no answer was late, each thread takes its own |
| `LateAnswersAreFar` | `Room` | `[]OwnAnswers` |
| `OnlyKnownBoardsDriven` | | `[]LinkSafe` |
| `LostSlavesAreQuiet` | | `LostIsQuiet`, an action property |
| `NothingUsedAfterItsEnd`, `ResetBeforeTheEnd` | | `[]LifeSafe`, `[]ActuatorsReset` |
| `ReadsOneObject` | | `[]SdoSafe` |
| `SdoTransfers` | | for calls of `read` and `write`: `[]FailsOnlyDisturbed`, and what ends with success and no stale answer is `ReadWhole`, or `WrittenWhole` |
| `EepromsSafe` | | `[]EepromSafe` |

`BlocksApart` says of a configuration
that the blocks which the tasks write lie apart and within the buffer; `MCTasks` has the
repository's configurations, which satisfy it. `Room` says that the frames of a cycle and the answers
that are ever late (`MaxLate`, which bounds them in the model) are together fewer than the buffers.
Without it the search of `ecx_getindex` may find no free buffer and takes one in use: buffers lost
to late answers are never freed, so that a port has only so many of them to lose.
`ArgsDelivered`, `ArgTransfer` and `RecoveredIsSame` have their conditions in themselves: `astray`, the
arguments whose number a command (or an initial value, or a restored backup) began with during
the transfer, and `ToldApart`. Any commands and any boards are allowed.
`ExitResetsOnTime` has its condition, that no
callback ran since the shutdown began, in the property itself; `cycle_late_command` shows what
happens without. Everything else rests only on the assumptions about the constants in the modules
that declare them, of which three have content: `SeqAssumption`, the latency counter has at least two
values between its wraps; `InfoAssumption`, an EEPROM has at least its header, and an image for the
eepromtool is one piece and fits the EEPROM; and `ServicesAssumption`, a mailbox has room for more than the headers of an SDO
(16 bytes), as every board's has, though the code does not look: in a smaller one lists and drive data
would be cut into no pieces.

None of the properties of `PdoCycle` is inductive. `PdoCycleInv` strengthens them in four parts:

* `TransferInv`. The slave stores whatever names an argument, so every word on its way to the
  slave must be harmless: it names no argument, or one with its right byte, or one that has gone astray. An echo that names an
  argument, however old, is evidence that the slave stores it. So a byte that was confirmed is
  stored, and stays so, because only right bytes arrive later, unless it goes astray: a byte may do so
  after it was stored, and once it has nothing is said of it any more.
* `CommandInv`. A working status (3 and above) is seen anywhere, in a frame or in a report, only
  after the master has started the slave; so before that no visit publishes, marks the slave
  ready or moves its status on. The visit that starts the slave loads the initial value in the
  same step. From then on only callbacks write the buffer, and a frame is assembled under the
  mutex, between two commands.
* `FreshInv`, given `CommandInv`. Each frame carries, as history, the number of publications made
  when it was written (its epoch). Along the way master, slave, master the epochs are ordered and the
  oldest is at most one behind; a working status of the current epoch is the current one, of the
  epoch before it is its predecessor. A visit publishes if the slave's status equals the
  current one; were it one epoch old, the status would be its own successor, which
  `SeqAssumption` excludes.
* `ExitInv`, given `CommandInv`. The data thread has reset the slaves it has passed, first half and
  second half, and nobody writes commands any more; a slave that starts later starts with the
  initial value. A working slave has been sent its arguments, hence is not skipped.

`EachKeepsItsOwn` needs two facts beside it: buffer and backup have their length, and the backup
holds for each task what `saved` says. A write touches one block only (`PutKeeps`), and the reset
of a loss goes task by task (`Inside`, `PutKeeps`).

`NoSharing` needs a free buffer for whoever asks, hence few leaked ones, and `LeaksAreLate` alone is not
inductive: it says nothing of the frames still under way, each of which may yet fill a buffer that
nobody holds. `PortInv` counts them (`Counted`): the frames on the wire or being stored, and the
leaked buffers, are no more than the late answers and the awaited indexes together, an index being
awaited when a frame for its holder is under way and the holder has not given up. Sending adds one to both sides;
an answer taken, stored or lost removes a frame and at most one awaited index; giving up or
sending again removes an awaited index only if its frame is under way, and then the answer is late. As an
awaited index has a frame of its own under way, what remains is `LeaksAreLate`, and with `Room` a
buffer is free. When no answer was late the same count leaves no frame that a thread does not hold
(`EveryFrameHeld`), which gives `OnTimeEachItsOwn`.

`OwnAnswers` also says how far apart the requests are when a late answer is taken for another's. A
thread tells frames apart by their indexes, so this is the number of requests after which the search of
`ecx_getindex` comes back to an index. `Distances` keeps it: for every frame under way or held,
the requests sent since, with the free buffers that the search finds before its index, make up for the
buffers neither held nor lost when it was sent (`Far`). A request takes the first free buffer, so it
adds one and removes at most one; an answer stored in a buffer that nobody holds takes a free one
away, but loses it, so that less is owed. When the index is given out again nothing is free before it, and
the frame still under way is one that nobody holds; by the count it is late beyond the buffers lost
(`StrayIsLate`), and that makes the distance.

`LinkSafe` says that a board which was exchanged is not driven, but the checker compares serial numbers
only in a reconfiguration. `LinkInv` says why that is in time. `BoardChecked`: an exchanged board that
nobody has noticed has just come up (`Early`), and has seen no outputs since; a rejected one is out of
OP. `CheckerKnows`: what a visit of the checker has read or done before a wait still holds after it,
though boards come and go meanwhile: the reconfiguration begins with a slave in INIT, `init` runs between
PRE_OP and SAFE_OP, and SAFE_OP is asked of an unnoticed board only at an address it does not have. The
states that the round has read but not yet visited need a conjunct of their own (`NotVisited`). For
`LostIsQuiet` the same invariant is used (at `reset_lost` the flag is set and nobody else clears it; at `found`
it is cleared, though the state is not yet recovered), and lemmas that no visit of the data thread makes a slave
that is not configured ready again.

`Lifecycle` is four threads that wait for one another. `LifeInv` says who owns the node
(`OwnersKnown`) and what the hook has joined when (`JoinedInOrder`). `ActuatorsReset` needs more,
but only where its condition holds: `OrderlyInv` says that the hook has the node before main gets on
(`HookInTime`), and that the threads are stopped only after the reset was written, which the data
thread sends before it looks whether it was stopped (`ResetIsSent`).

`SdoSafe` needs an invariant for each thing it relates. `ErrorInv`: the ring lists what was reported and
not read, the oldest dropped (`Holds`; the remainders of the ring are turned into cases once, in lemma
`Ring`). `JobInv` and `MailInv`: whatever the service, a job goes on in one of few ways (`GoesOn`, shown
for each service), and what is under way is of the board that is there, because an exchange empties the
mailboxes (`AnswerOK`). `ReadInv`: a segment has neither object nor serial number, so a read in
segments might go on with another board. It cannot, as long as a board only continues a read that was
begun with it: `ReadGoesOn` says when a segment may still come, namely when the slave is in a read,
a segment is among its answers, or the first request of a read is before it; and in each of these cases
the pieces so far are of this board. `FileInv`: the pieces of a file are as many as the number of the
packet last taken. TLC checked the invariant in the instance of `sdo` and in one in which every call may
follow every other before it was proved.

`SdoTransfers` speaks of how a call ends, so its invariant must say at each step where the call stands.
`SdoInv` does, as long as no answer was left over from before (`stale`):

* `Sending`: nothing that is due from the slave answers an SDO (`NoAnswer`): it is an emergency or a frame
  that the hook takes, or the call is disturbed. `Waiting`: the request is still in the mailbox, or exactly
  one answer to it is due (`OneAnswerDue`), or the call is disturbed. `Finished`: the property itself.
* `InStep`, for an undisturbed call: the slave's server is in this transfer, at the byte the job has come to
  and with the toggle bit of the next segment. For a disturbed one a weaker fact is needed, because it may
  still succeed: a slave that is in a read of segments is in this one (`Linked`), or it answers "abort";
  and a write is only stored if as many bytes came as it has.
* A request must not be taken for the repetition of the one before. `CounterInv`: the requests since the
  counter last taken are fewer than there are counters, unless as many in a row did not reach the slave,
  which is the disturbance `Wrapped`. It speaks of all services, since they share the counter.
* `SdoForm`: the request in the mailbox is that of the job as it stands (`IsCurrent`), also when it is sent
  again.

The steps of the messages are treated once for all (`QueueStep`: what comes brings no answer; `MoreMoves`:
one answer more), and then each action of master and slave has a lemma. TLC checked these invariants in the
instance of `sdo`, in one in which every call may follow every other, and in one with two counters, before
they were proved.

`EepromSafe` relates what the master keeps to what was in the EEPROM when it was read, over calls that are
in two halves: `ec_config_init` issues a read for every slave and collects the words in the next round,
when it already issues the following field. `InfoInv` follows a word along this way, in named parts:

* `ReadInv`, whatever is lost. The data register of a controller holds a window of its own EEPROM, and
  before the sections are read only one of the header (`ReadAt`); of an exchanged board without its
  address only one of its identity. So a word that is filed wrongly is still the slave's own.
* `OwnerInv`. The flag `eep_pdi` says who has the EEPROM of a slave that nothing was lost for
  (`FlagTells`), and whoever was asked for PRE_OP was given his back before (`AskedFits`).
* `CallInv`. A controller that the master has and that is not busy obeys: so from the command to the
  data, a call of such a slave has its word in the register, or is waiting for it (`HasRead`). A refusal
  sets `nack`, which a call sees when it waits for the answer; the read in two halves does not look, so
  that a refusal counts as a disturbance there.
* `WordInv`. Between issue and collection the field is outstanding (`Outstanding`): the register will hold
  it, and nobody tells this controller anything else meanwhile. What was collected is filed (`Filed`).
* `ByteInv`. The bytes of the cache are those of `esislave`, because the cache is cleared when another
  slave is asked; that a failed read puts zeros there is in `BytesTrue` itself.
* `ToolInv`. The tool's words before the present one are written (`Flashes`) or read (`Dumps`), and
  nothing but the tool keeps a controller busy (`BusyAwaited`). The checksum is of the words read, and
  these are the words stored except for the alias (`Aliases`).

`SameInv` is about boards that the numbers tell apart (`ReadsRight`): after each successful comparison the board that is
there has the number the master knows, and a window equal to the right number can only be the window of
that number. It uses `ReadInv`, that a board without address was asked for nothing but its identity.
TLC checked these invariants in the instance of `slave_info` before they were proved.

The proofs about the device have one lemma per method (what a visit of the loop can do:
`SendNextTransfers`, `WaitingVisit`, `WorkingVisit`, `ProcessVisit`), one per action that disturbs
the invariant, and one that says when a slave is left alone; the lemma `Next...` puts them together
action by action. The limits 255 and 65535 stay folded behind `MaxByte` and `MaxNumber`, with
lemma `Bounds` for what is used of them.

Only model-checked:

* Liveness: `KeepsPublishing`, `ShutdownCompletes`, `WorkingRecovers`, `SignalEnds`, `FetchEnds`, `CallEnds`.
  It is out of the prover's reach.
* `TaskTypeOK`, `ArgsFill`, `SlaveSeesCommand`, `DisabledUntilCommand`, `PublishesItsReport`: bytes are put together
  and taken apart by folds over sequences (`FlattenSeq`, `FoldLeft`), about which nothing can be shown
  without induction.
* `OwnWhenAlone`, `LossIsLast` (parts of `MessagesRight`): a small model of two threads and fields that do not depend
  on one another.
* `IoMap`, `Topology`, `ProcessData`, `BusSetup`, `PdoMapping` (with `SizesTrue`): recursive operators and folds, for the same reason.
* `FailsOnlyDisturbed`, `TransfersWhole` for the services other than SDO, and the hook's frames: they relate
  a whole job to the slave's server, protocol by protocol, and each needs an invariant like `SdoInv` of its own.

## 5. Not modelled

* **Other platforms.** `oshw/` and `osal/` for Windows, macOS, VxWorks, RTK, RTEMS, INtime and ERIKA,
  with the pcap headers among them, are about 40 % of SOEM's lines; this program runs on Linux. So do
  the macros and wrappers with which `ethercat*.c` repeat each function without its context
  argument. These two account for most of the code that the map leaves out.
* **The second interface** (`ecx_init_redundant`, the redundant half of `nicdrv.c`): the program opens one.
* **Names and texts**: what SII strings, object names and error texts (`ethercatprint.c`) say, and logging.
  That the bytes of a section are read, for which slave and from where, is in `SlaveInfo`.
* **What nothing depends on**: what the FMMU functions and the bus current of the EEPROM say, the registers written
  with the measured delays.
* **File formats** of the eepromtool (binary, Intel hex) and the other test programs of SOEM.
* **YAML, ROS and Simulink**: the YAML library, launch files, message definitions and Simulink models
  hold no state of the master. What rclcpp does at shutdown is external in `Lifecycle`.
* **System settings** (`utils/sys_utils`, real-time priority, CPU affinity): the models assume no
  schedule beyond fairness.
* **Configurations with `sdo_len` = 0, or without a task at offset 0**, in `PdoCycle`: `ArgLen` is at
  least 1, which the tool that writes the configurations ensures. `Tasks` has tasks at other offsets.
* **Several groups of slaves and forced byte alignment** in `IoMap`: the program maps group 0.
* **Hardware**: frame checksums, the link layer, the slave controllers beyond what the master
  sees of them.

## 6. Plan

Done: the cycle with its refinement and proofs; loss and recovery with theirs; the life of the process
with its proofs; the tasks byte by byte; the frame port with its proofs; set-up of the bus; EEPROMs and
sizes, with the proofs of the EEPROMs; mailbox services, with one property proved for all of them and the
other two for SDO.

Worth doing next, in this order:

1. `FailsOnlyDisturbed` and `TransfersWhole` proved for files and drives, with `CounterInv` and the lemmas
   on messages as they are.
2. `SlaveLink` with two slaves, one of them steady, to see that the recovery of one slave does not
   delay the other beyond a round of the checker.
3. The system time in the cycle (`FRMW`) with drifting clocks, together with `ClockSync`.
4. `FrameLayout!WellFormed` for any number of datagrams, by recursion on the frame, when the prover can
   instantiate the induction theorems.
