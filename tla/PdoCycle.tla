------------------------------ MODULE PdoCycle ------------------------------
(***************************************************************************)
(* The process-data cycle of EthercatNode on a bus whose slaves stay       *)
(* connected: the data thread, the ROS callbacks that write actuator       *)
(* commands, the shutdown hook, the exchange of the cyclic frame, and the  *)
(* firmware of the slaves as far as the master relies on it.               *)
(*                                                                         *)
(* The data thread runs the loop receive, process, exit reset, transfer,   *)
(* send; each phase visits the slaves in the order of slave_devices and    *)
(* takes the slave's mutex for each of them, except the exit reset, which  *)
(* takes none.  A ROS callback holds the mutex of its slave while it       *)
(* writes a command in two halves.                                         *)
(***************************************************************************)
EXTENDS SlaveDevice

CONSTANTS
    SlaveCount,     \* ec_slavecount
    CmdWords,       \* the words a command may put into the first three bytes
    Telemetry,      \* the words a working slave may report in them
    MaxPubs,        \* bound: the firmware falls silent after so many publications
    MaxCmds,        \* bound: the number of commands received
    LateCallbacks   \* callbacks the executor may still run once shutdown has begun

ASSUME CycleAssumption ==
    /\ SlaveCount \in Nat \ {0}
    /\ CmdWords \subseteq Word
    /\ Telemetry \subseteq Word
    /\ MaxPubs \in Nat
    /\ MaxCmds \in Nat
    /\ LateCallbacks \in Nat

Slaves == 1 .. SlaveCount

VARIABLES
    dev,           \* slave_devices
    out,           \* ec_slave[].outputs: the outputs of the next frame
    inp,           \* ec_slave[].inputs: the inputs of the last frame that came back
    fw,            \* the slaves: receive and transmit memory, stored arguments
    phase,         \* where the data thread is ...
    cur,           \* ... and at which slave
    ros,           \* the command callback in progress, or NoCall
    cmds,          \* how many commands were received (bounded by MaxCmds)
    late,          \* how many callbacks have started since shutdown began
    running, exiting, exiting_reset_called,
    hist           \* history: what was published, what was commanded, which arguments
                   \* a command stood in for

threadVars == <<phase, cur>>
exitVars == <<running, exiting, exiting_reset_called>>
rosVars == <<ros, cmds, late>>
vars == <<dev, out, inp, fw, threadVars, rosVars, exitVars, hist>>

NoCall == [slave |-> 0, word |-> ZeroWord]
NoByte == 256

\* A frame is the status byte and the first three data bytes of one slave.  The
\* epoch is history: how many samples the master had published when it wrote the
\* frame, carried along by the firmware to the sample it takes on reading it.
Frame == [status : Byte, word : Word, epoch : Nat]
EmptyFrame == [status |-> 0, word |-> ZeroWord, epoch |-> 0]

\* The firmware of a slave that has been told the number of its arguments.
FreshFirmware == [ rx |-> EmptyFrame, tx |-> [EmptyFrame EXCEPT !.status = SLAVE_INITIALIZING],
                   store |-> [i \in 1 .. ArgLen |-> NoByte] ]

\* What is recorded about a slave beside the state of the program.
History == [pubs : Nat, seen : Nat, want : Word, astray : SUBSET (1 .. ArgLen)]

Phases == {"receive", "process", "exit", "exit_rest", "transfer", "send", "cleanup", "done"}

Locked(s) == ros.slave = s

Init ==
    /\ dev = [s \in Slaves |-> ConfiguredDevice]
    /\ out = [s \in Slaves |-> EmptyFrame]
    /\ inp = [s \in Slaves |-> EmptyFrame]
    /\ fw = [s \in Slaves |-> FreshFirmware]
    /\ phase = "receive" /\ cur = 1
    /\ ros = NoCall /\ cmds = 0 /\ late = 0
    /\ running = TRUE /\ exiting = FALSE /\ exiting_reset_called = FALSE
    /\ hist = [s \in Slaves |-> [pubs |-> 0, seen |-> 0, want |-> InitWord, astray |-> {}]]

-----------------------------------------------------------------------------
(* The data thread.                                                         *)

\* The loop "for each slave" of a phase: on to the next slave, or after the last
\* one to the next phase.
Advance_OffByOne(next) ==      \* mutant: one slave too many
    IF cur <= SlaveCount
    THEN cur' = cur + 1 /\ UNCHANGED phase
    ELSE cur' = 1 /\ phase' = next
Advance(next) ==
    IF cur < SlaveCount
    THEN cur' = cur + 1 /\ UNCHANGED phase
    ELSE cur' = 1 /\ phase' = next

\* receive_from_slave, under the mutex.
Receive(s) ==
    /\ phase = "receive" /\ cur = s /\ ~Locked(s)
    /\ dev' = [dev EXCEPT ![s].slave_status = inp[s].status, ![s].s2m_buf = inp[s].word]
    /\ hist' = [hist EXCEPT ![s].seen = inp[s].epoch]
    /\ Advance("process")
    /\ UNCHANGED <<out, inp, fw, rosVars, exitVars>>

confirm_ready_Early(d) ==      \* mutant: does not wait for the confirmation
    IF d.slave_status >= SLAVE_READY THEN [d EXCEPT !.ready = TRUE] ELSE d
confirm_ready(d) ==
    IF d.slave_status = SLAVE_CONFIRM_READY THEN [d EXCEPT !.ready = TRUE] ELSE d

send_next_arg(d) ==
    IF d.master_status = MASTER_SENDING_ARGUMENTS /\ ~d.arg_sent THEN send_arg(d) ELSE d

\* The slave reports for the first time that it has all its arguments.
Starts(d) ==
    /\ ~d.ready /\ d.arg_sent
    /\ d.slave_status = SLAVE_READY
    /\ d.master_status # MASTER_READY

\* From here on the buffer holds commands: the initial values, or after a
\* reconnection what was saved when the slave was lost.
start_working_Unloaded(d) ==   \* mutant: the buffer is not loaded
    IF Starts(d) THEN [d EXCEPT !.master_status = MASTER_READY] ELSE d
start_working_Reloads(d) ==    \* mutant: loads in every cycle until the slave confirms
    IF ~d.ready /\ d.arg_sent /\ d.slave_status = SLAVE_READY
    THEN [write_init_values(d) EXCEPT !.master_status = MASTER_READY] ELSE d
start_working(d) ==
    LET loaded == IF d.reconnected = 0 THEN write_init_values(d)
                                       ELSE recover_master_to_slave_buf(d)
    IN  IF Starts(d) THEN [loaded EXCEPT !.master_status = MASTER_READY] ELSE d

Configured(d) == d.ros_conf /\ d.ecat_conf

handshake(d) ==
    IF Configured(d) THEN start_working(send_next_arg(confirm_ready(d))) ELSE d

\* Does this visit of the slave publish a sample, does it start the actuators?
Publishes(d) == Configured(d) /\ handshake(d).ready /\ Answered(handshake(d))
StartsNow(d) == Configured(d) /\ Starts(send_next_arg(confirm_ready(d)))

\* The visit of one slave in the processing loop, under the mutex.
Process(s) ==
    /\ phase = "process" /\ cur = s /\ ~Locked(s)
    /\ dev' = [dev EXCEPT ![s] = IF Publishes(@) THEN process_pdo(handshake(@)) ELSE handshake(@)]
    /\ hist' = [hist EXCEPT ![s].pubs = IF Publishes(dev[s]) THEN @ + 1 ELSE @,
                            ![s].want = IF StartsNow(dev[s]) /\ dev[s].reconnected = 0
                                        THEN InitWord ELSE @]
    /\ Advance("exit")
    /\ UNCHANGED <<out, inp, fw, rosVars, exitVars>>

\* History: to a slave that is not started, the buffer's number tells which argument byte
\* follows, whoever wrote it there.  These arguments something other than send_arg named.
NamesArg(w) == w[1] \in 1 .. ArgLen
Astray(s, w) ==
    IF dev[s].master_status < MASTER_READY /\ NamesArg(w)
    THEN hist[s].astray \cup {w[1]} ELSE hist[s].astray

ResetDue == exiting /\ ~exiting_reset_called

SkipExitReset ==
    /\ phase = "exit" /\ cur = 1 /\ ~ResetDue
    /\ phase' = "transfer"
    /\ UNCHANGED <<dev, out, inp, fw, cur, rosVars, exitVars, hist>>

\* Mutant: only slaves that have confirmed are reset.
ToBeReset_Ready(d) == d.ready
ToBeReset(d) == d.arg_sent

\* The exit reset writes the initial values without the mutex, so a command
\* callback may run between its two halves, or it between those of the callback.
ExitReset(s) ==
    /\ phase = "exit" /\ cur = s /\ (cur > 1 \/ ResetDue)
    /\ IF ToBeReset(dev[s])
       THEN /\ dev' = [dev EXCEPT ![s].m2s_buf = <<InitWord[1], @[2]>>]
            /\ hist' = [hist EXCEPT ![s].astray = Astray(s, InitWord)]
       ELSE UNCHANGED <<dev, hist>>
    /\ phase' = "exit_rest"
    /\ UNCHANGED <<out, inp, fw, cur, rosVars, exitVars>>

ExitResetRest(s) ==
    /\ phase = "exit_rest" /\ cur = s
    /\ IF ToBeReset(dev[s])
       THEN /\ dev' = [dev EXCEPT ![s].m2s_buf = <<@[1], InitWord[2]>>]
            /\ hist' = [hist EXCEPT ![s].want = InitWord]
       ELSE UNCHANGED <<dev, hist>>
    /\ cur' = IF cur < SlaveCount THEN cur + 1 ELSE 1
    /\ phase' = IF cur < SlaveCount THEN "exit" ELSE "transfer"
    /\ exiting_reset_called' = (cur = SlaveCount)
    /\ UNCHANGED <<out, inp, fw, rosVars, running, exiting>>

\* transfer_to_slave, under the mutex.
Transfer(s) ==
    /\ phase = "transfer" /\ cur = s /\ ~Locked(s)
    /\ out' = [out EXCEPT ![s] = [ status |-> dev[s].master_status,
                                   word |-> dev[s].m2s_buf,
                                   epoch |-> hist[s].pubs ]]
    /\ Advance("send")
    /\ UNCHANGED <<dev, inp, fw, rosVars, exitVars, hist>>

\* Mutant: the loop ends as soon as a shutdown is requested.
LoopsOn_Impatient == ~exiting
LoopsOn == running

\* ec_send_processdata and the ec_receive_processdata at the top of the loop: one
\* frame passes the slaves it reaches, leaves its outputs there and picks up their
\* inputs; if it comes back in time the inputs replace those of the last frame.
Exchange(writes, reads, back) ==
    /\ phase = "send"
    /\ fw' = [s \in Slaves |-> IF s \in writes THEN [fw[s] EXCEPT !.rx = out[s]] ELSE fw[s]]
    /\ inp' = [s \in Slaves |-> IF back /\ s \in reads THEN fw[s].tx ELSE inp[s]]
    /\ phase' = IF LoopsOn THEN "receive" ELSE "cleanup"
    /\ UNCHANGED <<dev, out, cur, rosVars, exitVars, hist>>

\* After the loop: the publishers and the subscriber of each slave are dropped.
Cleanup(s) ==
    /\ phase = "cleanup" /\ cur = s /\ ~Locked(s)
    /\ Advance("done")
    /\ UNCHANGED <<dev, out, inp, fw, rosVars, exitVars, hist>>

Subscribed(s) == phase # "done" /\ (phase = "cleanup" => s >= cur)

DataThread(s) ==
    Receive(s) \/ Process(s) \/ ExitReset(s) \/ ExitResetRest(s) \/ Transfer(s) \/ Cleanup(s)

-----------------------------------------------------------------------------
(* The executor: on_command of the task mapped at offset 0.                 *)

\* Once the context is shut down the spin loop ends, but a callback that is being
\* executed, or was just taken from the wait set, still completes.
CommandBegin(s, w) ==
    /\ ros = NoCall /\ Subscribed(s)
    /\ cmds < MaxCmds
    /\ exiting => late < LateCallbacks
    /\ ros' = [slave |-> s, word |-> w]
    /\ cmds' = cmds + 1
    /\ late' = IF exiting THEN late + 1 ELSE late
    /\ dev' = [dev EXCEPT ![s].m2s_buf = <<w[1], @[2]>>]
    /\ hist' = [hist EXCEPT ![s].astray = Astray(s, w)]
    /\ UNCHANGED <<out, inp, fw, threadVars, exitVars>>

CommandEnd(s) ==
    /\ Locked(s)
    /\ ros' = NoCall
    /\ dev' = [dev EXCEPT ![s].m2s_buf = <<@[1], ros.word[2]>>]
    /\ hist' = [hist EXCEPT ![s].want = ros.word]
    /\ UNCHANGED <<out, inp, fw, threadVars, cmds, late, exitVars>>

-----------------------------------------------------------------------------
(* on_shutdown: request the reset, wait for it, stop the threads.           *)

BeginShutdown ==
    /\ ~exiting
    /\ ros = NoCall \/ late < LateCallbacks
    /\ exiting' = TRUE
    /\ late' = IF ros = NoCall THEN late ELSE late + 1
    /\ UNCHANGED <<dev, out, inp, fw, threadVars, ros, cmds, running, exiting_reset_called, hist>>

StopThreads ==
    /\ exiting /\ exiting_reset_called /\ running
    /\ running' = FALSE
    /\ UNCHANGED <<dev, out, inp, fw, threadVars, rosVars, exiting, exiting_reset_called, hist>>

-----------------------------------------------------------------------------
(* The firmware (not part of the repository): it reads the last outputs and *)
(* prepares the next inputs at its own pace.                                *)

AllStored(store) == \A i \in 1 .. ArgLen : store[i] # NoByte

\* While the master sends arguments: store the byte and echo the word, and report
\* ready when no argument is missing.
FwTakeArg(s) ==
    /\ hist[s].pubs < MaxPubs
    /\ fw[s].rx.status = MASTER_SENDING_ARGUMENTS
    /\ LET w == fw[s].rx.word
           store == [i \in 1 .. ArgLen |-> IF i = w[1] THEN w[2] ELSE fw[s].store[i]]
       IN  fw' = [fw EXCEPT ![s].store = store,
                            ![s].tx = [ status |-> IF AllStored(store) THEN SLAVE_READY
                                                                      ELSE SLAVE_INITIALIZING,
                                        word |-> w, epoch |-> fw[s].rx.epoch ]]
    /\ UNCHANGED <<dev, out, inp, threadVars, rosVars, exitVars, hist>>

\* Once the master is ready: the slave drives its actuators with the word received,
\* reports telemetry and sends the status back.
FwWork(s) ==
    /\ hist[s].pubs < MaxPubs
    /\ fw[s].rx.status >= MASTER_READY /\ AllStored(fw[s].store)
    /\ \E t \in Telemetry :
           fw' = [fw EXCEPT ![s].tx = [ status |-> fw[s].rx.status, word |-> t,
                                        epoch |-> fw[s].rx.epoch ]]
    /\ UNCHANGED <<dev, out, inp, threadVars, rosVars, exitVars, hist>>

-----------------------------------------------------------------------------
\* A slave the frame does not reach neither takes nor gives data.
Bus == \E reached \in SUBSET Slaves, back \in BOOLEAN : Exchange(reached, reached, back)

Next ==
    \/ \E s \in Slaves : DataThread(s)
    \/ SkipExitReset
    \/ Bus
    \/ \E s \in Slaves : CommandEnd(s) \/ \E w \in CmdWords : CommandBegin(s, w)
    \/ BeginShutdown
    \/ StopThreads
    \/ \E s \in Slaves : FwTakeArg(s) \/ FwWork(s)

Spec == Init /\ [][Next]_vars

\* The threads of the process are scheduled, the firmware runs, and a connected bus
\* does not lose every frame.  Nobody has to send a command or shut the system down.
Fairness ==
    /\ \A s \in Slaves : /\ WF_vars(DataThread(s)) /\ WF_vars(CommandEnd(s))
                         /\ WF_vars(FwTakeArg(s)) /\ WF_vars(FwWork(s))
    /\ WF_vars(SkipExitReset) /\ WF_vars(StopThreads)
    /\ SF_vars(Exchange(Slaves, Slaves, TRUE))

FairSpec == Spec /\ Fairness

-----------------------------------------------------------------------------
(* Properties.                                                              *)

TypeOK ==
    /\ dev \in [Slaves -> Device]
    /\ out \in [Slaves -> Frame]
    /\ inp \in [Slaves -> Frame]
    /\ fw \in [Slaves -> [rx : Frame, tx : Frame, store : [1 .. ArgLen -> Byte \cup {NoByte}]]]
    /\ phase \in Phases /\ cur \in Slaves
    /\ ros \in [slave : Slaves, word : CmdWords] \cup {NoCall}
    /\ cmds \in Nat /\ late \in Nat
    /\ running \in BOOLEAN /\ exiting \in BOOLEAN /\ exiting_reset_called \in BOOLEAN
    /\ hist \in [Slaves -> History]

\* When the master considers the transfer finished (is_arg_sent_), the slave holds every
\* argument byte, unaltered, whatever frames were lost and whatever commands arrived in
\* between -- except the bytes whose number a command began with (on_command does not ask
\* whether the slave is still being sent its arguments): of those nothing is promised, and
\* the others are not drawn in.
ArgsDelivered ==
    \A s \in Slaves : dev[s].arg_sent =>
        \A i \in (1 .. ArgLen) \ hist[s].astray : fw[s].store[i] = Arg[i]

\* "master will send arg bytes one by one, slave will send what it receives back to the
\* master, to ensure the data is correct": so it would be if no command came in between.
AllArgsDelivered ==
    \A s \in Slaves : dev[s].arg_sent => fw[s].store = Arg

\* The slave never drives its actuators with an argument byte, nor with a half-written
\* command: a frame that carries a working status carries the initial value or a
\* command as it was received (until shutdown begins).
OnlyCommandsActuate ==
    ~exiting => \A s \in Slaves :
        fw[s].rx.status >= MASTER_READY => fw[s].rx.word \in CmdWords \cup {InitWord}

\* A command the callback accepted after the slave started is not lost: the buffer
\* holds the latest one, or the initial value if none came since (until shutdown).
LatestCommandKept ==
    ~exiting => \A s \in Slaves :
        dev[s].master_status >= MASTER_READY /\ ~Locked(s) => dev[s].m2s_buf = hist[s].want

\* process_pdo publishes a sample only if the slave took it after reading a frame that
\* was sent after the previous publication: no sample is published twice and the time
\* stamp put on it, the sending time of that frame, is never later than the sample.
FreshSample ==
    [][\A s \in Slaves : hist'[s].pubs # hist[s].pubs => hist[s].seen = hist[s].pubs]_vars

\* What is published is telemetry of a working slave, never the echo of an argument that
\* is still in the buffer or in a frame that comes late.
PublishesTelemetry ==
    [][\A s \in Slaves : hist'[s].pubs # hist[s].pubs => dev[s].s2m_buf \in Telemetry]_vars

\* Once the exit reset has been done and the frame it goes out with is assembled, no
\* frame to a working slave carries anything but the initial value.
ExitResets ==
    exiting_reset_called /\ phase \in {"send", "cleanup", "done"} =>
        \A s \in Slaves : out[s].status >= MASTER_READY => out[s].word = InitWord

\* ... which is true until a callback that was still to run writes over the reset.
ExitResetsOnTime == late = 0 => ExitResets

\* Every slave gets through its argument transfer and the two ready messages and is
\* then published again and again, past the wrap of the latency counter, although
\* frames are lost and commands overwrite argument bytes in the buffer.
KeepsPublishing == \A s \in Slaves : <>(exiting \/ hist[s].pubs = MaxPubs)

\* A shutdown that was requested gets past its wait for the exit reset and runs to the end
\* of the data thread, in whatever state the slaves are.
ShutdownCompletes == exiting ~> phase = "done" /\ ~running
=============================================================================
